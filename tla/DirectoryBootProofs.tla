------------------------ MODULE DirectoryBootProofs -------------------------
(***************************************************************************)
(* Proofs about DirectoryBoot.  The first part is about the script: what   *)
(* commands it has and in which order.  The second is the inductive        *)
(* invariant: every command before the next one has had its effect, no     *)
(* later command undoes it, and an operator only a user's or membership's. *)
(***************************************************************************)
EXTENDS DirectoryBoot, SequenceTheorems, WellFoundedInduction, TLAPS

Names   == UNION {Range(Ous), AllGroups, AllUsers, Range(Computers),
                  {"IT-Admins", "Domain-Admins", "password-policy", "baseline-v5", "none"}}
Dos     == {"ou", "group", "user", "member", "disable", "drop_user", "drop_group", "computer",
            "nest", "settings", "marker"}
Command == [do : Dos, name : Names, group : Names]
Cmd(do, name, group) == [do |-> do, name |-> name, group |-> group]

\* The commands of a user: those that leave the user in turn, and those that come in a turn.
Opens  == {"user", "member"}
Within == {"member", "disable"}

\* A turn is not interrupted by commands of others.
Turns(s) ==
  \A i \in 1..Len(s) :
    /\ s[i].do \in Opens => i + 1 \in 1..Len(s) /\ s[i + 1].do \in Within /\ s[i + 1].name = s[i].name
    /\ s[i].do \in Within => i - 1 \in 1..Len(s) /\ s[i - 1].do \in Opens /\ s[i - 1].name = s[i].name

\* A user comes before the memberships of the user.
Ordered(s) ==
  \A i \in 1..Len(s) : s[i].do = "member" =>
    \E j \in 1..Len(s) : j < i /\ s[j].do = "user" /\ s[j].name = s[i].name

\* The groups come before all memberships.
GroupsFirst(s) ==
  \A i \in 1..Len(s), g \in Range(Groups) : s[i].do = "member" =>
    \E j \in 1..Len(s) : j < i /\ s[j].do = "group" /\ s[j].name = g

Wellformed(s) == s \in Seq(Command) /\ Turns(s) /\ Ordered(s)
-----------------------------------------------------------------------------
\* c is s followed by t.
Joined(c, s, t) ==
  /\ Len(c) = Len(s) + Len(t) /\ Len(s) \in Nat /\ Len(t) \in Nat
  /\ \A i \in 1..Len(s) : i \in 1..Len(c) /\ c[i] = s[i]
  /\ \A j \in 1..Len(t) : j + Len(s) \in 1..Len(c) /\ c[j + Len(s)] = t[j]
  /\ \A i \in 1..Len(c) : i \in 1..Len(s) \/ \E j \in 1..Len(t) : i = j + Len(s)

LEMMA ConcatForm ==
  ASSUME NEW S, NEW s \in Seq(S), NEW t \in Seq(S)
  PROVE  s \o t \in Seq(S) /\ Joined(s \o t, s, t) /\ Range(s \o t) = Range(s) \cup Range(t)
<1> DEFINE c == s \o t
<1>1. /\ c \in Seq(S) /\ Len(c) = Len(s) + Len(t) /\ Len(s) \in Nat /\ Len(t) \in Nat
      /\ \A i \in 1..Len(s) + Len(t) : c[i] = IF i <= Len(s) THEN s[i] ELSE t[i - Len(s)]
  BY ConcatProperties, LenProperties
<1> HIDE DEF c
<1>2. \A i \in 1..Len(s) : i \in 1..Len(c) /\ c[i] = s[i]
  BY <1>1
<1>3. ASSUME NEW j \in 1..Len(t) PROVE j + Len(s) \in 1..Len(c) /\ c[j + Len(s)] = t[j]
  <2>1. j + Len(s) \in 1..Len(s) + Len(t) /\ ~(j + Len(s) <= Len(s)) /\ (j + Len(s)) - Len(s) = j
    BY <1>1
  <2> QED BY <1>1, <2>1
<1>4. ASSUME NEW i \in 1..Len(c) PROVE i \in 1..Len(s) \/ \E j \in 1..Len(t) : i = j + Len(s)
  <2>1. CASE i <= Len(s)
    BY <1>1, <2>1
  <2>2. CASE ~(i <= Len(s))
    <3>1. i - Len(s) \in 1..Len(t) /\ i = (i - Len(s)) + Len(s)
      BY <1>1, <2>2
    <3> QED BY <3>1
  <2> QED BY <2>1, <2>2
<1>5. Range(c) = Range(s) \cup Range(t)
  BY RangeConcatenation DEF c
<1> QED BY <1>1, <1>2, <1>3, <1>4, <1>5 DEF c, Joined

LEMMA ConcatWellformed ==
  ASSUME NEW s, NEW t, Wellformed(s), Wellformed(t)
  PROVE  Wellformed(s \o t)
<1> DEFINE c == s \o t
           FirstIn(i) ==
             c[i].do \in Opens => i + 1 \in 1..Len(c) /\ c[i + 1].do \in Within /\ c[i + 1].name = c[i].name
           ThenIn(i) ==
             c[i].do \in Within => i - 1 \in 1..Len(c) /\ c[i - 1].do \in Opens /\ c[i - 1].name = c[i].name
           UserIn(i) ==
             c[i].do = "member" => \E j \in 1..Len(c) : j < i /\ c[j].do = "user" /\ c[j].name = c[i].name
<1>0. s \in Seq(Command) /\ t \in Seq(Command)
  BY DEF Wellformed
<1>1. c \in Seq(Command) /\ Joined(c, s, t)
  BY <1>0, ConcatForm
<1> USE DEF Joined
<1> HIDE DEF c
<1>2. ASSUME NEW i \in 1..Len(c) PROVE FirstIn(i) /\ ThenIn(i) /\ UserIn(i)
  <2>1. CASE i \in 1..Len(s)
    <3>1. c[i] = s[i]
      BY <1>1, <2>1
    <3>2. s[i].do \in Opens => i + 1 \in 1..Len(s) /\ s[i + 1].do \in Within /\ s[i + 1].name = s[i].name
      BY <2>1 DEF Wellformed, Turns
    <3>3. s[i].do \in Within => i - 1 \in 1..Len(s) /\ s[i - 1].do \in Opens /\ s[i - 1].name = s[i].name
      BY <2>1 DEF Wellformed, Turns
    <3>4. s[i].do = "member" => \E j \in 1..Len(s) : j < i /\ s[j].do = "user" /\ s[j].name = s[i].name
      BY <2>1 DEF Wellformed, Ordered
    <3> QED BY <1>1, <3>1, <3>2, <3>3, <3>4
  <2>2. ASSUME NEW k \in 1..Len(t), i = k + Len(s) PROVE FirstIn(i) /\ ThenIn(i) /\ UserIn(i)
    <3>1. /\ c[i] = t[k] /\ (k + 1) + Len(s) = i + 1 /\ (k - 1) + Len(s) = i - 1
          /\ \A j \in 1..Len(t) : j < k => j + Len(s) < i
      BY <1>1, <2>2
    <3>2. t[k].do \in Opens => k + 1 \in 1..Len(t) /\ t[k + 1].do \in Within /\ t[k + 1].name = t[k].name
      BY DEF Wellformed, Turns
    <3>3. t[k].do \in Within => k - 1 \in 1..Len(t) /\ t[k - 1].do \in Opens /\ t[k - 1].name = t[k].name
      BY DEF Wellformed, Turns
    <3>4. t[k].do = "member" => \E j \in 1..Len(t) : j < k /\ t[j].do = "user" /\ t[j].name = t[k].name
      BY DEF Wellformed, Ordered
    <3>5. FirstIn(i)
      BY <1>1, <3>1, <3>2
    <3>6. ThenIn(i)
      BY <1>1, <3>1, <3>3
    <3>7. UserIn(i)
      <4> SUFFICES ASSUME c[i].do = "member"
                   PROVE  \E j \in 1..Len(c) : j < i /\ c[j].do = "user" /\ c[j].name = c[i].name
        OBVIOUS
      <4>1. PICK j \in 1..Len(t) : j < k /\ t[j].do = "user" /\ t[j].name = t[k].name
        BY <3>1, <3>4
      <4>2. j + Len(s) \in 1..Len(c) /\ j + Len(s) < i /\ c[j + Len(s)] = t[j]
        BY <1>1, <3>1, <4>1
      <4> QED BY <3>1, <4>1, <4>2
    <3> QED BY <3>5, <3>6, <3>7
  <2> HIDE DEF FirstIn, ThenIn, UserIn
  <2> QED BY <1>1, <2>1, <2>2
<1>3. Turns(c) /\ Ordered(c)
  BY <1>2 DEF Turns, Ordered
<1> QED BY <1>1, <1>3 DEF Wellformed, c

\* A sequence of commands of which none is of a user has no turns.
Plain(s) == s \in Seq(Command) /\ \A i \in 1..Len(s) : s[i].do \notin {"user", "member", "disable"}

LEMMA PlainWellformed ==
  ASSUME NEW s, Plain(s) PROVE Wellformed(s)
BY DEF Plain, Wellformed, Turns, Ordered, Opens, Within

LEMMA EachForm ==
  ASSUME NEW do \in Dos, NEW names \in Seq(Names)
  PROVE  /\ Each(do, names) \in Seq(Command)
         /\ Len(Each(do, names)) = Len(names)
         /\ \A i \in 1..Len(names) : Each(do, names)[i] = Cmd(do, names[i], "none")
         /\ Range(Each(do, names)) = {Cmd(do, n, "none") : n \in Range(names)}
<1> DEFINE e == Each(do, names)
<1>1. Len(names) \in Nat /\ names \in [1..Len(names) -> Names] /\ DOMAIN names = 1..Len(names)
  BY LenProperties
<1>2. e = [i \in 1..Len(names) |-> Cmd(do, names[i], "none")]
  BY DEF Each, Cmd
<1>3. \A i \in 1..Len(names) : Cmd(do, names[i], "none") \in Command
  <2>1. "none" \in Names
    BY DEF Names
  <2>2. \A i \in 1..Len(names) : names[i] \in Names
    BY <1>1
  <2> QED BY <2>1, <2>2 DEF Cmd, Command
<1>4. e \in Seq(Command) /\ Len(e) = Len(names)
  BY <1>1, <1>2, <1>3
<1> HIDE DEF e
<1>5. Range(e) = {Cmd(do, n, "none") : n \in Range(names)}
  BY <1>1, <1>2 DEF Range
<1> QED BY <1>2, <1>4, <1>5 DEF e

\* The commands of one user.
TurnCommands(u) ==
  {Cmd("user", u, "none"), Cmd("disable", u, "none")} \cup {Cmd("member", u, g) : g \in Range(Groups)}

LEMMA NamesAreSequences ==
  /\ Ous \in Seq(Names) /\ Groups \in Seq(Names) /\ Users \in Seq(Names) /\ Computers \in Seq(Names)
  /\ DeprecatedUsers \in Seq(Names) /\ DeprecatedGroups \in Seq(Names)
<1>1. /\ Range(Ous) \subseteq Names /\ Range(Groups) \subseteq Names /\ Range(Users) \subseteq Names
      /\ Range(Computers) \subseteq Names /\ Range(DeprecatedUsers) \subseteq Names
      /\ Range(DeprecatedGroups) \subseteq Names
  BY DEF Names, AllGroups, AllUsers
<1>2. \A names \in {Ous, Groups, Users, DeprecatedUsers, DeprecatedGroups, Computers} :
        names \in Seq(Range(names))
  BY BaselineAssumption
<1> QED BY <1>1, <1>2, SeqMonotonic

LEMMA SingleForm ==
  ASSUME NEW S, NEW c \in S
  PROVE  /\ <<c>> \in Seq(S) /\ Len(<<c>>) = 1 /\ <<c>>[1] = c /\ Range(<<c>>) = {c}
BY DEF Range

LEMMA CmdFields ==
  \A do, name, group : /\ Cmd(do, name, group).do = do /\ Cmd(do, name, group).name = name
                        /\ Cmd(do, name, group).group = group
BY DEF Cmd

LEMMA TurnForm ==
  ASSUME NEW u \in Names
  PROVE  Wellformed(Turn(u)) /\ Range(Turn(u)) = TurnCommands(u)
<1> DEFINE n == Len(Groups)
           a == <<Cmd("user", u, "none")>>
           m == [j \in 1..n |-> Cmd("member", u, Groups[j])]
           z == <<Cmd("disable", u, "none")>>
           ma == a \o m
           t == ma \o z
<1>1. n \in Nat /\ DOMAIN Groups = 1..n /\ \A j \in 1..n : Groups[j] \in Names
  BY NamesAreSequences, LenProperties
<1>2. /\ Cmd("user", u, "none") \in Command /\ Cmd("disable", u, "none") \in Command
      /\ \A g \in Names : Cmd("member", u, g) \in Command
  <2>1. "none" \in Names
    BY DEF Names
  <2> QED BY <2>1 DEF Command, Cmd, Dos
<1>3. Turn(u) = t
  BY DEF Turn, Each, Cmd
<1>4. /\ a \in Seq(Command) /\ Len(a) = 1 /\ a[1] = Cmd("user", u, "none") /\ Range(a) = {a[1]}
      /\ z \in Seq(Command) /\ Len(z) = 1 /\ z[1] = Cmd("disable", u, "none") /\ Range(z) = {z[1]}
  BY <1>2, SingleForm
<1>5. /\ m \in Seq(Command) /\ Len(m) = n /\ \A j \in 1..n : m[j] = Cmd("member", u, Groups[j])
      /\ Range(m) = {Cmd("member", u, g) : g \in Range(Groups)}
  <2>1. m \in Seq(Command) /\ Len(m) = n
    BY <1>1, <1>2
  <2>2. Range(m) = {Cmd("member", u, g) : g \in Range(Groups)}
    BY <1>1 DEF Range
  <2> QED BY <2>1, <2>2
<1> HIDE DEF n, a, m, z
<1>6. ma \in Seq(Command) /\ Joined(ma, a, m) /\ Range(ma) = Range(a) \cup Range(m)
  BY <1>4, <1>5, ConcatForm
<1> HIDE DEF ma
<1>7. t \in Seq(Command) /\ Joined(t, ma, z) /\ Range(t) = Range(ma) \cup Range(z)
  BY <1>4, <1>6, ConcatForm
<1> HIDE DEF t
<1>8. Range(t) = TurnCommands(u)
  BY <1>4, <1>5, <1>6, <1>7 DEF TurnCommands
<1>9. Len(ma) = n + 1 /\ Len(t) = n + 2
  BY <1>1, <1>4, <1>5, <1>6, <1>7 DEF Joined
<1>10. /\ t[1] = Cmd("user", u, "none") /\ t[n + 2] = Cmd("disable", u, "none")
       /\ \A j \in 1..n : t[j + 1] = Cmd("member", u, Groups[j])
  <2>1. ma[1] = a[1] /\ 1 \in 1..Len(ma) /\ \A j \in 1..n : j + 1 \in 1..Len(ma) /\ ma[j + 1] = m[j]
    BY <1>1, <1>4, <1>5, <1>6 DEF Joined
  <2>2. t[1] = ma[1] /\ \A j \in 1..n : t[j + 1] = ma[j + 1]
    BY <1>7, <2>1 DEF Joined
  <2>3. 1 + Len(ma) = n + 2 /\ 1 \in 1..Len(z)
    BY <1>1, <1>4, <1>9
  <2>4. t[n + 2] = z[1]
    BY <1>7, <2>3 DEF Joined
  <2> QED BY <1>4, <1>5, <2>1, <2>2, <2>4
<1>11. \A i \in 1..n+2 :
         /\ i = 1 => t[i].do = "user"
         /\ i = n + 2 => t[i].do = "disable"
         /\ i # 1 /\ i # n + 2 => t[i].do = "member"
         /\ t[i].name = u
  <2> SUFFICES ASSUME NEW i \in 1..n+2
               PROVE  /\ i = 1 => t[i].do = "user"
                      /\ i = n + 2 => t[i].do = "disable"
                      /\ i # 1 /\ i # n + 2 => t[i].do = "member"
                      /\ t[i].name = u
    OBVIOUS
  <2>1. CASE i = 1
    BY <1>1, <1>10, <2>1 DEF Cmd
  <2>2. CASE i = n + 2
    BY <1>1, <1>10, <2>2 DEF Cmd
  <2>3. CASE i # 1 /\ i # n + 2
    <3>1. i - 1 \in 1..n /\ (i - 1) + 1 = i
      BY <1>1, <2>3
    <3>2. t[i] = Cmd("member", u, Groups[i - 1])
      BY <1>10, <3>1
    <3> QED BY <2>3, <3>2 DEF Cmd
  <2> QED BY <2>1, <2>2, <2>3
<1>12. Turns(t)
  BY <1>1, <1>9, <1>11 DEF Turns, Opens, Within
<1>13. Ordered(t)
  <2>1. 1 \in 1..Len(t) /\ \A i \in 1..Len(t) : i # 1 => 1 < i
    BY <1>1, <1>9
  <2> QED BY <1>9, <1>11, <2>1 DEF Ordered
<1> QED BY <1>3, <1>7, <1>8, <1>12, <1>13 DEF Wellformed
-----------------------------------------------------------------------------
\* Induction over the numbers, for a set instead of a predicate.
Less == OpToRel(<, Nat)
LEMMA LessThan == Less = {ss \in Nat \X Nat : ss[1] < ss[2]}
BY DEF OpToRel, Less

LEMMA LeastElement ==
  ASSUME NEW T, T \subseteq Nat, T # {}
  PROVE  \E m \in T : \A k \in T : m <= k
<1>1. IsWellFoundedOn(Less, Nat)
  BY NatLessThanWellFounded DEF Less
<1>2. PICK x \in T : \A y \in T : ~ (<<y, x>> \in Less)
  BY <1>1, WFMin
<1>3. ASSUME NEW k \in T PROVE x <= k
  <2>1. <<k, x>> \notin {ss \in Nat \X Nat : ss[1] < ss[2]}
    BY <1>2, LessThan
  <2>2. <<k, x>> \in Nat \X Nat /\ <<k, x>>[1] = k /\ <<k, x>>[2] = x
    OBVIOUS
  <2>3. ~(k < x)
    BY <2>1, <2>2
  <2> QED BY <2>3
<1> QED BY <1>3

LEMMA Induction ==
  ASSUME NEW S, 0 \in S, \A n \in Nat : n \in S => n + 1 \in S
  PROVE  Nat \subseteq S
<1> SUFFICES ASSUME Nat \ S # {} PROVE FALSE
  OBVIOUS
<1>1. PICK m \in Nat \ S : \A k \in Nat \ S : m <= k
  BY LeastElement
<1>2. m # 0 /\ m - 1 \in Nat /\ m - 1 \in S
  <2>1. m # 0
    BY <1>1
  <2>2. m-1 \in Nat
    BY <2>1
  <2> QED BY <2>1, <2>2, <1>1
<1> QED BY <1>2

\* f is the table of what the first i of the sequences make together, for i up to k.
Flattens(f, seqs, k) ==
  f = [i \in 1..k |-> IF i = 1 THEN seqs[i] ELSE f[i - 1] \o seqs[i]]

LEMMA FlattensExist == ASSUME NEW seqs PROVE \A k \in Nat : \E f : Flattens(f, seqs, k)
<1> DEFINE S == {k \in Nat : \E f : Flattens(f, seqs, k)}
<1>1. 0 \in S
  <2>1. Flattens([i \in 1..0 |-> <<>>], seqs, 0)
    BY DEF Flattens
  <2> QED BY <2>1
<1>2. ASSUME NEW k \in Nat, k \in S PROVE k + 1 \in S
  <2>1. PICK f : Flattens(f, seqs, k)
    BY <1>2
  <2> DEFINE last == IF k = 0 THEN seqs[1] ELSE f[k] \o seqs[k + 1]
             g == [i \in 1..k+1 |-> IF i # k + 1 THEN f[i] ELSE last]
             h == [i \in 1..k+1 |-> IF i = 1 THEN seqs[i] ELSE g[i - 1] \o seqs[i]]
  <2>2. \A i \in 1..k : g[i] = f[i]
    OBVIOUS
  <2>3. ASSUME NEW i \in 1..k+1 PROVE g[i] = h[i]
    <3>1. CASE i \in 1..k
      <4>1. f[i] = IF i = 1 THEN seqs[i] ELSE f[i - 1] \o seqs[i]
        BY <2>1, <3>1 DEF Flattens
      <4>2. i # 1 => i - 1 \in 1..k
        BY <3>1
      <4> QED BY <2>2, <3>1, <4>1, <4>2
    <3>2. CASE i = k + 1
      <4>1. k # 0 => k \in 1..k /\ i # 1 /\ i - 1 = k
        BY <3>2
      <4>2. k = 0 => i = 1
        BY <3>2
      <4> QED BY <2>2, <3>2, <4>1, <4>2
    <3> QED BY <3>1, <3>2
  <2>4. g = h
    BY <2>3
  <2>5. Flattens(g, seqs, k + 1)
    BY <2>4 DEF Flattens
  <2> QED BY <2>5
<1> HIDE DEF S
<1>3. Nat \subseteq S
  BY <1>1, <1>2, Induction
<1> QED BY <1>3 DEF S

LEMMA FlattenIsLast ==
  ASSUME NEW seqs, Len(seqs) \in Nat \ {0}
  PROVE  \E f : Flattens(f, seqs, Len(seqs)) /\ FlattenSeq(seqs) = f[Len(seqs)]
<1> DEFINE f == CHOOSE f : Flattens(f, seqs, Len(seqs))
<1>1. Flattens(f, seqs, Len(seqs))
  BY FlattensExist
<1>2. FlattenSeq(seqs) = f[Len(seqs)]
  BY DEF FlattenSeq, Flattens
<1> QED BY <1>1, <1>2

LEMMA FlattenForm ==
  ASSUME NEW seqs, NEW n \in Nat, seqs \in Seq(Seq(Command)), Len(seqs) = n,
         \A i \in 1..n : Wellformed(seqs[i])
  PROVE  /\ Wellformed(FlattenSeq(seqs))
         /\ Range(FlattenSeq(seqs)) = UNION {Range(seqs[i]) : i \in 1..n}
<1>1. CASE n = 0
  <2>1. FlattenSeq(seqs) = <<>> /\ seqs = <<>>
    BY <1>1 DEF FlattenSeq
  <2>2. Wellformed(<<>>) /\ Range(<<>>) = {}
    BY DEF Wellformed, Turns, Ordered, Range
  <2> QED BY <1>1, <2>1, <2>2
<1>2. CASE n # 0
  <2>1. PICK f : Flattens(f, seqs, n) /\ FlattenSeq(seqs) = f[n]
    BY <1>2, FlattenIsLast
  <2> DEFINE Right(i) == Wellformed(f[i]) /\ Range(f[i]) = UNION {Range(seqs[j]) : j \in 1..i}
             S == {i \in Nat : i \in 1..n => Right(i)}
  <2>2. 0 \in S
    OBVIOUS
  <2>3. ASSUME NEW i \in Nat, i \in S PROVE i + 1 \in S
    <3> SUFFICES ASSUME i + 1 \in 1..n PROVE Right(i + 1)
      OBVIOUS
    <3>1. f[i + 1] = IF i = 0 THEN seqs[i + 1] ELSE f[i] \o seqs[i + 1]
      <4>1. i + 1 = 1 <=> i = 0
        OBVIOUS
      <4>2. (i + 1) - 1 = i
        OBVIOUS
      <4> QED BY <2>1, <4>1, <4>2 DEF Flattens
    <3>2. UNION {Range(seqs[j]) : j \in 1..i+1} = (UNION {Range(seqs[j]) : j \in 1..i}) \cup Range(seqs[i + 1])
      <4>1. 1..(i + 1) = (1..i) \cup {i + 1}
        OBVIOUS
      <4> HIDE DEF Right, S
      <4> QED BY <4>1
    <3>3. CASE i = 0
      <4>1. {Range(seqs[j]) : j \in 1..0} = {}
        OBVIOUS
      <4>2. f[i + 1] = seqs[i + 1] /\ UNION {Range(seqs[j]) : j \in 1..i+1} = Range(seqs[i + 1])
        BY <3>1, <3>2, <3>3, <4>1
      <4> QED BY <4>2
    <3>4. CASE i # 0
      <4>1. Right(i)
        BY <2>3, <3>4
      <4>2. /\ Wellformed(f[i] \o seqs[i + 1])
            /\ Range(f[i] \o seqs[i + 1]) = Range(f[i]) \cup Range(seqs[i + 1])
        BY <4>1, ConcatWellformed, ConcatForm DEF Wellformed
      <4>3. f[i + 1] = f[i] \o seqs[i + 1]
        BY <3>1, <3>4
      <4> QED BY <3>2, <4>1, <4>2, <4>3
    <3> QED BY <3>3, <3>4
  <2> HIDE DEF S
  <2>4. Nat \subseteq S
    BY <2>2, <2>3, Induction
  <2>5. n \in 1..n /\ n \in S
    BY <1>2, <2>4
  <2>6. Right(n)
    BY <2>5 DEF S
  <2> QED BY <2>1, <2>6
<1> QED BY <1>1, <1>2

LEMMA AllTurnsForm ==
  LET s == FlattenSeq([i \in 1..Len(Users) |-> Turn(Users[i])]) IN
  Wellformed(s) /\ Range(s) = UNION {TurnCommands(u) : u \in Range(Users)}
<1> DEFINE n == Len(Users)
           seqs == [i \in 1..n |-> Turn(Users[i])]
<1>1. n \in Nat /\ DOMAIN Users = 1..n /\ \A i \in 1..n : Users[i] \in Names
  BY NamesAreSequences, LenProperties
<1>2. \A i \in 1..n : Wellformed(Turn(Users[i])) /\ Range(Turn(Users[i])) = TurnCommands(Users[i])
  BY <1>1, TurnForm
<1>3. seqs \in Seq(Seq(Command)) /\ Len(seqs) = n /\ \A i \in 1..n : seqs[i] = Turn(Users[i])
  BY <1>1, <1>2 DEF Wellformed
<1> HIDE DEF seqs
<1>4. Wellformed(FlattenSeq(seqs)) /\ Range(FlattenSeq(seqs)) = UNION {Range(seqs[i]) : i \in 1..n}
  <2>1. \A i \in 1..n : Wellformed(seqs[i])
    BY <1>2, <1>3
  <2> HIDE DEF n
  <2> QED BY <1>1, <1>3, <2>1, FlattenForm
<1>5. UNION {Range(seqs[i]) : i \in 1..n} = UNION {TurnCommands(u) : u \in Range(Users)}
  <2>1. \A i \in 1..n : Range(seqs[i]) = TurnCommands(Users[i])
    BY <1>2, <1>3
  <2>2. \A u : u \in Range(Users) <=> \E i \in 1..n : u = Users[i]
    BY <1>1 DEF Range
  <2> QED BY <2>1, <2>2, Zenon
<1> QED BY <1>4, <1>5 DEF seqs

\* s has the commands of all groups before its first membership.
Grouped(s) ==
  /\ Wellformed(s) /\ GroupsFirst(s)
  /\ \A g \in Range(Groups) : \E j \in 1..Len(s) : s[j].do = "group" /\ s[j].name = g

LEMMA ConcatGrouped ==
  ASSUME NEW s, NEW t, Grouped(s), Wellformed(t)
  PROVE  Grouped(s \o t) /\ Range(s \o t) = Range(s) \cup Range(t)
<1> DEFINE c == s \o t
<1>1. s \in Seq(Command) /\ t \in Seq(Command) /\ Wellformed(s)
  BY DEF Grouped, Wellformed
<1>2. Joined(c, s, t) /\ Range(c) = Range(s) \cup Range(t)
  BY <1>1, ConcatForm
<1>3. Wellformed(c)
  BY <1>1, ConcatWellformed
<1> HIDE DEF c
<1>4. \A g \in Range(Groups) : \E j \in 1..Len(s) : c[j].do = "group" /\ c[j].name = g /\ j \in 1..Len(c)
  BY <1>2 DEF Grouped, Joined
<1>5. ASSUME NEW i \in 1..Len(c), NEW g \in Range(Groups), c[i].do = "member"
      PROVE  \E j \in 1..Len(c) : j < i /\ c[j].do = "group" /\ c[j].name = g
  <2>1. CASE i \in 1..Len(s)
    <3>1. s[i].do = "member"
      BY <1>2, <1>5, <2>1 DEF Joined
    <3>2. \E j \in 1..Len(s) : j < i /\ s[j].do = "group" /\ s[j].name = g
      BY <2>1, <3>1 DEF Grouped, GroupsFirst
    <3> QED BY <1>2, <3>2 DEF Joined
  <2>2. CASE i \notin 1..Len(s)
    <3>1. PICK j \in 1..Len(s) : c[j].do = "group" /\ c[j].name = g /\ j \in 1..Len(c)
      BY <1>4
    <3>2. j < i
      BY <1>2, <2>2 DEF Joined
    <3> QED BY <3>1, <3>2
  <2> QED BY <2>1, <2>2
<1>6. GroupsFirst(c)
  BY <1>5 DEF GroupsFirst
<1> QED BY <1>2, <1>3, <1>4, <1>6 DEF Grouped, c

\* All commands of the script but the marker.
UserCommands == UNION {TurnCommands(u) : u \in Range(Users)}

Effects ==
  {Cmd("ou", n, "none") : n \in Range(Ous)} \cup {Cmd("group", n, "none") : n \in Range(Groups)}
    \cup UserCommands
    \cup {Cmd("drop_user", n, "none") : n \in Range(DeprecatedUsers)}
    \cup {Cmd("drop_group", n, "none") : n \in Range(DeprecatedGroups)}
    \cup {Cmd("computer", n, "none") : n \in Range(Computers)}
    \cup {Cmd("nest", "IT-Admins", "Domain-Admins"), Cmd("settings", "password-policy", "none")}

Shape(c) ==
  \/ c.do = "ou" /\ c.name \in Range(Ous)
  \/ c.do = "group" /\ c.name \in Range(Groups)
  \/ c.do \in {"user", "disable"} /\ c.name \in Range(Users)
  \/ c.do = "member" /\ c.name \in Range(Users) /\ c.group \in Range(Groups)
  \/ c.do = "drop_user" /\ c.name \in Range(DeprecatedUsers)
  \/ c.do = "drop_group" /\ c.name \in Range(DeprecatedGroups)
  \/ c.do = "computer" /\ c.name \in Range(Computers)
  \/ c.do \in {"nest", "settings"}

LEMMA EffectForm == ASSUME NEW c \in Effects PROVE Shape(c)
<1>1. CASE c \in {Cmd("ou", n, "none") : n \in Range(Ous)}
  BY <1>1 DEF Shape, Cmd
<1>2. CASE c \in {Cmd("group", n, "none") : n \in Range(Groups)}
  BY <1>2 DEF Shape, Cmd
<1>3. ASSUME NEW u \in Range(Users), c \in TurnCommands(u) PROVE Shape(c)
  <2>1. CASE c \in {Cmd("user", u, "none"), Cmd("disable", u, "none")}
    BY <2>1 DEF Shape, Cmd
  <2>2. CASE c \in {Cmd("member", u, g) : g \in Range(Groups)}
    BY <2>2 DEF Shape, Cmd
  <2> QED BY <1>3, <2>1, <2>2 DEF TurnCommands
<1>4. CASE c \in {Cmd("drop_user", n, "none") : n \in Range(DeprecatedUsers)}
  BY <1>4 DEF Shape, Cmd
<1>5. CASE c \in {Cmd("drop_group", n, "none") : n \in Range(DeprecatedGroups)}
  BY <1>5 DEF Shape, Cmd
<1>6. CASE c \in {Cmd("computer", n, "none") : n \in Range(Computers)}
  BY <1>6 DEF Shape, Cmd
<1>7. CASE c \in {Cmd("nest", "IT-Admins", "Domain-Admins"), Cmd("settings", "password-policy", "none")}
  BY <1>7 DEF Shape, Cmd
<1>8. CASE c \in UserCommands
  BY <1>3, <1>8 DEF UserCommands
<1> QED BY <1>1, <1>2, <1>4, <1>5, <1>6, <1>7, <1>8 DEF Effects

LEMMA PlainEach ==
  ASSUME NEW do \in Dos \ {"user", "member", "disable"}, NEW names \in Seq(Names)
  PROVE  /\ Wellformed(Each(do, names))
         /\ Range(Each(do, names)) = {Cmd(do, n, "none") : n \in Range(names)}
<1>1. /\ Each(do, names) \in Seq(Command) /\ Len(Each(do, names)) = Len(names)
      /\ \A i \in 1..Len(names) : Each(do, names)[i] = Cmd(do, names[i], "none")
      /\ Range(Each(do, names)) = {Cmd(do, n, "none") : n \in Range(names)}
  BY EachForm
<1>2. Plain(Each(do, names))
  <2>1. ASSUME NEW i \in 1..Len(Each(do, names))
        PROVE  Each(do, names)[i].do \notin {"user", "member", "disable"}
    BY <1>1, CmdFields
  <2> QED BY <1>1, <2>1 DEF Plain
<1> QED BY <1>1, <1>2, PlainWellformed

\* The script: turns are whole, a user and all groups come before a membership, and the
\* marker is the last command and only that.
LEMMA ScriptForm ==
  /\ Wellformed(Script) /\ GroupsFirst(Script)
  /\ Range(Script) = Effects \cup {Cmd("marker", "baseline-v5", "none")}
  /\ Len(Script) \in Nat \ {0}
  /\ \A i \in 1..Len(Script) : Script[i].do = "marker" <=> i = Len(Script)
<1> DEFINE ou    == Each("ou", Ous)
           group == Each("group", Groups)
           turns == FlattenSeq([i \in 1..Len(Users) |-> Turn(Users[i])])
           duser == Each("drop_user", DeprecatedUsers)
           dgrp  == Each("drop_group", DeprecatedGroups)
           comp  == Each("computer", Computers)
           nest  == <<Cmd("nest", "IT-Admins", "Domain-Admins")>>
           sett  == Each("settings", <<"password-policy">>)
           mark  == Each("marker", <<"baseline-v5">>)
           s2 == ou \o group
           s3 == s2 \o turns
           s4 == s3 \o duser
           s5 == s4 \o dgrp
           s6 == s5 \o comp
           s7 == s6 \o nest
           s8 == s7 \o sett
           s9 == s8 \o mark
<1>1. Script = s9
  BY DEF Script, Cmd
<1>2. /\ <<"password-policy">> \in Seq(Names) /\ <<"baseline-v5">> \in Seq(Names)
      /\ Range(<<"password-policy">>) = {"password-policy"} /\ Range(<<"baseline-v5">>) = {"baseline-v5"}
      /\ Len(<<"baseline-v5">>) = 1 /\ <<"baseline-v5">>[1] = "baseline-v5"
  <2>1. "password-policy" \in Names /\ "baseline-v5" \in Names
    BY DEF Names
  <2> QED BY <2>1, SingleForm
<1>3. /\ Wellformed(ou) /\ Range(ou) = {Cmd("ou", n, "none") : n \in Range(Ous)}
      /\ Wellformed(group) /\ Range(group) = {Cmd("group", n, "none") : n \in Range(Groups)}
      /\ Wellformed(duser) /\ Range(duser) = {Cmd("drop_user", n, "none") : n \in Range(DeprecatedUsers)}
      /\ Wellformed(dgrp) /\ Range(dgrp) = {Cmd("drop_group", n, "none") : n \in Range(DeprecatedGroups)}
      /\ Wellformed(comp) /\ Range(comp) = {Cmd("computer", n, "none") : n \in Range(Computers)}
  BY NamesAreSequences, PlainEach DEF Dos
<1>4. /\ Wellformed(sett) /\ Range(sett) = {Cmd("settings", "password-policy", "none")}
      /\ Wellformed(mark) /\ Range(mark) = {Cmd("marker", "baseline-v5", "none")}
  <2>1. "settings" \in Dos \ {"user", "member", "disable"} /\ "marker" \in Dos \ {"user", "member", "disable"}
    BY DEF Dos
  <2>2. Wellformed(sett) /\ Range(sett) = {Cmd("settings", n, "none") : n \in {"password-policy"}}
    BY <1>2, <2>1, PlainEach
  <2>3. Wellformed(mark) /\ Range(mark) = {Cmd("marker", n, "none") : n \in {"baseline-v5"}}
    BY <1>2, <2>1, PlainEach
  <2> HIDE DEF sett, mark
  <2> QED BY <2>2, <2>3
<1>5. Wellformed(turns) /\ Range(turns) = UNION {TurnCommands(u) : u \in Range(Users)}
  BY AllTurnsForm
<1>6. Wellformed(nest) /\ Range(nest) = {Cmd("nest", "IT-Admins", "Domain-Admins")}
  <2>1. Cmd("nest", "IT-Admins", "Domain-Admins") \in Command
    BY DEF Cmd, Command, Dos, Names
  <2>2. /\ nest \in Seq(Command) /\ Len(nest) = 1 /\ nest[1] = Cmd("nest", "IT-Admins", "Domain-Admins")
        /\ Range(nest) = {Cmd("nest", "IT-Admins", "Domain-Admins")}
    BY <2>1, SingleForm
  <2> HIDE DEF nest
  <2>3. nest[1].do = "nest" /\ \A i \in 1..Len(nest) : i = 1
    <3>1. nest[1].do = "nest"
      BY <2>2 DEF Cmd
    <3>2. \A i \in 1..Len(nest) : i = 1
      BY <2>2
    <3> QED BY <3>1, <3>2
  <2>4. Plain(nest)
    BY <2>2, <2>3 DEF Plain
  <2> QED BY <2>2, <2>4, PlainWellformed
<1>7. Grouped(s2) /\ Range(s2) = Range(ou) \cup Range(group)
  <2>1. ou \in Seq(Command) /\ group \in Seq(Command)
    BY <1>3 DEF Wellformed
  <2> HIDE DEF ou, group
  <2>2. Joined(s2, ou, group) /\ Range(s2) = Range(ou) \cup Range(group) /\ Wellformed(s2)
    <3>1. Wellformed(s2)
      BY <1>3, ConcatWellformed
    <3>2. Joined(s2, ou, group) /\ Range(s2) = Range(ou) \cup Range(group)
      BY <2>1, ConcatForm
    <3> QED BY <3>1, <3>2
  <2> HIDE DEF s2
  <2>3. \A i \in 1..Len(s2) : s2[i] \in Range(s2)
    BY <2>2, LenProperties DEF Wellformed, Range
  <2>4. \A c \in Range(s2) : c.do \in {"ou", "group"}
    <3> SUFFICES ASSUME NEW c \in Range(s2) PROVE c.do \in {"ou", "group"}
      OBVIOUS
    <3>1. CASE c \in {Cmd("ou", n, "none") : n \in Range(Ous)}
      BY <3>1 DEF Cmd
    <3>2. CASE c \in {Cmd("group", n, "none") : n \in Range(Groups)}
      BY <3>2 DEF Cmd
    <3> QED BY <1>3, <2>2, <3>1, <3>2
  <2>5. GroupsFirst(s2)
    BY <2>3, <2>4 DEF GroupsFirst
  <2>6. ASSUME NEW g \in Range(Groups)
        PROVE \E j \in 1..Len(s2) : s2[j].do = "group" /\ s2[j].name = g
    <3>1. Cmd("group", g, "none") \in Range(s2)
      BY <1>3, <2>2
    <3>2. PICK j \in 1..Len(s2) : s2[j] = Cmd("group", g, "none")
      BY <2>2, <3>1, LenProperties DEF Wellformed, Range
    <3> QED BY <3>2 DEF Cmd
  <2> QED BY <2>2, <2>5, <2>6 DEF Grouped
<1> HIDE DEF ou, group, turns, duser, dgrp, comp, nest, sett, mark, s2
<1>8. Grouped(s3) /\ Range(s3) = Range(s2) \cup Range(turns)
  BY <1>5, <1>7, ConcatGrouped
<1> HIDE DEF s3
<1>9. Grouped(s4) /\ Range(s4) = Range(s3) \cup Range(duser)
  BY <1>3, <1>8, ConcatGrouped
<1> HIDE DEF s4
<1>10. Grouped(s5) /\ Range(s5) = Range(s4) \cup Range(dgrp)
  BY <1>3, <1>9, ConcatGrouped
<1> HIDE DEF s5
<1>11. Grouped(s6) /\ Range(s6) = Range(s5) \cup Range(comp)
  BY <1>3, <1>10, ConcatGrouped
<1> HIDE DEF s6
<1>12. Grouped(s7) /\ Range(s7) = Range(s6) \cup Range(nest)
  BY <1>6, <1>11, ConcatGrouped
<1> HIDE DEF s7
<1>13. Grouped(s8) /\ Range(s8) = Range(s7) \cup Range(sett)
  BY <1>4, <1>12, ConcatGrouped
<1> HIDE DEF s8
<1>14. Grouped(s9) /\ Range(s9) = Range(s8) \cup Range(mark)
  BY <1>4, <1>13, ConcatGrouped
<1>15. Range(s8) = Effects
  BY <1>3, <1>4, <1>5, <1>6, <1>7, <1>8, <1>9, <1>10, <1>11, <1>12, <1>13 DEF Effects, UserCommands
<1>16. Joined(s9, s8, mark)
  BY <1>4, <1>13, ConcatForm DEF Grouped, Wellformed
<1>17. /\ Len(mark) = 1 /\ mark[1] = Cmd("marker", "baseline-v5", "none")
       /\ s8 \in Seq(Command) /\ Len(s8) \in Nat
  <2> DEFINE names == <<"baseline-v5">>
  <2>1. "marker" \in Dos /\ names \in Seq(Names) /\ Len(names) = 1 /\ names[1] = "baseline-v5"
    BY <1>2 DEF Dos
  <2> HIDE DEF names
  <2>2. Len(Each("marker", names)) = 1 /\ Each("marker", names)[1] = Cmd("marker", "baseline-v5", "none")
    BY <2>1, EachForm
  <2>3. Len(mark) = 1 /\ mark[1] = Cmd("marker", "baseline-v5", "none")
    BY <2>2 DEF mark, names
  <2> QED BY <1>13, <2>3, LenProperties DEF Grouped, Wellformed
<1> HIDE DEF s9
<1>18. Len(s9) = Len(s8) + 1 /\ s9[Len(s9)] = Cmd("marker", "baseline-v5", "none")
  BY <1>16, <1>17 DEF Joined
<1>19. \A i \in 1..Len(s9) : i # Len(s9) => s9[i].do # "marker"
  <2> SUFFICES ASSUME NEW i \in 1..Len(s9), i # Len(s9) PROVE s9[i].do # "marker"
    OBVIOUS
  <2>1. i \in 1..Len(s8) /\ s9[i] = s8[i]
    BY <1>16, <1>17, <1>18 DEF Joined
  <2>2. s8[i] \in Effects
    BY <1>15, <1>17, <2>1, LenProperties DEF Range
  <2>3. \A c \in Effects : c.do # "marker"
    BY EffectForm DEF Shape
  <2> QED BY <2>1, <2>2, <2>3
<1>20. \A i \in 1..Len(s9) : s9[i].do = "marker" <=> i = Len(s9)
  BY <1>18, <1>19 DEF Cmd
<1>21. Range(s9) = Effects \cup {Cmd("marker", "baseline-v5", "none")}
  BY <1>4, <1>14, <1>15
<1>22. Len(s9) \in Nat \ {0}
  BY <1>17, <1>18
<1>23. Wellformed(s9) /\ GroupsFirst(s9)
  BY <1>14 DEF Grouped
<1> QED BY <1>1, <1>20, <1>21, <1>22, <1>23

LEMMA ScriptElements ==
  /\ Len(Script) \in Nat \ {0}
  /\ \A i \in 1..Len(Script) : Script[i].do # "marker" => Shape(Script[i]) /\ i + 1 \in 1..Len(Script)
  /\ \A c \in Effects : \E i \in 1..Len(Script) : Script[i] = c /\ i < Len(Script)
<1>1. Script \in Seq(Command) /\ Len(Script) \in Nat \ {0}
  BY ScriptForm DEF Wellformed
<1>2. DOMAIN Script = 1..Len(Script)
  BY <1>1, LenProperties
<1>3. ASSUME NEW i \in 1..Len(Script), Script[i].do # "marker"
      PROVE  Shape(Script[i]) /\ i + 1 \in 1..Len(Script)
  <2>1. Script[i] \in Range(Script)
    BY <1>2 DEF Range
  <2>2. Script[i] # Cmd("marker", "baseline-v5", "none")
    BY <1>3 DEF Cmd
  <2>3. Script[i] \in Effects
    BY <2>1, <2>2, ScriptForm
  <2>4. i # Len(Script)
    BY <1>3, ScriptForm
  <2> QED BY <1>1, <2>3, <2>4, EffectForm
<1>4. ASSUME NEW c \in Effects PROVE \E i \in 1..Len(Script) : Script[i] = c /\ i < Len(Script)
  <2>1. PICK i \in 1..Len(Script) : Script[i] = c
    BY <1>2, ScriptForm DEF Range
  <2>2. c.do # "marker"
    BY EffectForm DEF Shape
  <2> QED BY <1>1, <2>1, <2>2, ScriptForm
<1> QED BY <1>1, <1>3, <1>4
-----------------------------------------------------------------------------
(* The inductive invariant *)

\* What directory d is like once command c has run, until the end of the script.
Achieved(c, d) ==
  /\ c.do = "ou" => c.name \in d.ous
  /\ c.do = "group" => c.name \in d.groups
  /\ c.do = "user" => c.name \in d.users
  /\ c.do = "member" => (c.group \in d.member[c.name] <=> c.group \in Baseline[c.name])
  /\ c.do = "drop_user" => c.name \notin d.users
  /\ c.do = "drop_group" => c.name \notin d.groups
  /\ c.do = "computer" =>
       d.place[c.name] # "none" /\ (c.name \in Laptops => d.place[c.name] = Place[c.name])
  /\ c.do = "nest" => d.nested
  /\ c.do = "settings" => d.settings

\* An operator changed what the command set.
Undone(c, ops) == \/ c.do = "member" /\ <<c.name, c.group>> \in ops
                  \/ c.do = "user" /\ <<c.name, "user">> \in ops

\* The script runs only without the marker, and DC01 serves only with it.
Phases ==
  /\ status = "creating" => domain = "partial" /\ pc = 1
  /\ status \in {"creating", "script"} => ~marker
  /\ status = "serving" => marker
  /\ domain # "ready" => created = {} /\ fresh = FALSE

DoneSoFar ==
  status = "script" /\ domain = "ready" =>
    \A i \in 1..pc - 1 : Achieved(Script[i], dir) \/ Undone(Script[i], operated)

\* A former employee whom a boot created is disabled, or is in turn, or was cut off, or is
\* what an operator made of the account.
FormerSoFar ==
  /\ InTurn \subseteq created
  /\ ~marker => (created \cap Disabled) \ (cut \cup Overruled) \subseteq dir.disabled \cup InTurn

IInv == TypeOK /\ Phases /\ DoneSoFar /\ FormerSoFar
-----------------------------------------------------------------------------
LEMMA EmptyTyped == Empty \in Directory /\ Consistent(Empty)
<1>1. Empty \in Directory
  BY DEF Empty, Directory
<1>2. Empty.disabled = {} /\ \A u \in AllUsers : Empty.member[u] = {}
  BY DEF Empty
<1> QED BY <1>1, <1>2 DEF Consistent

LEMMA InvInit == Init => IInv
<1> SUFFICES ASSUME Init PROVE IInv
  OBVIOUS
<1>1. dir \in Directory /\ Consistent(dir)
  BY EmptyTyped, ExistingAssumption DEF Init
<1>2. InTurn = {} /\ 1 \in 1..Len(Script) /\ 0 \in 0..MaxDisturbances
  BY ScriptElements, BaselineAssumption DEF Init, InTurn
<1>3. TypeOK
  BY <1>1, <1>2 DEF Init, TypeOK
<1>4. Phases /\ DoneSoFar /\ FormerSoFar
  BY <1>2 DEF Init, Phases, DoneSoFar, FormerSoFar
<1> QED BY <1>3, <1>4 DEF IInv

\* What a command of the script does to the directory.
Carries(d) ==
  /\ d \in Directory /\ Consistent(d)
  /\ Achieved(Step, d)
  /\ \A c : Shape(c) /\ Achieved(c, dir) => Achieved(c, d)
  /\ dir.disabled \cap Range(Users) \subseteq d.disabled

LEMMA BeforeNext ==
  ASSUME IInv, NEW do, do # "marker", Doing(do)
  PROVE  /\ pc \in 1..Len(Script) /\ Step.do = do /\ Shape(Step)
         /\ pc + 1 \in 1..Len(Script) /\ dir \in Directory /\ Consistent(dir)
         /\ \A i \in 1..Len(Script) :
              i < pc => Achieved(Script[i], dir) \/ Undone(Script[i], operated)
         /\ ~marker
<1>1. pc \in 1..Len(Script) /\ Step.do = do /\ dir \in Directory /\ Consistent(dir) /\ ~marker
  BY DEF IInv, TypeOK, Doing, Phases
<1>2. Shape(Step) /\ pc + 1 \in 1..Len(Script)
  BY <1>1, ScriptElements DEF Step
<1>3. \A i \in 1..Len(Script) : i < pc => i \in 1..pc - 1
  BY <1>1
<1> QED BY <1>1, <1>2, <1>3 DEF IInv, DoneSoFar, Doing

\* A command that carries on leaves the invariant true, if the user in turn is accounted for.
LEMMA ContinueKeeps ==
  ASSUME IInv, NEW do, do # "marker", Doing(do), Continue(dir'), Carries(dir'),
         fresh' \in BOOLEAN, created \subseteq created', created' \subseteq Range(Users),
         InTurn' \subseteq created', operated' \subseteq operated,
         \A c : Shape(c) /\ Undone(c, operated) => Undone(c, operated') \/ Achieved(c, dir'),
         (created' \cap Disabled) \ (cut \cup Overruled') \subseteq dir'.disabled \cup InTurn'
  PROVE  IInv'
<1>1. /\ pc \in 1..Len(Script) /\ pc + 1 \in 1..Len(Script) /\ ~marker
      /\ \A i \in 1..Len(Script) : i < pc => Achieved(Script[i], dir) \/ Undone(Script[i], operated)
      /\ \A i \in 1..Len(Script) : i < pc => Script[i].do # "marker"
  BY BeforeNext, ScriptForm
<1>2. status' = status /\ domain' = domain /\ marker' = marker /\ disturbances' = disturbances /\ cut' = cut
      /\ pc' = pc + 1 /\ status = "script" /\ domain = "ready"
  BY DEF Continue, Doing
<1>3. TypeOK'
  BY <1>1, <1>2 DEF IInv, TypeOK, Carries
<1>4. Phases'
  BY <1>2 DEF IInv, Phases
<1>5. DoneSoFar'
  <2> SUFFICES ASSUME NEW i \in 1..pc
               PROVE  Achieved(Script[i], dir') \/ Undone(Script[i], operated')
    <3>1. pc' - 1 = pc
      BY <1>1, <1>2
    <3> QED BY <3>1 DEF DoneSoFar
  <2>1. CASE i = pc
    BY <2>1 DEF Carries, Step
  <2>2. CASE i # pc
    <3>1. i \in 1..Len(Script) /\ i < pc
      BY <1>1, <2>2
    <3>2. Shape(Script[i]) /\ (Achieved(Script[i], dir) \/ Undone(Script[i], operated))
      BY <1>1, <3>1, ScriptElements
    <3> QED BY <3>2 DEF Carries
  <2> QED BY <2>1, <2>2
<1>6. FormerSoFar'
  BY <1>2 DEF FormerSoFar
<1> QED BY <1>3, <1>4, <1>5, <1>6 DEF IInv

\* The user in turn before and after a command.
LEMMA TurnPasses ==
  ASSUME IInv, NEW do, do # "marker", Doing(do), Continue(dir')
  PROVE  InTurn' = IF fresh' /\ do \in Opens THEN {Step.name} ELSE {}
<1>1. pc \in 1..Len(Script) /\ pc + 1 \in 1..Len(Script) /\ Step.do = do
  BY BeforeNext
<1>2. status' = "script" /\ Step' = Script[pc + 1]
  BY DEF Continue, Doing, Step
<1>3. do \in Opens => Step'.do \in Within /\ Step'.name = Step.name
  BY <1>1, <1>2, ScriptForm DEF Wellformed, Turns, Step
<1>4. Step'.do \in Within => do \in Opens
  <2>1. (pc + 1) - 1 = pc
    BY <1>1
  <2> QED BY <1>1, <1>2, <2>1, ScriptForm DEF Wellformed, Turns, Step
<1> QED BY <1>2, <1>3, <1>4 DEF InTurn, Within

\* A command of no user: nobody is in turn, before or after.
LEMMA PlainKeeps ==
  ASSUME IInv, NEW do, do \notin {"user", "member", "disable", "marker"}, Doing(do), Continue(dir'),
         Carries(dir'), UNCHANGED <<fresh, created, operated>>
  PROVE  IInv'
<1>1. InTurn = {} /\ InTurn' = {}
  BY TurnPasses DEF InTurn, Doing, Opens
<1>2. (created \cap Disabled) \ (cut \cup Overruled) \subseteq dir.disabled /\ created \subseteq Range(Users)
  BY <1>1, BeforeNext DEF IInv, FormerSoFar, TypeOK
<1>3. (created \cap Disabled) \ (cut \cup Overruled) \subseteq dir'.disabled
  BY <1>2 DEF Carries
<1>4. fresh' \in BOOLEAN /\ created' = created /\ operated' = operated /\ Overruled' = Overruled
  BY DEF IInv, TypeOK, Overruled
<1> QED BY <1>1, <1>2, <1>3, <1>4, ContinueKeeps
-----------------------------------------------------------------------------
(* What each command carries *)

LEMMA RangesDiffer ==
  /\ Range(Users) \subseteq AllUsers /\ Range(DeprecatedUsers) \subseteq AllUsers
  /\ Range(Groups) \subseteq AllGroups /\ Range(DeprecatedGroups) \subseteq AllGroups
  /\ \A u \in Range(Users) : u \notin Range(DeprecatedUsers)
  /\ \A g \in Range(Groups) : g \notin Range(DeprecatedGroups)
  /\ \A u \in Range(Users) : Baseline[u] \subseteq Range(Groups)
  /\ \A c \in Range(Computers) : Place[c] \in Range(Ous) /\ Place[c] # "none"
BY BaselineAssumption DEF AllUsers, AllGroups

LEMMA OuCarries == ASSUME IInv, Doing("ou"), dir' = [dir EXCEPT !.ous = @ \cup {Step.name}]
                   PROVE  Carries(dir')
<1>1. Step.do = "ou" /\ Step.name \in Range(Ous) /\ dir \in Directory /\ Consistent(dir)
  BY BeforeNext DEF Shape
<1>2. /\ dir' \in Directory /\ dir'.ous = dir.ous \cup {Step.name} /\ dir'.groups = dir.groups
      /\ dir'.users = dir.users /\ dir'.member = dir.member /\ dir'.disabled = dir.disabled
      /\ dir'.place = dir.place /\ dir'.nested = dir.nested /\ dir'.settings = dir.settings
  BY <1>1 DEF Directory
<1> QED BY <1>1, <1>2 DEF Carries, Consistent, Achieved

LEMMA GroupCarries == ASSUME IInv, Doing("group"), dir' = [dir EXCEPT !.groups = @ \cup {Step.name}]
                      PROVE  Carries(dir')
<1>1. Step.do = "group" /\ Step.name \in Range(Groups) /\ dir \in Directory /\ Consistent(dir)
  BY BeforeNext DEF Shape
<1>2. /\ dir' \in Directory /\ dir'.ous = dir.ous /\ dir'.groups = dir.groups \cup {Step.name}
      /\ dir'.users = dir.users /\ dir'.member = dir.member /\ dir'.disabled = dir.disabled
      /\ dir'.place = dir.place /\ dir'.nested = dir.nested /\ dir'.settings = dir.settings
  BY <1>1, RangesDiffer DEF Directory
<1>3. Consistent(dir')
  BY <1>1, <1>2 DEF Consistent
<1>4. \A c : Shape(c) /\ Achieved(c, dir) => Achieved(c, dir')
  BY <1>1, <1>2, RangesDiffer DEF Achieved, Shape
<1> QED BY <1>1, <1>2, <1>3, <1>4 DEF Carries, Achieved

LEMMA UserCarries == ASSUME IInv, Doing("user"), dir' = [dir EXCEPT !.users = @ \cup {Step.name}]
                     PROVE  Carries(dir')
<1>1. Step.do = "user" /\ Step.name \in Range(Users) /\ dir \in Directory /\ Consistent(dir)
  BY BeforeNext DEF Shape
<1>2. /\ dir' \in Directory /\ dir'.ous = dir.ous /\ dir'.groups = dir.groups
      /\ dir'.users = dir.users \cup {Step.name} /\ dir'.member = dir.member /\ dir'.disabled = dir.disabled
      /\ dir'.place = dir.place /\ dir'.nested = dir.nested /\ dir'.settings = dir.settings
  BY <1>1, RangesDiffer DEF Directory
<1>3. Consistent(dir')
  BY <1>1, <1>2 DEF Consistent
<1>4. \A c : Shape(c) /\ Achieved(c, dir) => Achieved(c, dir')
  BY <1>1, <1>2, RangesDiffer DEF Achieved, Shape
<1> QED BY <1>1, <1>2, <1>3, <1>4 DEF Carries, Achieved

\* The group of a membership exists: its command came before.
LEMMA MemberExists ==
  ASSUME IInv, Doing("member")
  PROVE  Step.group \in dir.groups
<1>1. /\ pc \in 1..Len(Script) /\ Step.do = "member" /\ Step.name \in Range(Users) /\ Step.group \in Range(Groups)
      /\ \A i \in 1..Len(Script) : i < pc => Achieved(Script[i], dir) \/ Undone(Script[i], operated)
  BY BeforeNext DEF Shape
<1>2. PICK k \in 1..Len(Script) : k < pc /\ Script[k].do = "group" /\ Script[k].name = Step.group
  BY <1>1, ScriptForm DEF GroupsFirst, Step
<1> QED BY <1>1, <1>2 DEF Achieved, Undone

LEMMA MemberCarries ==
  ASSUME IInv, Doing("member"), Step.name \in dir.users \/ Step.group \notin Baseline[Step.name],
         dir' = [dir EXCEPT !.member[Step.name] =
                   IF Step.group \in Baseline[Step.name] THEN @ \cup {Step.group} ELSE @ \ {Step.group}]
  PROVE  Carries(dir')
<1> DEFINE u == Step.name
           g == Step.group
           new == IF g \in Baseline[u] THEN dir.member[u] \cup {g} ELSE dir.member[u] \ {g}
<1>1. /\ Step.do = "member" /\ u \in Range(Users) /\ g \in Range(Groups)
      /\ dir \in Directory /\ Consistent(dir)
  BY BeforeNext DEF Shape
<1>2. g \in dir.groups /\ (u \in dir.users \/ g \notin Baseline[u])
  BY MemberExists
<1>3. u \in AllUsers /\ dir.member \in [AllUsers -> SUBSET AllGroups] /\ g \in AllGroups
  BY <1>1, RangesDiffer DEF Directory
<1>4. /\ new \subseteq AllGroups /\ (g \in new <=> g \in Baseline[u])
      /\ new \subseteq IF u \in dir.users THEN dir.groups ELSE {}
  BY <1>1, <1>2, <1>3 DEF Consistent
<1>5. \A x : x # g => (x \in new <=> x \in dir.member[u])
  OBVIOUS
<1> HIDE DEF new
<1>6. /\ dir' \in Directory /\ dir'.ous = dir.ous /\ dir'.groups = dir.groups
      /\ dir'.users = dir.users /\ dir'.disabled = dir.disabled
      /\ dir'.place = dir.place /\ dir'.nested = dir.nested /\ dir'.settings = dir.settings
      /\ dir'.member = [dir.member EXCEPT ![u] = new]
  <2>1. dir' = [dir EXCEPT !.member = [dir.member EXCEPT ![u] = new]]
    BY DEF new
  <2>2. [dir.member EXCEPT ![u] = new] \in [AllUsers -> SUBSET AllGroups]
    BY <1>3, <1>4
  <2> QED BY <1>1, <2>1, <2>2 DEF Directory
<1>7. dir'.member[u] = new /\ \A v \in AllUsers : v # u => dir'.member[v] = dir.member[v]
  BY <1>3, <1>6
<1>8. Consistent(dir')
  BY <1>1, <1>2, <1>4, <1>6, <1>7 DEF Consistent
<1>9. ASSUME NEW c, Shape(c), Achieved(c, dir) PROVE Achieved(c, dir')
  <2>1. c.do = "member" => (c.group \in dir'.member[c.name] <=> c.group \in Baseline[c.name])
    <3> SUFFICES ASSUME c.do = "member"
                 PROVE  c.group \in dir'.member[c.name] <=> c.group \in Baseline[c.name]
      OBVIOUS
    <3>1. c.name \in AllUsers /\ (c.group \in dir.member[c.name] <=> c.group \in Baseline[c.name])
      BY <1>9, RangesDiffer DEF Achieved, Shape
    <3>2. CASE c.name # u
      BY <1>7, <3>1, <3>2
    <3>3. CASE c.name = u /\ c.group # g
      BY <1>5, <1>7, <3>1, <3>3
    <3>4. CASE c.name = u /\ c.group = g
      BY <1>4, <1>7, <3>4
    <3> QED BY <3>2, <3>3, <3>4
  <2> QED BY <1>6, <1>9, <2>1 DEF Achieved
<1>10. Achieved(Step, dir')
  BY <1>1, <1>4, <1>7 DEF Achieved
<1> QED BY <1>6, <1>8, <1>9, <1>10 DEF Carries

LEMMA DisableCarries ==
  ASSUME IInv, Doing("disable"), NEW also \in BOOLEAN,
         dir' = IF also THEN [dir EXCEPT !.disabled = @ \cup {Step.name}] ELSE dir,
         also => Step.name \in dir.users
  PROVE  Carries(dir')
<1>1. Step.do = "disable" /\ Step.name \in Range(Users) /\ dir \in Directory /\ Consistent(dir)
  BY BeforeNext DEF Shape
<1>2. CASE also
  <2>1. /\ dir' \in Directory /\ dir'.ous = dir.ous /\ dir'.groups = dir.groups
        /\ dir'.users = dir.users /\ dir'.member = dir.member /\ dir'.disabled = dir.disabled \cup {Step.name}
        /\ dir'.place = dir.place /\ dir'.nested = dir.nested /\ dir'.settings = dir.settings
    BY <1>1, <1>2, RangesDiffer DEF Directory
  <2>2. Consistent(dir')
    BY <1>1, <1>2, <2>1 DEF Consistent
  <2> QED BY <1>1, <2>1, <2>2 DEF Carries, Achieved
<1>3. CASE ~also
  BY <1>1, <1>3 DEF Carries, Achieved
<1> QED BY <1>2, <1>3

LEMMA DropUserCarries ==
  ASSUME IInv, Doing("drop_user"),
         dir' = [dir EXCEPT !.users = @ \ {Step.name}, !.disabled = @ \ {Step.name},
                            !.member[Step.name] = {}]
  PROVE  Carries(dir')
<1> DEFINE u == Step.name
           m == [dir.member EXCEPT ![u] = {}]
<1>1. Step.do = "drop_user" /\ u \in Range(DeprecatedUsers) /\ dir \in Directory /\ Consistent(dir)
  BY BeforeNext DEF Shape
<1>2. u \in AllUsers /\ dir.member \in [AllUsers -> SUBSET AllGroups] /\ u \notin Range(Users)
  BY <1>1, RangesDiffer DEF Directory
<1>3. /\ m \in [AllUsers -> SUBSET AllGroups] /\ m[u] = {}
      /\ \A v \in AllUsers : v # u => m[v] = dir.member[v]
  BY <1>2
<1>4. dir' = [dir EXCEPT !.users = dir.users \ {u}, !.disabled = dir.disabled \ {u},
                         !.member = m]
  OBVIOUS
<1> HIDE DEF m
<1>5. /\ dir' \in Directory /\ dir'.ous = dir.ous /\ dir'.groups = dir.groups
      /\ dir'.users = dir.users \ {u} /\ dir'.disabled = dir.disabled \ {u}
      /\ dir'.place = dir.place /\ dir'.nested = dir.nested /\ dir'.settings = dir.settings
      /\ dir'.member = m
  <2> DEFINE fewer == dir.users \ {u}
             off   == dir.disabled \ {u}
  <2>1. dir' = [dir EXCEPT !.users = fewer, !.disabled = off, !.member = m]
    BY <1>4
  <2>2. fewer \in SUBSET AllUsers /\ off \in SUBSET AllUsers
    BY <1>1 DEF Directory
  <2> HIDE DEF fewer, off
  <2>3. dir' \in Directory
    BY <1>1, <1>3, <2>1, <2>2 DEF Directory
  <2>4. /\ dir'.ous = dir.ous /\ dir'.groups = dir.groups
        /\ dir'.users = fewer /\ dir'.disabled = off
        /\ dir'.place = dir.place /\ dir'.nested = dir.nested /\ dir'.settings = dir.settings
        /\ dir'.member = m
    BY <1>1, <2>1 DEF Directory
  <2> QED BY <2>3, <2>4 DEF fewer, off
<1>6. dir'.member[u] = {} /\ \A v \in AllUsers : v # u => dir'.member[v] = dir.member[v]
  BY <1>3, <1>5
<1>7. Consistent(dir')
  BY <1>1, <1>5, <1>6 DEF Consistent
<1>8. ASSUME NEW c, Shape(c), Achieved(c, dir) PROVE Achieved(c, dir')
  <2>1. c.do \in {"user", "member"} => c.name \in AllUsers /\ c.name # u
    BY <1>2, <1>8, RangesDiffer DEF Shape
  <2>2. c.do = "member" => (c.group \in dir'.member[c.name] <=> c.group \in Baseline[c.name])
    BY <1>6, <1>8, <2>1 DEF Achieved
  <2> QED BY <1>5, <1>8, <2>1, <2>2 DEF Achieved
<1>9. Achieved(Step, dir')
  BY <1>1, <1>5 DEF Achieved
<1> QED BY <1>2, <1>5, <1>7, <1>8, <1>9 DEF Carries

LEMMA DropGroupCarries ==
  ASSUME IInv, Doing("drop_group"),
         dir' = [dir EXCEPT !.groups = @ \ {Step.name},
                            !.member = [u \in AllUsers |-> @[u] \ {Step.name}]]
  PROVE  Carries(dir')
<1> DEFINE g == Step.name
           m == [u \in AllUsers |-> dir.member[u] \ {g}]
<1>1. Step.do = "drop_group" /\ g \in Range(DeprecatedGroups) /\ dir \in Directory /\ Consistent(dir)
  BY BeforeNext DEF Shape
<1>2. dir.member \in [AllUsers -> SUBSET AllGroups] /\ g \notin Range(Groups)
  BY <1>1, RangesDiffer DEF Directory
<1>3. m \in [AllUsers -> SUBSET AllGroups] /\ \A u \in AllUsers : m[u] = dir.member[u] \ {g}
  BY <1>2
<1>4. dir' = [dir EXCEPT !.groups = dir.groups \ {g}, !.member = m]
  OBVIOUS
<1> HIDE DEF m
<1>5. /\ dir' \in Directory /\ dir'.ous = dir.ous /\ dir'.groups = dir.groups \ {g}
      /\ dir'.users = dir.users /\ dir'.disabled = dir.disabled
      /\ dir'.place = dir.place /\ dir'.nested = dir.nested /\ dir'.settings = dir.settings
      /\ dir'.member = m
  BY <1>1, <1>3, <1>4 DEF Directory
<1>6. Consistent(dir')
  BY <1>1, <1>3, <1>5 DEF Consistent
<1>7. ASSUME NEW c, Shape(c), Achieved(c, dir) PROVE Achieved(c, dir')
  <2>1. /\ c.do = "member" => c.name \in AllUsers /\ c.group # g
        /\ c.do = "group" => c.name # g
    BY <1>1, <1>2, <1>7, RangesDiffer DEF Shape
  <2>2. c.do = "member" => (c.group \in dir'.member[c.name] <=> c.group \in Baseline[c.name])
    BY <1>3, <1>5, <1>7, <2>1 DEF Achieved
  <2> QED BY <1>5, <1>7, <2>1, <2>2 DEF Achieved
<1>8. Achieved(Step, dir')
  BY <1>1, <1>5 DEF Achieved
<1> QED BY <1>5, <1>6, <1>7, <1>8 DEF Carries

LEMMA ComputerCarries ==
  ASSUME IInv, Doing("computer"),
         dir' = [dir EXCEPT !.place[Step.name] =
                   IF @ = "none" \/ Step.name \in Laptops THEN Place[Step.name] ELSE @]
  PROVE  Carries(dir')
<1> DEFINE n == Step.name
           at == IF dir.place[n] = "none" \/ n \in Laptops THEN Place[n] ELSE dir.place[n]
<1>1. Step.do = "computer" /\ n \in Range(Computers) /\ dir \in Directory /\ Consistent(dir)
  BY BeforeNext DEF Shape
<1>2. dir.place \in [Range(Computers) -> Range(Ous) \cup {"none"}]
  BY <1>1 DEF Directory
<1>3. at \in Range(Ous) \cup {"none"} /\ at # "none" /\ (n \in Laptops => at = Place[n])
  BY <1>1, <1>2, RangesDiffer
<1>4. dir' = [dir EXCEPT !.place = [dir.place EXCEPT ![n] = at]]
  OBVIOUS
<1> HIDE DEF at
<1>5. [dir.place EXCEPT ![n] = at] \in [Range(Computers) -> Range(Ous) \cup {"none"}]
  BY <1>2, <1>3
<1>6. /\ dir' \in Directory /\ dir'.ous = dir.ous /\ dir'.groups = dir.groups
      /\ dir'.users = dir.users /\ dir'.disabled = dir.disabled /\ dir'.member = dir.member
      /\ dir'.nested = dir.nested /\ dir'.settings = dir.settings
      /\ dir'.place = [dir.place EXCEPT ![n] = at]
  BY <1>1, <1>4, <1>5 DEF Directory
<1>7. dir'.place[n] = at /\ \A c \in Range(Computers) : c # n => dir'.place[c] = dir.place[c]
  BY <1>1, <1>2, <1>6
<1>8. Consistent(dir')
  BY <1>1, <1>6 DEF Consistent
<1>9. ASSUME NEW c, Shape(c), Achieved(c, dir) PROVE Achieved(c, dir')
  <2>1. c.do = "computer" => c.name \in Range(Computers)
    BY <1>9 DEF Shape
  <2>2. c.do = "computer" => /\ dir'.place[c.name] # "none"
                             /\ c.name \in Laptops => dir'.place[c.name] = Place[c.name]
    BY <1>3, <1>7, <1>9, <2>1 DEF Achieved
  <2> QED BY <1>6, <1>9, <2>2 DEF Achieved
<1>10. Achieved(Step, dir')
  BY <1>1, <1>3, <1>7 DEF Achieved
<1> QED BY <1>6, <1>8, <1>9, <1>10 DEF Carries

LEMMA OnceCarries ==
  ASSUME IInv, NEW yes, yes = TRUE,
         \/ Doing("nest") /\ dir' = [dir EXCEPT !.nested = yes]
         \/ Doing("settings") /\ dir' = [dir EXCEPT !.settings = yes]
  PROVE  Carries(dir')
<1>1. CASE Doing("nest") /\ dir' = [dir EXCEPT !.nested = yes]
  <2>1. Step.do = "nest" /\ dir \in Directory /\ Consistent(dir)
    BY <1>1, BeforeNext
  <2>2. /\ dir' \in Directory /\ dir'.ous = dir.ous /\ dir'.groups = dir.groups
        /\ dir'.users = dir.users /\ dir'.disabled = dir.disabled /\ dir'.member = dir.member
        /\ dir'.nested = TRUE /\ dir'.settings = dir.settings /\ dir'.place = dir.place
    BY <1>1, <2>1 DEF Directory
  <2> QED BY <2>1, <2>2 DEF Carries, Consistent, Achieved
<1>2. CASE Doing("settings") /\ dir' = [dir EXCEPT !.settings = yes]
  <2>1. Step.do = "settings" /\ dir \in Directory /\ Consistent(dir)
    BY <1>2, BeforeNext
  <2>2. /\ dir' \in Directory /\ dir'.ous = dir.ous /\ dir'.groups = dir.groups
        /\ dir'.users = dir.users /\ dir'.disabled = dir.disabled /\ dir'.member = dir.member
        /\ dir'.nested = dir.nested /\ dir'.settings = TRUE /\ dir'.place = dir.place
    BY <1>2, <2>1 DEF Directory
  <2> QED BY <2>1, <2>2 DEF Carries, Consistent, Achieved
<1> QED BY <1>1, <1>2
-----------------------------------------------------------------------------
(* Every action keeps the invariant *)

LEMMA MakesUserKeeps == ASSUME IInv, MakesUser PROVE IInv'
<1>1. /\ Doing("user") /\ Continue(dir') /\ dir' = [dir EXCEPT !.users = @ \cup {Step.name}]
      /\ fresh' = (Step.name \notin dir.users)
      /\ created' = IF Step.name \in dir.users THEN created ELSE created \cup {Step.name}
      /\ operated' = operated \ {<<Step.name, "user">>}
  BY DEF MakesUser, Continue
<1>2. Carries(dir')
  BY <1>1, UserCarries
<1>3. Step.name \in Range(Users) /\ Step.do = "user" /\ ~marker
  BY <1>1, BeforeNext DEF Shape
<1>4. InTurn' = IF fresh' THEN {Step.name} ELSE {}
  BY <1>1, TurnPasses DEF Opens
<1>5. InTurn = {}
  BY <1>3 DEF InTurn
<1>6. (created \cap Disabled) \ (cut \cup Overruled) \subseteq dir.disabled /\ created \subseteq Range(Users)
  BY <1>3, <1>5 DEF IInv, FormerSoFar, TypeOK
<1>7. dir.disabled \cap Range(Users) \subseteq dir'.disabled
  BY <1>2 DEF Carries
<1>8. /\ created \subseteq created' /\ created' \subseteq Range(Users) /\ InTurn' \subseteq created'
      /\ fresh' \in BOOLEAN
  BY <1>1, <1>3, <1>4, <1>6
<1>10. Overruled' = Overruled
  <2>1. \A u : <<u, "account">> \in operated' <=> <<u, "account">> \in operated
    BY <1>1
  <2> QED BY <2>1 DEF Overruled
<1>9. (created' \cap Disabled) \ (cut \cup Overruled') \subseteq dir'.disabled \cup InTurn'
  BY <1>1, <1>4, <1>6, <1>7, <1>10
<1>11. ASSUME NEW c, Shape(c), Undone(c, operated) PROVE Undone(c, operated') \/ Achieved(c, dir')
  <2>1. CASE c.do = "member"
    <3>1. c.group # "user"
      BY <1>11, <2>1, BaselineAssumption DEF Shape
    <3> QED BY <1>1, <1>11, <2>1, <3>1 DEF Undone
  <2>2. CASE c.do = "user" /\ c.name = Step.name
    <3>1. Achieved(Step, dir')
      BY <1>2 DEF Carries
    <3> QED BY <1>3, <2>2, <3>1 DEF Achieved
  <2>3. CASE c.do = "user" /\ c.name # Step.name
    BY <1>1, <1>11, <2>3 DEF Undone
  <2> QED BY <1>11, <2>1, <2>2, <2>3 DEF Undone
<1>12. operated' \subseteq operated
  BY <1>1
<1> QED BY <1>1, <1>2, <1>8, <1>9, <1>11, <1>12, ContinueKeeps

\* A command that fails ends the boot.
LEMMA FailsKeeps == ASSUME IInv, Fails PROVE IInv'
<1>1. InTurn' = {} /\ InTurn \subseteq created
  BY DEF Fails, InTurn, IInv, FormerSoFar
<1>2. TypeOK'
  BY <1>1 DEF IInv, TypeOK, Fails
<1>3. Phases' /\ DoneSoFar'
  BY DEF IInv, Phases, DoneSoFar, Fails
<1>4. FormerSoFar'
  BY <1>1 DEF IInv, FormerSoFar, Overruled, Fails
<1> QED BY <1>2, <1>3, <1>4 DEF IInv

LEMMA SetsMemberKeeps == ASSUME IInv, SetsMember, ~Fails PROVE IInv'
<1>1. /\ Doing("member") /\ Continue(dir') /\ fresh' = fresh /\ created' = created
      /\ operated' = operated \ {<<Step.name, Step.group>>}
      /\ dir' = [dir EXCEPT !.member[Step.name] =
                   IF Step.group \in Baseline[Step.name] THEN @ \cup {Step.group} ELSE @ \ {Step.group}]
      /\ Step.name \in dir.users \/ Step.group \notin Baseline[Step.name]
  BY DEF SetsMember, Continue
<1>2. Carries(dir')
  BY <1>1, MemberCarries
<1>3. Step.do = "member" /\ Step.group \in Range(Groups) /\ ~marker
  BY <1>1, BeforeNext DEF Shape
<1>4. InTurn' = InTurn
  <2>1. InTurn' = IF fresh' THEN {Step.name} ELSE {}
    BY <1>1, TurnPasses DEF Opens
  <2> QED BY <1>1, <1>3, <2>1 DEF InTurn, Doing
<1>5. /\ (created \cap Disabled) \ (cut \cup Overruled) \subseteq dir.disabled \cup InTurn
      /\ created \subseteq Range(Users) /\ InTurn \subseteq created /\ fresh \in BOOLEAN
  BY <1>3 DEF IInv, FormerSoFar, TypeOK
<1>6. dir.disabled \cap Range(Users) \subseteq dir'.disabled
  BY <1>2 DEF Carries
<1>7. Overruled' = Overruled
  <2>1. Step.group # "account"
    BY <1>3, BaselineAssumption
  <2>2. \A u : <<u, "account">> \in operated' <=> <<u, "account">> \in operated
    BY <1>1, <2>1
  <2> QED BY <2>2 DEF Overruled
<1>8. ASSUME NEW c, Undone(c, operated) PROVE Undone(c, operated') \/ Achieved(c, dir')
  <2>1. CASE c.do = "member" /\ c.name = Step.name /\ c.group = Step.group
    <3>1. Achieved(Step, dir')
      BY <1>2 DEF Carries
    <3> QED BY <1>3, <2>1, <3>1 DEF Achieved
  <2>2. CASE c.do = "member" /\ ~(c.name = Step.name /\ c.group = Step.group)
    <3>1. <<c.name, c.group>> # <<Step.name, Step.group>>
      BY <2>2
    <3> QED BY <1>1, <1>8, <2>2, <3>1 DEF Undone
  <2>3. CASE c.do = "user"
    <3>1. <<c.name, "user">> # <<Step.name, Step.group>>
      BY <1>3, BaselineAssumption
    <3> QED BY <1>1, <1>8, <2>3, <3>1 DEF Undone
  <2> QED BY <1>8, <2>1, <2>2, <2>3 DEF Undone
<1>9. (created' \cap Disabled) \ (cut \cup Overruled') \subseteq dir'.disabled \cup InTurn'
  BY <1>1, <1>4, <1>5, <1>6, <1>7
<1>10. operated' \subseteq operated /\ created \subseteq created' /\ created' \subseteq Range(Users)
       /\ InTurn' \subseteq created' /\ fresh' \in BOOLEAN
  BY <1>1, <1>4, <1>5
<1> QED BY <1>1, <1>2, <1>8, <1>9, <1>10, ContinueKeeps

LEMMA DisablesKeeps == ASSUME IInv, Disables, ~Fails PROVE IInv'
<1> DEFINE also == fresh /\ Step.name \in Disabled
<1>1. /\ Doing("disable") /\ Continue(dir') /\ fresh' = fresh /\ created' = created
      /\ dir' = IF also THEN [dir EXCEPT !.disabled = @ \cup {Step.name}] ELSE dir
      /\ operated' = IF also THEN operated \ {<<Step.name, "account">>} ELSE operated
      /\ also => Step.name \in dir.users
  BY DEF Disables, Continue
<1>2. Step.do = "disable" /\ ~marker /\ pc \in 1..Len(Script) /\ Step.name \in Range(Users)
      /\ dir \in Directory
  BY <1>1, BeforeNext DEF Shape
<1>3. InTurn' = {}
  BY <1>1, TurnPasses DEF Opens
<1>4. InTurn = IF fresh THEN {Step.name} ELSE {}
  BY <1>1, <1>2 DEF InTurn, Doing
<1>5. /\ (created \cap Disabled) \ (cut \cup Overruled) \subseteq dir.disabled \cup InTurn
      /\ created \subseteq Range(Users) /\ InTurn \subseteq created /\ fresh \in BOOLEAN
  BY <1>2 DEF IInv, FormerSoFar, TypeOK
<1>7. also \in BOOLEAN
  BY <1>5
<1> HIDE DEF also
<1>8. Carries(dir')
  BY <1>1, <1>7, DisableCarries
<1>9. dir.disabled \cap Range(Users) \subseteq dir'.disabled
  BY <1>8 DEF Carries
<1>10. also => Step.name \in dir'.disabled
  <2>1. ASSUME also PROVE Step.name \in dir'.disabled
    <3>1. dir' = [dir EXCEPT !.disabled = @ \cup {Step.name}]
      BY <1>1, <2>1
    <3> QED BY <1>2, <3>1 DEF Directory
  <2> QED BY <2>1
<1>11. Overruled \subseteq Overruled' \cup (IF also THEN {Step.name} ELSE {})
  BY <1>1 DEF Overruled, also
<1>12. (created' \cap Disabled) \ (cut \cup Overruled') \subseteq dir'.disabled \cup InTurn'
  <2> SUFFICES ASSUME NEW u \in created \cap Disabled, u \notin cut, u \notin Overruled'
               PROVE  u \in dir'.disabled
    BY <1>1
  <2>1. CASE u = Step.name /\ fresh
    BY <1>10, <2>1 DEF also
  <2>2. CASE ~(u = Step.name /\ fresh)
    <3>1. u \notin InTurn /\ u \notin Overruled
      BY <1>4, <1>11, <2>2 DEF also
    <3> QED BY <1>5, <1>9, <3>1
  <2> QED BY <2>1, <2>2
<1>13. \A c : Shape(c) /\ Undone(c, operated) => Undone(c, operated')
  <2> SUFFICES ASSUME NEW c, Shape(c), Undone(c, operated) PROVE Undone(c, operated')
    OBVIOUS
  <2>1. c.do = "member" => c.group # "account"
    BY BaselineAssumption DEF Shape
  <2>2. /\ c.do = "member" => <<c.name, c.group>> # <<Step.name, "account">>
        /\ <<c.name, "user">> # <<Step.name, "account">>
    BY <2>1
  <2> QED BY <1>1, <2>2 DEF Undone
<1>14. operated' \subseteq operated
  BY <1>1
<1> QED BY <1>1, <1>3, <1>5, <1>8, <1>12, <1>13, <1>14, ContinueKeeps

LEMMA ProvisioningKeeps == ASSUME IInv, Provisioning PROVE IInv'
<1>0. CASE Fails
  BY <1>0, FailsKeeps
<1>1. CASE MakesOu
  <2>1. Doing("ou") /\ Continue(dir') /\ dir' = [dir EXCEPT !.ous = @ \cup {Step.name}]
    BY <1>1 DEF MakesOu, Continue
  <2> QED BY <1>1, <2>1, OuCarries, PlainKeeps DEF MakesOu
<1>2. CASE MakesGroup
  <2>1. Doing("group") /\ Continue(dir') /\ dir' = [dir EXCEPT !.groups = @ \cup {Step.name}]
    BY <1>2 DEF MakesGroup, Continue
  <2> QED BY <1>2, <2>1, GroupCarries, PlainKeeps DEF MakesGroup
<1>3. CASE DropsUser
  <2>1. Doing("drop_user") /\ Continue(dir')
        /\ dir' = [dir EXCEPT !.users = @ \ {Step.name}, !.disabled = @ \ {Step.name}, !.member[Step.name] = {}]
    BY <1>3 DEF DropsUser, Continue
  <2> QED BY <1>3, <2>1, DropUserCarries, PlainKeeps DEF DropsUser
<1>4. CASE DropsGroup
  <2>1. Doing("drop_group") /\ Continue(dir')
        /\ dir' = [dir EXCEPT !.groups = @ \ {Step.name}, !.member = [u \in AllUsers |-> @[u] \ {Step.name}]]
    BY <1>4 DEF DropsGroup, Continue
  <2> QED BY <1>4, <2>1, DropGroupCarries, PlainKeeps DEF DropsGroup
<1>5. CASE PlacesComputer
  <2>1. Doing("computer") /\ Continue(dir')
        /\ dir' = [dir EXCEPT !.place[Step.name] =
                     IF @ = "none" \/ Step.name \in Laptops THEN Place[Step.name] ELSE @]
    BY <1>5 DEF PlacesComputer, Continue
  <2> QED BY <1>5, <2>1, ComputerCarries, PlainKeeps DEF PlacesComputer
<1>6. CASE NestsAdmins
  <2>1. Doing("nest") /\ Continue(dir') /\ dir' = [dir EXCEPT !.nested = TRUE]
    BY <1>6 DEF NestsAdmins, Continue
  <2>2. Carries(dir')
    BY <2>1, OnceCarries
  <2> QED BY <1>6, <2>1, <2>2, PlainKeeps DEF NestsAdmins
<1>7. CASE Settles /\ ~Fails
  <2>1. /\ Doing("settings") /\ Continue(dir') /\ dir' = [dir EXCEPT !.settings = TRUE]
        /\ UNCHANGED <<fresh, created, operated>>
    BY <1>7 DEF Settles, Continue
  <2>2. Carries(dir')
    BY <2>1, OnceCarries
  <2> QED BY <2>1, <2>2, PlainKeeps
<1>8. CASE Marks
  <2>1. /\ marker' = TRUE /\ status' = "serving" /\ Step.do = "marker" /\ domain = "ready"
        /\ UNCHANGED <<domain, dir, pc, fresh, disturbances, created, cut, operated>>
    BY <1>8 DEF Marks, Doing
  <2>2. InTurn' = {}
    BY <2>1 DEF InTurn
  <2> QED BY <2>1, <2>2 DEF IInv, TypeOK, Phases, DoneSoFar, FormerSoFar, Overruled
<1> QED BY <1>0, <1>1, <1>2, <1>3, <1>4, <1>5, <1>6, <1>7, <1>8, MakesUserKeeps, SetsMemberKeeps, DisablesKeeps
     DEF Provisioning

LEMMA OthersKeep == ASSUME IInv, Boot \/ DomainCreated \/ NoDirectory \/ Crash PROVE IInv'
<1>0. 1 \in 1..Len(Script)
  BY ScriptElements
<1>1. CASE Boot
  <2>1. InTurn = {} /\ InTurn' = {}
    BY <1>1 DEF Boot, InTurn
  <2>2. TypeOK'
    BY <1>0, <1>1 DEF IInv, TypeOK, Phases, Boot
  <2>3. Phases'
    BY <1>1 DEF IInv, TypeOK, Phases, Boot
  <2>4. DoneSoFar' /\ FormerSoFar'
    BY <1>1, <2>1 DEF IInv, DoneSoFar, FormerSoFar, Overruled, Boot
  <2> QED BY <2>2, <2>3, <2>4 DEF IInv
<1>2. CASE DomainCreated
  <2>1. domain = "partial" /\ ~marker /\ created = {} /\ fresh = FALSE
    BY <1>2 DEF DomainCreated, IInv, Phases
  <2>2. InTurn' = {} /\ InTurn = {}
    BY <1>2, <2>1 DEF DomainCreated, InTurn
  <2>3. TypeOK'
    BY <1>2 DEF IInv, TypeOK, DomainCreated
  <2>4. Phases' /\ FormerSoFar'
    BY <1>2, <2>1, <2>2 DEF Phases, FormerSoFar, Overruled, DomainCreated
  <2>5. pc' = 1
    BY <1>2 DEF IInv, Phases, DomainCreated
  <2>6. DoneSoFar'
    BY <2>5 DEF DoneSoFar
  <2> QED BY <2>3, <2>4, <2>6 DEF IInv
<1>3. CASE NoDirectory
  <2>1. domain = "partial" /\ ~marker /\ created = {} /\ fresh = FALSE /\ status' = "down"
    BY <1>3 DEF NoDirectory, IInv, Phases
  <2>2. InTurn' = {} /\ InTurn = {}
    BY <1>3, <2>1 DEF NoDirectory, InTurn
  <2>3. TypeOK'
    BY <1>3 DEF IInv, TypeOK, NoDirectory
  <2>4. Phases' /\ FormerSoFar' /\ DoneSoFar'
    BY <1>3, <2>1, <2>2 DEF Phases, FormerSoFar, Overruled, DoneSoFar, NoDirectory
  <2> QED BY <1>3, <2>3, <2>4 DEF IInv, NoDirectory
<1>4. CASE Crash
  <2>1. InTurn' = {} /\ InTurn \subseteq created
    BY <1>4 DEF Crash, InTurn, IInv, FormerSoFar
  <2>2. disturbances' \in 0..MaxDisturbances
    BY <1>4, BaselineAssumption DEF IInv, TypeOK, Crash
  <2>3. TypeOK'
    BY <1>4, <2>1, <2>2 DEF IInv, TypeOK, Crash
  <2>4. Phases' /\ DoneSoFar'
    BY <1>4 DEF IInv, Phases, DoneSoFar, Crash
  <2>5. FormerSoFar'
    BY <1>4, <2>1 DEF IInv, FormerSoFar, Overruled, Crash
  <2> QED BY <1>4, <2>3, <2>4, <2>5 DEF IInv, Crash
<1> QED BY <1>1, <1>2, <1>3, <1>4

\* Between the directory and d lies what an operator changed of users.
Touches(d, changed) ==
  /\ d \in Directory /\ Consistent(d)
  /\ d.ous = dir.ous /\ d.groups = dir.groups
  /\ d.place = dir.place /\ d.nested = dir.nested /\ d.settings = dir.settings
  /\ \A v \in Range(DeprecatedUsers) : v \in d.users <=> v \in dir.users
  /\ \A v \in Range(Users) : <<v, "user">> \notin changed => (v \in d.users <=> v \in dir.users)
  /\ \A v \in Range(Users), g \in Range(Groups) :
       <<v, g>> \notin changed => (g \in d.member[v] <=> g \in dir.member[v])
  /\ \A v : <<v, "account">> \notin changed => (v \in d.disabled <=> v \in dir.disabled)

Changeable == Range(Users) \X (Range(Groups) \cup {"user", "account"})

Changed(us, off, m) == [dir EXCEPT !.users = us, !.disabled = off, !.member = m]

LEMMA ChangedForm ==
  ASSUME NEW us \in SUBSET AllUsers, NEW off \in SUBSET AllUsers, NEW m \in [AllUsers -> SUBSET AllGroups],
         NEW d, d = Changed(us, off, m), dir \in Directory
  PROVE  /\ d \in Directory /\ d.ous = dir.ous /\ d.groups = dir.groups
         /\ d.place = dir.place /\ d.nested = dir.nested /\ d.settings = dir.settings
         /\ d.users = us /\ d.disabled = off /\ d.member = m
BY DEF Directory, Changed

\* So does everything an operator may do.
LEMMA OperateTouches ==
  ASSUME IInv, Operate
  PROVE  \E changed \in SUBSET Changeable : \E d : Operates(d, changed) /\ Touches(d, changed)
<1>1. /\ dir \in Directory /\ Consistent(dir)
      /\ dir.member \in [AllUsers -> SUBSET AllGroups] /\ dir.groups \subseteq AllGroups
      /\ dir.users \subseteq AllUsers /\ dir.disabled \subseteq AllUsers
      /\ Range(Users) \subseteq AllUsers /\ \A v \in Range(DeprecatedUsers) : v \notin Range(Users) /\ v \in AllUsers
      /\ "user" \notin Range(Groups) /\ "account" \notin Range(Groups)
  BY RangesDiffer, BaselineAssumption DEF IInv, TypeOK, Directory
<1>3. ASSUME NEW u \in Managed, NEW g \in dir.groups \cap Range(Groups),
             Operates([dir EXCEPT !.member[u] = IF g \in @ THEN @ \ {g} ELSE @ \cup {g}], {<<u, g>>})
      PROVE  \E changed \in SUBSET Changeable : \E d : Operates(d, changed) /\ Touches(d, changed)
  <2> DEFINE new == IF g \in dir.member[u] THEN dir.member[u] \ {g} ELSE dir.member[u] \cup {g}
             m == [dir.member EXCEPT ![u] = new]
             d == Changed(dir.users, dir.disabled, m)
  <2>1. u \in AllUsers /\ u \in dir.users /\ u \in Range(Users)
    BY <1>1 DEF Managed
  <2>2. Operates(d, {<<u, g>>})
    <3>1. d = [dir EXCEPT !.member[u] = IF g \in @ THEN @ \ {g} ELSE @ \cup {g}]
      BY <1>1 DEF Directory, Changed
    <3> QED BY <1>3, <3>1
  <2>3. new \subseteq dir.groups /\ \A x : x # g => (x \in new <=> x \in dir.member[u])
    BY <1>1, <2>1 DEF Consistent
  <2> HIDE DEF new
  <2>4. m \in [AllUsers -> SUBSET AllGroups] /\ m[u] = new /\ \A v \in AllUsers : v # u => m[v] = dir.member[v]
    BY <1>1, <2>1, <2>3
  <2> HIDE DEF m
  <2>5. /\ d \in Directory /\ d.ous = dir.ous /\ d.groups = dir.groups
        /\ d.place = dir.place /\ d.nested = dir.nested /\ d.settings = dir.settings
        /\ d.users = dir.users /\ d.disabled = dir.disabled /\ d.member = m
    <3>1. dir.users \in SUBSET AllUsers /\ dir.disabled \in SUBSET AllUsers
      BY <1>1
    <3> QED BY <1>1, <2>4, <3>1, ChangedForm
  <2> HIDE DEF d
  <2>6. Consistent(d)
    BY <1>1, <2>1, <2>3, <2>4, <2>5 DEF Consistent
  <2>7. ASSUME NEW v \in Range(Users), NEW x \in Range(Groups), <<v, x>> \notin {<<u, g>>}
        PROVE  x \in d.member[v] <=> x \in dir.member[v]
    <3>1. v # u \/ x # g
      BY <2>7
    <3> QED BY <1>1, <2>3, <2>4, <2>5, <3>1
  <2>8. Touches(d, {<<u, g>>})
    BY <2>5, <2>6, <2>7 DEF Touches
  <2>9. {<<u, g>>} \in SUBSET Changeable
    BY <2>1 DEF Changeable
  <2> QED BY <2>2, <2>8, <2>9
<1>4. ASSUME NEW u \in Managed,
             Operates([dir EXCEPT !.disabled = IF u \in @ THEN @ \ {u} ELSE @ \cup {u}], {<<u, "account">>})
      PROVE  \E changed \in SUBSET Changeable : \E d : Operates(d, changed) /\ Touches(d, changed)
  <2> DEFINE off == IF u \in dir.disabled THEN dir.disabled \ {u} ELSE dir.disabled \cup {u}
             d == Changed(dir.users, off, dir.member)
  <2>1. u \in AllUsers /\ u \in dir.users /\ u \in Range(Users)
    BY <1>1 DEF Managed
  <2>2. Operates(d, {<<u, "account">>})
    <3>1. d = [dir EXCEPT !.disabled = IF u \in @ THEN @ \ {u} ELSE @ \cup {u}]
      BY <1>1 DEF Directory, Changed
    <3> QED BY <1>4, <3>1
  <2>3. off \in SUBSET AllUsers /\ off \subseteq dir.users /\ \A v : v # u => (v \in off <=> v \in dir.disabled)
    BY <1>1, <2>1 DEF Consistent
  <2> HIDE DEF off
  <2>5. /\ d \in Directory /\ d.ous = dir.ous /\ d.groups = dir.groups
        /\ d.place = dir.place /\ d.nested = dir.nested /\ d.settings = dir.settings
        /\ d.users = dir.users /\ d.disabled = off /\ d.member = dir.member
    <3>1. dir.users \in SUBSET AllUsers
      BY <1>1
    <3> QED BY <1>1, <2>3, <3>1, ChangedForm
  <2> HIDE DEF d
  <2>6. Consistent(d)
    BY <1>1, <2>3, <2>5 DEF Consistent
  <2>7. ASSUME NEW v, <<v, "account">> \notin {<<u, "account">>} PROVE v \in d.disabled <=> v \in dir.disabled
    <3>1. v # u
      BY <2>7
    <3> QED BY <2>3, <2>5, <3>1
  <2>8. Touches(d, {<<u, "account">>})
    BY <2>5, <2>6, <2>7 DEF Touches
  <2>9. {<<u, "account">>} \in SUBSET Changeable
    BY <2>1 DEF Changeable
  <2> QED BY <2>2, <2>8, <2>9
<1>5. ASSUME NEW u \in Managed \cap dir.disabled,
             Operates([dir EXCEPT !.users = @ \ {u}, !.disabled = @ \ {u}, !.member[u] = {}], AllOf(u))
      PROVE  \E changed \in SUBSET Changeable : \E d : Operates(d, changed) /\ Touches(d, changed)
  <2> DEFINE us == dir.users \ {u}
             off == dir.disabled \ {u}
             m == [dir.member EXCEPT ![u] = {}]
             d == Changed(us, off, m)
  <2>1. u \in AllUsers /\ u \in Range(Users)
    BY <1>1 DEF Managed
  <2>2. Operates(d, AllOf(u))
    BY <1>5 DEF Changed
  <2>3. /\ us \in SUBSET AllUsers /\ off \in SUBSET AllUsers /\ off \subseteq us
        /\ \A v : v # u => (v \in us <=> v \in dir.users) /\ (v \in off <=> v \in dir.disabled)
        /\ u \notin us
    BY <1>1 DEF Consistent
  <2>4. m \in [AllUsers -> SUBSET AllGroups] /\ m[u] = {} /\ \A v \in AllUsers : v # u => m[v] = dir.member[v]
    BY <1>1, <2>1
  <2> HIDE DEF us, off, m
  <2>5. /\ d \in Directory /\ d.ous = dir.ous /\ d.groups = dir.groups
        /\ d.place = dir.place /\ d.nested = dir.nested /\ d.settings = dir.settings
        /\ d.users = us /\ d.disabled = off /\ d.member = m
    BY <1>1, <2>3, <2>4, ChangedForm
  <2> HIDE DEF d
  <2>6. Consistent(d)
    BY <1>1, <2>3, <2>4, <2>5 DEF Consistent
  <2>7. \A v, x : x \in Range(Groups) \cup {"user", "account"} /\ <<v, x>> \notin AllOf(u) => v # u
    BY DEF AllOf
  <2>8. Touches(d, AllOf(u))
    BY <1>1, <2>1, <2>3, <2>4, <2>5, <2>6, <2>7 DEF Touches
  <2>9. AllOf(u) \in SUBSET Changeable
    BY <2>1 DEF Changeable, AllOf
  <2> QED BY <2>2, <2>8, <2>9
<1>6. ASSUME NEW u \in Range(Users) \ dir.users, Operates([dir EXCEPT !.users = @ \cup {u}], AllOf(u))
      PROVE  \E changed \in SUBSET Changeable : \E d : Operates(d, changed) /\ Touches(d, changed)
  <2> DEFINE us == dir.users \cup {u}
             d == Changed(us, dir.disabled, dir.member)
  <2>2. Operates(d, AllOf(u))
    <3>1. d = [dir EXCEPT !.users = @ \cup {u}]
      BY <1>1 DEF Directory, Changed
    <3> QED BY <1>6, <3>1
  <2>3. us \in SUBSET AllUsers /\ dir.users \subseteq us /\ \A v : v # u => (v \in us <=> v \in dir.users)
    BY <1>1
  <2> HIDE DEF us
  <2>5. /\ d \in Directory /\ d.ous = dir.ous /\ d.groups = dir.groups
        /\ d.place = dir.place /\ d.nested = dir.nested /\ d.settings = dir.settings
        /\ d.users = us /\ d.disabled = dir.disabled /\ d.member = dir.member
    <3>1. dir.disabled \in SUBSET AllUsers
      BY <1>1
    <3> QED BY <1>1, <2>3, <3>1, ChangedForm
  <2> HIDE DEF d
  <2>6. Consistent(d)
    BY <1>1, <2>3, <2>5 DEF Consistent
  <2>7. \A v, x : x \in Range(Groups) \cup {"user", "account"} /\ <<v, x>> \notin AllOf(u) => v # u
    BY DEF AllOf
  <2>8. Touches(d, AllOf(u))
    BY <1>1, <2>3, <2>5, <2>6, <2>7 DEF Touches
  <2>9. AllOf(u) \in SUBSET Changeable
    BY DEF Changeable, AllOf
  <2> QED BY <2>2, <2>8, <2>9
<1> QED BY <1>3, <1>4, <1>5, <1>6 DEF Operate, OperatorSetsMember, OperatorSetsAccount, OperatorDeletes,
     OperatorCreates

LEMMA OperateKeeps == ASSUME IInv, Operate PROVE IInv'
<1>0. PICK changed \in SUBSET Changeable : \E d : Operates(d, changed) /\ Touches(d, changed)
  BY OperateTouches
<1>1. PICK d : Operates(d, changed) /\ Touches(d, changed)
  BY <1>0
<1>2. /\ dir' = d /\ operated' = IF marker THEN operated ELSE operated \cup changed
      /\ status \in {"script", "serving"} /\ domain = "ready" /\ disturbances' \in 0..MaxDisturbances
      /\ UNCHANGED <<status, domain, marker, pc, fresh, created, cut>>
  <2>1. disturbances \in 0..MaxDisturbances /\ MaxDisturbances \in Nat
    BY BaselineAssumption DEF IInv, TypeOK
  <2>2. disturbances' \in 0..MaxDisturbances
    BY <1>1, <2>1 DEF Operates
  <2> QED BY <1>1, <2>2 DEF Operates
<1>3. TypeOK'
  <2>1. operated' \subseteq Range(Users) \X (Range(Groups) \cup {"user", "account"})
    BY <1>2 DEF IInv, TypeOK, Changeable
  <2> QED BY <1>1, <1>2, <2>1 DEF IInv, TypeOK, Touches
<1>4. Phases'
  BY <1>2 DEF IInv, Phases
<1>5. DoneSoFar'
  <2> SUFFICES ASSUME status = "script", NEW i \in 1..pc - 1
               PROVE  Achieved(Script[i], dir') \/ Undone(Script[i], operated')
    BY <1>2 DEF DoneSoFar
  <2> DEFINE c == Script[i]
  <2>1. Achieved(c, dir) \/ Undone(c, operated)
    BY <1>2 DEF IInv, DoneSoFar
  <2>2. ~marker /\ pc \in 1..Len(Script) /\ operated' = operated \cup changed
    BY <1>2 DEF IInv, Phases, TypeOK
  <2>3. i \in 1..Len(Script) /\ i # Len(Script)
    BY <2>2, ScriptElements
  <2>4. Shape(c)
    BY <2>3, ScriptElements, ScriptForm
  <2> HIDE DEF c
  <2> DEFINE Kept == Achieved(c, dir') \/ Undone(c, operated')
  <2>5. ASSUME Undone(c, operated) PROVE Kept
    BY <2>2, <2>5 DEF Undone
  <2>6. ASSUME Undone(c, changed) PROVE Kept
    BY <2>2, <2>6 DEF Undone
  <2>7. ASSUME Achieved(c, dir), ~Undone(c, changed) PROVE Kept
    <3>1. c.do = "member" => (c.group \in dir'.member[c.name] <=> c.group \in Baseline[c.name])
      BY <1>1, <1>2, <2>4, <2>7 DEF Touches, Shape, Undone, Achieved
    <3>2. c.do = "user" => c.name \in dir'.users
      BY <1>1, <1>2, <2>4, <2>7 DEF Touches, Shape, Undone, Achieved
    <3>3. c.do = "drop_user" => c.name \notin dir'.users
      BY <1>1, <1>2, <2>4, <2>7 DEF Touches, Shape, Achieved
    <3>4. /\ dir'.ous = dir.ous /\ dir'.groups = dir.groups
          /\ dir'.place = dir.place /\ dir'.nested = dir.nested /\ dir'.settings = dir.settings
      BY <1>1, <1>2 DEF Touches
    <3> QED BY <2>7, <3>1, <3>2, <3>3, <3>4 DEF Achieved
  <2> QED BY <2>1, <2>5, <2>6, <2>7 DEF c
<1>6. FormerSoFar'
  <2>1. InTurn' = InTurn /\ InTurn \subseteq created
    BY <1>2 DEF InTurn, Step, IInv, FormerSoFar
  <2>2. ASSUME ~marker, NEW v \in (created \cap Disabled) \ (cut \cup Overruled')
        PROVE  v \in dir'.disabled \cup InTurn
    <3>1. v \in Range(Users)
      BY <2>2 DEF IInv, TypeOK
    <3>2. v \notin Overruled /\ <<v, "account">> \notin changed
      BY <1>2, <2>2, <3>1 DEF Overruled
    <3>3. v \in dir.disabled \cup InTurn
      BY <2>2, <3>2 DEF IInv, FormerSoFar
    <3> QED BY <1>1, <1>2, <3>2, <3>3 DEF Touches
  <2> QED BY <1>2, <2>1, <2>2 DEF FormerSoFar
<1> QED BY <1>3, <1>4, <1>5, <1>6 DEF IInv

LEMMA InvNext == ASSUME IInv, [Next]_vars PROVE IInv'
<1>1. CASE UNCHANGED vars
  BY <1>1 DEF IInv, TypeOK, Phases, DoneSoFar, FormerSoFar, Overruled, InTurn, Step, vars
<1>2. CASE Next
  BY <1>2, OthersKeep, ProvisioningKeeps, OperateKeeps DEF Next
<1> QED BY <1>1, <1>2

LEMMA Invariant == Spec => []IInv
BY InvInit, InvNext, PTL DEF Spec

\* The directory keeps its types through every boot, and its members are users and groups
\* that exist: the script makes a user and the groups before it makes a membership.
THEOREM TypeCorrect == Spec => []TypeOK
<1>1. IInv => TypeOK
  BY DEF IInv
<1> QED BY <1>1, Invariant, PTL

\* Whatever interruptions a boot had and whatever operators did, the marker is set on a
\* complete directory, but for users operators deleted and memberships they changed after the
\* script had set them.
THEOREM Complete == Spec => MarkedIsComplete
<1> DEFINE Ready ==
      /\ dir.ous = Range(Ous)
      /\ Range(Groups) = dir.groups
      /\ dir.users \subseteq Range(Users)
      /\ \A u \in Range(Users) : u \in dir.users \/ <<u, "user">> \in operated
      /\ \A u \in Range(Users), g \in AllGroups :
           <<u, g>> \in operated \/ (g \in dir.member[u] <=> g \in Baseline[u])
      /\ \A c \in Range(Computers) : dir.place[c] # "none" /\ (c \in Laptops => dir.place[c] = Place[c])
      /\ dir.nested /\ dir.settings
<1>1. ASSUME IInv, [Next]_vars, ~marker, marker' PROVE Ready
  <2>1. Marks
    BY <1>1 DEF Next, vars, Boot, DomainCreated, NoDirectory, Crash, Fails, Operate, OperatorSetsMember,
      OperatorSetsAccount, OperatorDeletes, OperatorCreates, Operates, Provisioning, MakesOu, MakesGroup,
      MakesUser, SetsMember, Disables, DropsUser, DropsGroup, PlacesComputer, NestsAdmins, Settles, Continue
  <2>2. /\ Step.do = "marker" /\ pc \in 1..Len(Script) /\ dir \in Directory /\ Consistent(dir)
        /\ \A i \in 1..pc - 1 : Achieved(Script[i], dir) \/ Undone(Script[i], operated)
    BY <1>1, <2>1 DEF Marks, Doing, IInv, TypeOK, DoneSoFar
  <2>3. pc = Len(Script)
    BY <2>2, ScriptForm DEF Step
  <2>4. ASSUME NEW c \in Effects PROVE Achieved(c, dir) \/ Undone(c, operated)
    <3>1. PICK i \in 1..Len(Script) : Script[i] = c /\ i < Len(Script)
      BY ScriptElements
    <3>2. i \in 1..pc - 1
      BY <2>3, <3>1
    <3> QED BY <2>2, <3>1, <3>2
  <2>5. \A c \in Effects : c.do \notin {"member", "user"} => Achieved(c, dir)
    BY <2>4 DEF Undone
  <2>6. dir.ous = Range(Ous)
    <3>1. ASSUME NEW n \in Range(Ous) PROVE n \in dir.ous
      <4>1. Cmd("ou", n, "none") \in Effects /\ Cmd("ou", n, "none").do \notin {"member", "user"}
        BY CmdFields DEF Effects
      <4> QED BY <4>1, <2>5, CmdFields DEF Achieved
    <3> QED BY <2>2, <3>1 DEF Directory
  <2>7. dir.groups = Range(Groups)
    <3>1. ASSUME NEW n \in Range(Groups) PROVE n \in dir.groups
      <4>1. Cmd("group", n, "none") \in Effects /\ Cmd("group", n, "none").do \notin {"member", "user"}
        BY CmdFields DEF Effects
      <4> QED BY <4>1, <2>5, CmdFields DEF Achieved
    <3>2. ASSUME NEW n \in Range(DeprecatedGroups) PROVE n \notin dir.groups
      <4>1. Cmd("drop_group", n, "none") \in Effects /\ Cmd("drop_group", n, "none").do \notin {"member", "user"}
        BY CmdFields DEF Effects
      <4> QED BY <4>1, <2>5, CmdFields DEF Achieved
    <3> QED BY <2>2, <3>1, <3>2 DEF Directory, AllGroups
  <2>8. /\ dir.users \subseteq Range(Users)
        /\ \A u \in Range(Users) : u \in dir.users \/ <<u, "user">> \in operated
    <3>1. ASSUME NEW u \in Range(Users) PROVE u \in dir.users \/ <<u, "user">> \in operated
      <4>1. Cmd("user", u, "none") \in UserCommands
        BY DEF UserCommands, TurnCommands
      <4>2. Achieved(Cmd("user", u, "none"), dir) \/ Undone(Cmd("user", u, "none"), operated)
        BY <2>4, <4>1 DEF Effects
      <4> QED BY <4>2, CmdFields DEF Achieved, Undone
    <3>2. ASSUME NEW n \in Range(DeprecatedUsers) PROVE n \notin dir.users
      <4>1. Cmd("drop_user", n, "none") \in Effects /\ Cmd("drop_user", n, "none").do \notin {"member", "user"}
        BY CmdFields DEF Effects
      <4> QED BY <4>1, <2>5, CmdFields DEF Achieved
    <3> QED BY <2>2, <3>1, <3>2 DEF Directory, AllUsers
  <2>9. ASSUME NEW u \in Range(Users), NEW g \in AllGroups
        PROVE  <<u, g>> \in operated \/ (g \in dir.member[u] <=> g \in Baseline[u])
    <3>1. dir.member[u] \subseteq Range(Groups)
      BY <2>2, <2>7, <2>8, RangesDiffer DEF Consistent
    <3>2. Baseline[u] \subseteq Range(Groups)
      BY RangesDiffer
    <3>3. CASE g \in Range(Groups)
      <4>1. Cmd("member", u, g) \in UserCommands
        BY <3>3 DEF UserCommands, TurnCommands
      <4>2. Achieved(Cmd("member", u, g), dir) \/ Undone(Cmd("member", u, g), operated)
        BY <2>4, <4>1 DEF Effects
      <4> QED BY <4>2, CmdFields DEF Achieved, Undone
    <3> QED BY <3>1, <3>2, <3>3
  <2>10. ASSUME NEW c \in Range(Computers)
        PROVE  dir.place[c] # "none" /\ (c \in Laptops => dir.place[c] = Place[c])
    <3>1. Cmd("computer", c, "none") \in Effects /\ Cmd("computer", c, "none").do \notin {"member", "user"}
      BY CmdFields DEF Effects
    <3> QED BY <3>1, <2>5, CmdFields DEF Achieved
  <2>11. dir.nested /\ dir.settings
    <3>1. Cmd("nest", "IT-Admins", "Domain-Admins") \in Effects /\ Cmd("nest", "IT-Admins", "Domain-Admins").do \notin {"member", "user"}
      BY CmdFields DEF Effects
    <3>2. Cmd("settings", "password-policy", "none") \in Effects /\ Cmd("settings", "password-policy", "none").do \notin {"member", "user"}
      BY CmdFields DEF Effects
    <3> QED BY <3>1, <3>2, <2>5, CmdFields DEF Achieved
  <2> QED BY <2>6, <2>7, <2>8, <2>9, <2>10, <2>11
<1> HIDE DEF Ready
<1>2. ASSUME IInv, [Next]_vars, marker, status # "serving" PROVE dir' = dir
  <2>1. status # "script"
    BY <1>2 DEF IInv, Phases
  <2> QED BY <1>2, <2>1 DEF Next, vars, Boot, DomainCreated, NoDirectory, Crash, Fails, Operate, OperatorSetsMember,
      OperatorSetsAccount, OperatorDeletes, OperatorCreates, Operates, Provisioning, MakesOu,
       MakesGroup, MakesUser, SetsMember, Disables, DropsUser, DropsGroup, PlacesComputer, NestsAdmins,
       Settles, Marks, Doing
<1> DEFINE Marked == /\ ~marker /\ marker' => Ready
                     /\ marker /\ status # "serving" => dir' = dir
<1>3. ASSUME IInv, [Next]_vars PROVE Marked
  BY <1>1, <1>2, <1>3
<1> HIDE DEF Marked
<1>4. Spec => [][Marked]_vars
  BY <1>3, Invariant, PTL DEF Spec
<1> QED BY <1>4 DEF MarkedIsComplete, Marked, Ready

\* A former employee a boot created is disabled when the marker is set, unless that boot was
\* interrupted in the turn of the user or an operator changed the account after it.
THEOREM FormerDisabled == Spec => FormerEmployeesAreDisabled
<1>1. ASSUME IInv, [Next]_vars, ~marker, marker' PROVE (created \cap Disabled) \ (cut \cup Overruled) \subseteq dir.disabled
  <2>1. Marks
    BY <1>1 DEF Next, vars, Boot, DomainCreated, NoDirectory, Crash, Fails, Operate, OperatorSetsMember,
      OperatorSetsAccount, OperatorDeletes, OperatorCreates, Operates, Provisioning, MakesOu, MakesGroup,
      MakesUser, SetsMember, Disables, DropsUser, DropsGroup, PlacesComputer, NestsAdmins, Settles, Continue
  <2>2. InTurn = {}
    BY <2>1 DEF Marks, Doing, InTurn
  <2> QED BY <1>1, <2>2 DEF IInv, FormerSoFar
<1>2. ASSUME IInv, [Next]_vars
      PROVE  ~marker /\ marker' => (created \cap Disabled) \ (cut \cup Overruled) \subseteq dir.disabled
  BY <1>1, <1>2
<1> QED BY <1>2, Invariant, PTL DEF Spec, FormerEmployeesAreDisabled
=============================================================================
