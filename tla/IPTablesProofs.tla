----------------------------- MODULE IPTablesProofs -----------------------------
(***************************************************************************)
(* What the iptables scripts guarantee for every set of policies and every *)
(* number of faults: the set that rules refer to is whole, an apply that   *)
(* runs to its end converges, and a removal detaches.  A script is looked  *)
(* at through the set of the commands that are still ahead of it.          *)
(***************************************************************************)
EXTENDS IPTables, FiniteSetTheorems, SequenceTheorems, TLAPS

-----------------------------------------------------------------------------
(* The commands of a script                                                *)

FillCommands(f, nets) ==
  {Cmd("create", f, "base"), Cmd("create", f, "temp"), Cmd("flush", f, "temp"),
   Cmd("swap", f, "temp"), Cmd("destroy", f, "temp")}
    \cup {Cmd("add", f, <<"temp", n>>) : n \in nets}

RuleOf(p, f) ==
  IF p.mode = "deny" THEN "in" ELSE IF p.ranges[f] = {} THEN "all" ELSE "out"

ChainCommands(f, rule) ==
  {Cmd("newChain", f, Absent), Cmd("flushChain", f, Absent), Cmd("append", f, rule),
   Cmd("ensureJump", f, Absent)}

\* A deny list that is empty leaves the family alone.
Emits(p, f) == p.ranges[f] # {} \/ p.mode = "allow"

EmitCommands(p, f) ==
  IF Emits(p, f)
  THEN ChainCommands(f, RuleOf(p, f))
         \cup (IF p.ranges[f] = {} THEN {} ELSE FillCommands(f, p.ranges[f]))
  ELSE {}

DetachCommands(f) ==
  {Cmd("dropJump", f, Absent), Cmd("tryFlushChain", f, Absent), Cmd("deleteChain", f, Absent),
   Cmd("tryDestroy", f, "base")}

CommandsOf(j) ==
  UNION {IF j.op = "apply" THEN EmitCommands(j.policy, f)
         ELSE IF j.op = "remove" THEN DetachCommands(f) ELSE {} : f \in Families}

\* The place of a kind of command in the script of one family.
Place == [create |-> 1, flush |-> 2, add |-> 3, swap |-> 4, destroy |-> 5, newChain |-> 6,
          flushChain |-> 7, append |-> 8, ensureJump |-> 9,
          dropJump |-> 1, tryFlushChain |-> 2, deleteChain |-> 3, tryDestroy |-> 4]

MayPrecede(c, d) ==
  \/ c.fam # d.fam
  \/ Place[c.do] < Place[d.do]
  \/ c.do = d.do /\ c.do \in {"create", "add"}

Ordered(s) == \A i, j \in 1 .. Len(s) : i < j => MayPrecede(s[i], s[j])

-----------------------------------------------------------------------------
(* The inductive invariant                                                 *)

Ahead == Range(script)
Has(do, f) == \E c \in Ahead : c.do = do /\ c.fam = f
ToAdd(f) == {n \in iptJob.policy.ranges[f] : Cmd("add", f, <<"temp", n>>) \in Ahead}

ScriptInv == script \in Seq(CommandsOf(iptJob)) /\ Ordered(script)

\* The temporary set is the list, less what is still to add, from its flush to
\* the swap, and the other one is the list from then on.
Filled(f) ==
  /\ Has("add", f) \/ Has("flush", f) => Has("swap", f)
  /\ Has("flush", f) => ToAdd(f) = iptJob.policy.ranges[f]
  /\ Has("swap", f) /\ ~Has("flush", f) =>
       /\ sets[f]["temp"] \in SUBSET iptJob.policy.ranges[f]
       /\ iptJob.policy.ranges[f] \subseteq sets[f]["temp"] \cup ToAdd(f)
  /\ ~Has("swap", f) => sets[f]["base"] = iptJob.policy.ranges[f]

Chained(f) ==
  /\ Has("flushChain", f) => Has("append", f)
  /\ Has("append", f) /\ ~Has("flushChain", f) => chain[f] = {}
  /\ ~Has("append", f) => chain[f] = {RuleOf(iptJob.policy, f)}
  /\ ~Has("ensureJump", f) => jumps[f] > 0

Detached(f) ==
  /\ ~Has("dropJump", f) => jumps[f] = 0
  /\ ~Has("tryFlushChain", f) => chain[f] \in {Absent, {}}
  /\ ~Has("deleteChain", f) => chain[f] = Absent
  /\ ~Has("tryDestroy", f) => sets[f]["base"] = Absent

Whole(f) == sets[f]["base"] \in {Absent, {}} \cup {p.ranges[f] : p \in IptPolicies}

\* Two jumps come from a failure that was ignored.
FamilyInv(f) ==
  /\ iptJob.op = "apply" /\ Emits(iptJob.policy, f) => Chained(f)
  /\ iptJob.op = "apply" /\ iptJob.policy.ranges[f] # {} => Filled(f)
  /\ ~ignored => jumps[f] <= 1
  /\ iptJob.op = "remove" /\ ~ignored => Detached(f)
  /\ Whole(f)

IptInv == IptTypeOK /\ ScriptInv /\ \A f \in Families : FamilyInv(f)

-----------------------------------------------------------------------------
(* The scripts: which commands they consist of, and in which order         *)

LEMMA SetToSeqIsOnto ==
  ASSUME NEW S, IsFiniteSet(S)
  PROVE  /\ Cardinality(S) \in Nat
         /\ SetToSeq(S) \in [1 .. Cardinality(S) -> S]
         /\ \A x \in S : \E i \in 1 .. Cardinality(S) : SetToSeq(S)[i] = x
<1> DEFINE D == 1 .. Cardinality(S)
<1>1. Cardinality(S) \in Nat /\ ExistsBijection(D, S)
  BY FS_CardinalityType
<1>2. PICK g \in Bijection(D, S) : TRUE
  BY <1>1 DEF ExistsBijection
<1>3. g \in [D -> S] /\ IsInjective(g)
  BY <1>2 DEF Bijection, Injection
<1>4. SetToSeq(S) \in [D -> S] /\ IsInjective(SetToSeq(S))
  BY <1>3 DEF SetToSeq
<1>5. SetToSeq(S) \in Injection(D, S)
  BY <1>4 DEF Injection
<1>6. Cardinality(D) = Cardinality(S)
  BY <1>1, FS_Interval
<1>7. SetToSeq(S) \in Surjection(D, S)
  BY <1>5, <1>6, FS_Injection
<1> QED
  BY <1>1, <1>4, <1>7 DEF Surjection

LEMMA OrderedConcat ==
  ASSUME NEW S, NEW s \in Seq(S), NEW t \in Seq(S), Ordered(s), Ordered(t),
         \A i \in 1 .. Len(s), j \in 1 .. Len(t) : MayPrecede(s[i], t[j])
  PROVE  Ordered(s \o t)
<1> SUFFICES ASSUME NEW i \in 1 .. Len(s \o t), NEW j \in 1 .. Len(s \o t), i < j
             PROVE  MayPrecede((s \o t)[i], (s \o t)[j])
  BY DEF Ordered
<1>1. Len(s) \in Nat /\ Len(t) \in Nat /\ Len(s \o t) = Len(s) + Len(t)
  OBVIOUS
<1>2. \A k \in 1 .. Len(s \o t) :
        (s \o t)[k] = IF k <= Len(s) THEN s[k] ELSE t[k - Len(s)]
  OBVIOUS
<1>3. CASE j <= Len(s)
  BY <1>1, <1>2, <1>3 DEF Ordered
<1>4. CASE i <= Len(s) /\ j > Len(s)
  <2>1. j - Len(s) \in 1 .. Len(t)
    BY <1>1, <1>4
  <2> QED
    BY <1>1, <1>2, <1>4, <2>1
<1>5. CASE i > Len(s)
  <2>1. i - Len(s) \in 1 .. Len(t) /\ j - Len(s) \in 1 .. Len(t) /\ i - Len(s) < j - Len(s)
    BY <1>1, <1>5
  <2> QED
    BY <1>1, <1>2, <1>5, <2>1 DEF Ordered
<1> QED
  BY <1>1, <1>3, <1>4, <1>5

\* s runs the commands of S, each of them, in order.
Runs(s, S) == s \in Seq(S) /\ Range(s) = S /\ Ordered(s)

LEMMA RunsConcat ==
  ASSUME NEW S, NEW T, NEW s, NEW t, Runs(s, S), Runs(t, T),
         \A c \in S, d \in T : MayPrecede(c, d)
  PROVE  Runs(s \o t, S \cup T)
<1>1. s \in Seq(S \cup T) /\ t \in Seq(S \cup T)
  BY SeqMonotonic DEF Runs
<1>2. \A i \in 1 .. Len(s), j \in 1 .. Len(t) : MayPrecede(s[i], t[j])
  BY DEF Runs
<1>3. Ordered(s \o t)
  BY <1>1, <1>2, OrderedConcat DEF Runs
<1>4. Range(s \o t) = S \cup T
  BY <1>1, RangeConcatenation DEF Runs
<1> QED
  BY <1>1, <1>3, <1>4 DEF Runs

LEMMA AddsRun ==
  ASSUME NEW f, NEW nets, IsFiniteSet(nets)
  PROVE  Runs([i \in 1 .. Cardinality(nets) |-> Cmd("add", f, <<"temp", SetToSeq(nets)[i]>>)],
              {Cmd("add", f, <<"temp", n>>) : n \in nets})
<1> DEFINE k == Cardinality(nets)
           q == SetToSeq(nets)
           add(n) == Cmd("add", f, <<"temp", n>>)
           s == [i \in 1 .. k |-> add(q[i])]
           S == {add(n) : n \in nets}
<1>1. k \in Nat /\ q \in [1 .. k -> nets] /\ \A n \in nets : \E i \in 1 .. k : q[i] = n
  BY SetToSeqIsOnto
<1>2. \A n : add(n).fam = f /\ add(n).do = "add"
  BY DEF Cmd
<1> HIDE DEF k, q, add
<1>3. s \in [1 .. k -> S]
  BY <1>1
<1>4. s \in Seq(S) /\ Len(s) = k
  BY <1>1, <1>3
<1>5. Range(s) = S
  BY <1>1, <1>4 DEF Range
<1>6. Ordered(s)
  BY <1>2, <1>4 DEF Ordered, MayPrecede
<1> QED
  BY <1>4, <1>5, <1>6 DEF Runs, add, k, q

LEMMA RunsTwo ==
  ASSUME NEW a, NEW b, MayPrecede(a, b)
  PROVE  Runs(<<a, b>>, {a, b})
  BY DEF Runs, Ordered, Range

LEMMA RunsOne ==
  ASSUME NEW a
  PROVE  Runs(<<a>>, {a})
  BY DEF Runs, Ordered, Range

LEMMA RunsThree ==
  ASSUME NEW a, NEW b, NEW c, MayPrecede(a, b), MayPrecede(a, c), MayPrecede(b, c)
  PROVE  Runs(<<a, b, c>>, {a, b, c})
  BY DEF Runs, Ordered, Range

LEMMA FillRuns ==
  ASSUME NEW f, NEW nets, IsFiniteSet(nets)
  PROVE  Runs(Fill(f, nets), FillCommands(f, nets))
<1> DEFINE A == {Cmd("create", f, "base"), Cmd("create", f, "temp"), Cmd("flush", f, "temp")}
           B == {Cmd("add", f, <<"temp", n>>) : n \in nets}
           C == {Cmd("swap", f, "temp"), Cmd("destroy", f, "temp")}
           a == <<Cmd("create", f, "base"), Cmd("create", f, "temp"), Cmd("flush", f, "temp")>>
           b == [i \in 1 .. Cardinality(nets) |-> Cmd("add", f, <<"temp", SetToSeq(nets)[i]>>)]
           c == <<Cmd("swap", f, "temp"), Cmd("destroy", f, "temp")>>
<1>1. Runs(a, A)
  BY RunsThree DEF MayPrecede, Cmd, Place
<1>2. Runs(b, B)
  BY AddsRun
<1>3. Runs(c, C)
  BY RunsTwo DEF MayPrecede, Cmd, Place
<1>4. \A x \in A, y \in B : MayPrecede(x, y)
  BY DEF MayPrecede, Cmd, Place
<1>5. \A x \in A \cup B, y \in C : MayPrecede(x, y)
  BY DEF MayPrecede, Cmd, Place
<1> HIDE DEF A, B, C, a, b, c
<1>6. Runs(a \o b, A \cup B)
  BY <1>1, <1>2, <1>4, RunsConcat
<1>7. Runs((a \o b) \o c, (A \cup B) \cup C)
  BY <1>3, <1>5, <1>6, RunsConcat
<1>8. (A \cup B) \cup C = FillCommands(f, nets)
  BY DEF A, B, C, FillCommands
<1>9. (a \o b) \o c = Fill(f, nets)
  BY DEF a, b, c, Fill
<1> QED
  BY <1>7, <1>8, <1>9

LEMMA ChainRuleRuns ==
  ASSUME NEW f, NEW rule
  PROVE  Runs(ChainRule(f, rule), ChainCommands(f, rule))
  BY DEF Runs, Ordered, Range, ChainRule, ChainCommands, MayPrecede, Cmd, Place

LEMMA EmitRuns ==
  ASSUME NEW p \in IptPolicies, NEW f \in Families
  PROVE  Runs(Emit(p, f), EmitCommands(p, f))
<1>1. p.mode \in {"allow", "deny"} /\ IsFiniteSet(p.ranges[f])
  BY IptAssumption
<1>2. CASE p.ranges[f] = {} /\ p.mode = "deny"
  <2>1. Emit(p, f) = <<>> /\ EmitCommands(p, f) = {}
    BY <1>2 DEF Emit, EmitCommands, Emits
  <2> QED
    BY <2>1 DEF Runs, Ordered, Range
<1>3. CASE p.ranges[f] = {} /\ p.mode = "allow"
  <2>1. Emit(p, f) = ChainRule(f, "all") /\ EmitCommands(p, f) = ChainCommands(f, "all")
    BY <1>3 DEF Emit, EmitCommands, Emits, RuleOf
  <2> QED
    BY <2>1, ChainRuleRuns
<1>4. CASE p.ranges[f] # {}
  <2> DEFINE F == FillCommands(f, p.ranges[f])
             C == ChainCommands(f, RuleOf(p, f))
  <2>1. /\ Emit(p, f) = Fill(f, p.ranges[f]) \o ChainRule(f, RuleOf(p, f))
        /\ EmitCommands(p, f) = F \cup C
    BY <1>1, <1>4 DEF Emit, EmitCommands, Emits, RuleOf
  <2>2. \A c \in F, d \in C : MayPrecede(c, d)
    BY DEF FillCommands, ChainCommands, MayPrecede, Cmd, Place
  <2> HIDE DEF F, C
  <2> QED
    BY <1>1, <2>1, <2>2, FillRuns, ChainRuleRuns, RunsConcat DEF F, C
<1> QED
  BY <1>1, <1>2, <1>3, <1>4

LEMMA FamilyOfEmitted ==
  ASSUME NEW p, NEW f, NEW c \in EmitCommands(p, f)
  PROVE  c.fam = f
  BY DEF EmitCommands, ChainCommands, FillCommands, Cmd

LEMMA ApplyScriptRuns ==
  ASSUME NEW p \in IptPolicies
  PROVE  Runs(ApplyScript(p), CommandsOf([op |-> "apply", policy |-> p]))
<1>1. "v4" \in Families /\ "v6" \in Families
  BY DEF Families
<1>2. \A c \in EmitCommands(p, "v4"), d \in EmitCommands(p, "v6") : MayPrecede(c, d)
  BY FamilyOfEmitted DEF MayPrecede
<1>3. CommandsOf([op |-> "apply", policy |-> p]) = EmitCommands(p, "v4") \cup EmitCommands(p, "v6")
  BY DEF CommandsOf, Families
<1> QED
  BY <1>1, <1>2, <1>3, EmitRuns, RunsConcat DEF ApplyScript

LEMMA RemoveScriptRuns ==
  ASSUME NEW p
  PROVE  Runs(RemoveScript, CommandsOf([op |-> "remove", policy |-> p]))
<1> DEFINE D(f) == {Cmd("dropJump", f, Absent), Cmd("tryFlushChain", f, Absent),
                    Cmd("deleteChain", f, Absent)}
           T == {Cmd("tryDestroy", "v4", "base"), Cmd("tryDestroy", "v6", "base")}
<1>1. \A f : Runs(Detach(f), D(f))
  BY RunsThree DEF Detach, MayPrecede, Cmd, Place
<1>2. \A c \in D("v4"), d \in D("v6") : MayPrecede(c, d)
  BY DEF MayPrecede, Cmd
<1>3. \A c \in D("v4") \cup D("v6"), d \in T : MayPrecede(c, d)
  BY DEF MayPrecede, Cmd, Place
<1>4. Runs(<<Cmd("tryDestroy", "v4", "base"), Cmd("tryDestroy", "v6", "base")>>, T)
  BY RunsTwo DEF MayPrecede, Cmd
<1>5. CommandsOf([op |-> "remove", policy |-> p]) = (D("v4") \cup D("v6")) \cup T
  BY DEF CommandsOf, DetachCommands, Families
<1> HIDE DEF D, T
<1>6. Runs(Detach("v4") \o Detach("v6"), D("v4") \cup D("v6"))
  BY <1>1, <1>2, RunsConcat
<1> QED
  BY <1>3, <1>4, <1>5, <1>6, RunsConcat DEF RemoveScript

-----------------------------------------------------------------------------
(* A script that goes on to its next command                               *)

Advances == /\ iptJob.op # "none" /\ script # <<>>
            /\ script' = Tail(script) /\ iptJob' = iptJob

LEMMA ScriptAdvances ==
  ASSUME ScriptInv, Advances
  PROVE  /\ ScriptInv'
         /\ Head(script) \in CommandsOf(iptJob)
         /\ Ahead = {Head(script)} \cup Ahead'
         /\ \A d \in Ahead' : MayPrecede(Head(script), d)
<1> DEFINE S == CommandsOf(iptJob)
           t == Tail(script)
<1>1. script \in Seq(S) /\ Ordered(script) /\ script # <<>> /\ script' = t
  BY DEF ScriptInv, Advances
<1>2. CommandsOf(iptJob)' = S
  BY DEF Advances, CommandsOf, EmitCommands, DetachCommands, Emits
<1> HIDE DEF S
<1>3. /\ Head(script) \in S /\ t \in Seq(S) /\ Len(t) = Len(script) - 1
      /\ Head(script) = script[1] /\ Len(script) \in Nat \ {0}
      /\ \A i \in 1 .. Len(t) : t[i] = script[i + 1]
  BY <1>1
<1>4. Ordered(t)
  <2> SUFFICES ASSUME NEW i \in 1 .. Len(t), NEW j \in 1 .. Len(t), i < j
               PROVE  MayPrecede(t[i], t[j])
    BY DEF Ordered
  <2>1. i + 1 \in 1 .. Len(script) /\ j + 1 \in 1 .. Len(script) /\ i + 1 < j + 1
    BY <1>3
  <2> QED
    BY <1>1, <1>3, <2>1 DEF Ordered
<1>5. ScriptInv'
  BY <1>1, <1>2, <1>3, <1>4 DEF ScriptInv, S, Ordered, MayPrecede
<1>6. \A i \in 1 .. Len(script) : i = 1 \/ (i - 1 \in 1 .. Len(t) /\ t[i - 1] = script[i])
  BY <1>3
<1>7. Range(script) = {Head(script)} \cup Range(t)
  <2> USE <1>1, <1>3
  <2>1. DOMAIN script = 1 .. Len(script) /\ DOMAIN t = 1 .. Len(t)
    OBVIOUS
  <2>2. ASSUME NEW x \in Range(script) PROVE x \in {Head(script)} \cup Range(t)
    <3>1. PICK i \in 1 .. Len(script) : x = script[i]
      BY <2>1, <2>2 DEF Range
    <3> QED
      BY <2>1, <3>1, <1>6 DEF Range
  <2>3. Head(script) \in Range(script)
    BY <2>1 DEF Range
  <2>4. ASSUME NEW x \in Range(t) PROVE x \in Range(script)
    <3>1. PICK i \in 1 .. Len(t) : x = t[i]
      BY <2>1, <2>4 DEF Range
    <3>2. i + 1 \in 1 .. Len(script) /\ x = script[i + 1]
      BY <3>1
    <3> QED
      BY <2>1, <3>2 DEF Range
  <2> QED
    BY <2>2, <2>3, <2>4
<1>8. \A d \in Range(t) : MayPrecede(Head(script), d)
  <2> SUFFICES ASSUME NEW i \in 1 .. Len(t) PROVE MayPrecede(Head(script), t[i])
    BY <1>3 DEF Range
  <2>1. i + 1 \in 1 .. Len(script) /\ 1 \in 1 .. Len(script) /\ 1 < i + 1
    BY <1>3
  <2> QED
    BY <1>1, <1>3, <2>1 DEF Ordered
<1>9. Ahead' = Range(t)
  BY <1>1 DEF Ahead, Range
<1> QED
  BY <1>3, <1>5, <1>7, <1>8, <1>9 DEF S, Ahead

\* The head of a script is one of the commands of its family.
LEMMA HeadIsTyped ==
  ASSUME IptTypeOK, ScriptInv, iptJob.op # "none", script # <<>>
  PROVE  /\ Fam \in Families
         /\ iptJob.policy \in IptPolicies
         /\ \/ iptJob.op = "apply" /\ Head(script) \in EmitCommands(iptJob.policy, Fam)
            \/ iptJob.op = "remove" /\ Head(script) \in DetachCommands(Fam)
<1>1. iptJob.op \in {"apply", "remove"} /\ iptJob.policy \in IptPolicies
  BY DEF IptTypeOK
<1>2. Head(script) \in CommandsOf(iptJob)
  BY DEF ScriptInv
<1>3. PICK f \in Families :
        \/ iptJob.op = "apply" /\ Head(script) \in EmitCommands(iptJob.policy, f)
        \/ iptJob.op = "remove" /\ Head(script) \in DetachCommands(f)
  BY <1>1, <1>2 DEF CommandsOf
<1>4. Head(script).fam = f
  BY <1>3, FamilyOfEmitted DEF DetachCommands, Cmd
<1> QED
  BY <1>1, <1>3, <1>4 DEF Fam

\* What is still ahead of another kind or of the other family stays ahead.
LEMMA HasKept ==
  ASSUME ScriptInv, Advances, NEW do, NEW f, do # Head(script).do \/ f # Fam
  PROVE  Has(do, f)' <=> Has(do, f)
  BY ScriptAdvances DEF Has, Fam

\* What comes after the head.
LEMMA HasAfter ==
  ASSUME ScriptInv, Advances, NEW do, NEW f, f = Fam, Has(do, f)'
  PROVE  \/ Place[Head(script).do] < Place[do]
         \/ Head(script).do = do /\ do \in {"create", "add"}
<1>1. PICK d \in Ahead' : d.do = do /\ d.fam = f
  BY DEF Has
<1>2. MayPrecede(Head(script), d)
  BY ScriptAdvances
<1> QED
  BY <1>1, <1>2 DEF MayPrecede, Fam

LEMMA HasHead ==
  ASSUME ScriptInv, Advances
  PROVE  Has(Head(script).do, Fam)
  BY ScriptAdvances DEF Has, Fam

LEMMA ToAddKept ==
  ASSUME ScriptInv, Advances, NEW f
  PROVE  /\ ToAdd(f)' \subseteq ToAdd(f)
         /\ \A n \in ToAdd(f) \ ToAdd(f)' : Head(script) = Cmd("add", f, <<"temp", n>>)
  BY ScriptAdvances DEF ToAdd, Advances

LEMMA SameToAdd ==
  ASSUME ScriptInv, Advances, NEW f, Head(script).do # "add" \/ f # Fam
  PROVE  ToAdd(f)' = ToAdd(f)
<1>1. \A n : Head(script) # Cmd("add", f, <<"temp", n>>)
  BY DEF Cmd, Fam
<1> QED
  BY <1>1, ToAddKept

FillKinds == {"create", "flush", "add", "swap", "destroy"}
ChainKinds == {"newChain", "flushChain", "append", "ensureJump"}
DetachKinds == {"dropJump", "tryFlushChain", "deleteChain", "tryDestroy"}

LEMMA HeadFills ==
  ASSUME IptTypeOK, ScriptInv, iptJob.op # "none", script # <<>>, Head(script).do \in FillKinds
  PROVE  /\ iptJob.op = "apply" /\ iptJob.policy.ranges[Fam] # {}
         /\ Head(script).do = "create" => Arg \in {"base", "temp"}
         /\ Head(script).do \in {"flush", "swap", "destroy"} => Arg = "temp"
         /\ Head(script).do = "add" => \E n \in iptJob.policy.ranges[Fam] : Arg = <<"temp", n>>
<1>1. iptJob.op = "apply" /\ Head(script) \in EmitCommands(iptJob.policy, Fam)
  BY HeadIsTyped DEF DetachCommands, Cmd, FillKinds
<1>2. /\ iptJob.policy.ranges[Fam] # {}
      /\ Head(script) \in FillCommands(Fam, iptJob.policy.ranges[Fam])
  BY <1>1 DEF EmitCommands, ChainCommands, Cmd, FillKinds
<1> QED
  BY <1>1, <1>2 DEF FillCommands, Cmd, Arg

LEMMA HeadChains ==
  ASSUME IptTypeOK, ScriptInv, iptJob.op # "none", script # <<>>, Head(script).do \in ChainKinds
  PROVE  /\ iptJob.op = "apply" /\ Emits(iptJob.policy, Fam)
         /\ Head(script).do = "append" => Arg = RuleOf(iptJob.policy, Fam)
<1>1. iptJob.op = "apply" /\ Head(script) \in EmitCommands(iptJob.policy, Fam)
  BY HeadIsTyped DEF DetachCommands, Cmd, ChainKinds
<1>2. /\ Emits(iptJob.policy, Fam)
      /\ Head(script) \in ChainCommands(Fam, RuleOf(iptJob.policy, Fam))
  BY <1>1 DEF EmitCommands, FillCommands, Cmd, ChainKinds
<1> QED
  BY <1>1, <1>2 DEF ChainCommands, Cmd, Arg

LEMMA HeadDetaches ==
  ASSUME IptTypeOK, ScriptInv, iptJob.op # "none", script # <<>>, Head(script).do \in DetachKinds
  PROVE  /\ iptJob.op = "remove"
         /\ Head(script).do = "tryDestroy" => Arg = "base"
<1>1. iptJob.op = "remove" /\ Head(script) \in DetachCommands(Fam)
  BY HeadIsTyped DEF EmitCommands, FillCommands, ChainCommands, Cmd, DetachKinds
<1> QED
  BY <1>1 DEF DetachCommands, Cmd, Arg

LEMMA HeadKinds ==
  ASSUME IptTypeOK, ScriptInv, iptJob.op # "none", script # <<>>
  PROVE  Head(script).do \in FillKinds \cup ChainKinds \cup DetachKinds
  BY HeadIsTyped DEF EmitCommands, FillCommands, ChainCommands, DetachCommands, Cmd,
     FillKinds, ChainKinds, DetachKinds

-----------------------------------------------------------------------------
(* What a step leaves alone                                                *)

LEMMA FilledKept ==
  ASSUME ScriptInv, Advances, NEW f, Filled(f),
         Has("swap", f) /\ ~Has("flush", f) => sets'[f]["temp"] = sets[f]["temp"],
         ~Has("swap", f) => sets'[f]["base"] = sets[f]["base"],
         Head(script).do \notin {"add", "flush", "swap"} \/ f # Fam
  PROVE  Filled(f)'
<1>1. /\ Has("add", f)' <=> Has("add", f)
      /\ Has("flush", f)' <=> Has("flush", f)
      /\ Has("swap", f)' <=> Has("swap", f)
  BY HasKept
<1>2. ToAdd(f)' = ToAdd(f)
  BY SameToAdd
<1>3. iptJob' = iptJob
  BY DEF Advances
<1> QED
  BY <1>1, <1>2, <1>3 DEF Filled

LEMMA ChainedKept ==
  ASSUME ScriptInv, Advances, NEW f, Chained(f), chain'[f] = chain[f], jumps'[f] = jumps[f],
         Head(script).do \notin {"flushChain", "append", "ensureJump"} \/ f # Fam
  PROVE  Chained(f)'
<1>1. /\ Has("flushChain", f)' <=> Has("flushChain", f)
      /\ Has("append", f)' <=> Has("append", f)
      /\ Has("ensureJump", f)' <=> Has("ensureJump", f)
  BY HasKept
<1>2. iptJob' = iptJob
  BY DEF Advances
<1>3. RuleOf(iptJob.policy, f)' = RuleOf(iptJob.policy, f)
  BY <1>2 DEF RuleOf
<1> QED
  BY <1>1, <1>2, <1>3 DEF Chained

LEMMA DetachedKept ==
  ASSUME ScriptInv, Advances, NEW f, Detached(f), chain'[f] = chain[f], jumps'[f] = jumps[f],
         sets'[f] = sets[f], Head(script).do \notin DetachKinds \/ f # Fam
  PROVE  Detached(f)'
<1>1. /\ Has("dropJump", f)' <=> Has("dropJump", f)
      /\ Has("tryFlushChain", f)' <=> Has("tryFlushChain", f)
      /\ Has("deleteChain", f)' <=> Has("deleteChain", f)
      /\ Has("tryDestroy", f)' <=> Has("tryDestroy", f)
  BY HasKept DEF DetachKinds
<1> QED
  BY <1>1 DEF Detached

\* It is enough to look at the family of the command.
LEMMA OneFamily ==
  ASSUME IptInv, Advances, ignored => ignored',
         \A f \in Families \ {Fam} :
           sets'[f] = sets[f] /\ chain'[f] = chain[f] /\ jumps'[f] = jumps[f],
         NEW g, g = Fam, FamilyInv(g)', IptTypeOK'
  PROVE  IptInv'
<1>1. ScriptInv /\ ScriptInv'
  BY ScriptAdvances DEF IptInv
<1>2. ASSUME NEW f \in Families, f # g PROVE FamilyInv(f)'
  <2>1. FamilyInv(f) /\ sets'[f] = sets[f] /\ chain'[f] = chain[f] /\ jumps'[f] = jumps[f]
    BY <1>2 DEF IptInv
  <2>2. iptJob' = iptJob /\ Emits(iptJob.policy, f)' = Emits(iptJob.policy, f)
    BY DEF Advances, Emits
  <2>3. (Chained(f) => Chained(f)') /\ (Filled(f) => Filled(f)') /\ (Detached(f) => Detached(f)')
    BY <1>1, <1>2, <2>1, FilledKept, ChainedKept, DetachedKept
  <2>4. Whole(f) => Whole(f)'
    BY <2>1 DEF Whole
  <2> QED
    BY <2>1, <2>2, <2>3, <2>4 DEF FamilyInv
<1> QED
  BY <1>1, <1>2 DEF IptInv

-----------------------------------------------------------------------------
(* The commands                                                            *)

LEMMA CreateSetKeeps ==
  ASSUME IptInv, CreateSet, NEW g \in Families, g = Fam
  PROVE  IptInv'
<1>1. Advances /\ Head(script).do = "create" /\ UNCHANGED <<chain, jumps, ignored>>
  BY DEF CreateSet, Now, Goes, Advances
<1>2. iptJob.op = "apply" /\ iptJob.policy.ranges[g] # {} /\ Arg \in {"base", "temp"}
  BY <1>1, HeadFills DEF IptInv, Advances, FillKinds
<1>3. sets \in [Families -> [{"base", "temp"} -> (SUBSET IptNets) \cup {Absent}]]
  BY DEF IptInv, IptTypeOK
<1>4. /\ sets' = [sets EXCEPT ![g] = sets'[g]]
      /\ sets'[g] \in [{"base", "temp"} -> (SUBSET IptNets) \cup {Absent}]
      /\ \A k \in {"base", "temp"} :
           sets'[g][k] = sets[g][k] \/ (sets[g][k] = Absent /\ sets'[g][k] = {})
  BY <1>2, <1>3 DEF CreateSet
<1>5. IptTypeOK'
  BY <1>3, <1>4 DEF IptInv, IptTypeOK, CreateSet, Goes
<1>6. FamilyInv(g)
  BY DEF IptInv
<1>7. Filled(g)'
  <2>1. Filled(g) /\ ScriptInv
    BY <1>2, <1>6 DEF FamilyInv, IptInv
  <2>2. iptJob.policy.ranges[g] \in SUBSET IptNets
    BY IptAssumption DEF IptInv, IptTypeOK
  <2>3. /\ Has("swap", g) /\ ~Has("flush", g) => sets[g]["temp"] # Absent
        /\ ~Has("swap", g) => sets[g]["base"] # Absent
    BY <2>1, <2>2, IptAssumption DEF Filled
  <2> QED
    BY <1>1, <1>4, <2>1, <2>3, FilledKept
<1>8. Chained(g) => Chained(g)'
  BY <1>1, ChainedKept DEF IptInv
<1>9. FamilyInv(g)'
  BY <1>1, <1>2, <1>4, <1>6, <1>7, <1>8 DEF FamilyInv, Whole, Advances, Emits
<1> QED
  BY <1>1, <1>3, <1>4, <1>5, <1>9, OneFamily

LEMMA FlushSetKeeps ==
  ASSUME IptInv, FlushSet, NEW g \in Families, g = Fam
  PROVE  IptInv'
<1>1. Advances /\ Head(script).do = "flush" /\ UNCHANGED <<chain, jumps, ignored>>
  BY DEF FlushSet, Now, Goes, Advances
<1>2. iptJob.op = "apply" /\ iptJob.policy.ranges[g] # {} /\ Arg = "temp"
  BY <1>1, HeadFills DEF IptInv, Advances, FillKinds
<1>3. sets \in [Families -> [{"base", "temp"} -> (SUBSET IptNets) \cup {Absent}]]
  BY DEF IptInv, IptTypeOK
<1>4. /\ sets' = [sets EXCEPT ![g] = sets'[g]]
      /\ sets'[g] \in [{"base", "temp"} -> (SUBSET IptNets) \cup {Absent}]
      /\ sets'[g]["base"] = sets[g]["base"] /\ sets'[g]["temp"] = {}
  BY <1>2, <1>3 DEF FlushSet
<1>5. IptTypeOK'
  BY <1>3, <1>4 DEF IptInv, IptTypeOK, FlushSet, Goes
<1>6. FamilyInv(g) /\ ScriptInv
  BY DEF IptInv
<1>7. Filled(g)'
  <2>1. Filled(g)
    BY <1>2, <1>6 DEF FamilyInv
  <2>2. Has("flush", g)
    BY <1>1, <1>6, HasHead
  <2>3. ~Has("flush", g)'
    BY <1>1, <1>6, HasAfter DEF Place
  <2>4. (Has("add", g)' <=> Has("add", g)) /\ (Has("swap", g)' <=> Has("swap", g))
    BY <1>1, <1>6, HasKept
  <2>5. ToAdd(g)' = ToAdd(g)
    BY <1>1, <1>6, SameToAdd
  <2> QED
    BY <1>1, <1>4, <2>1, <2>2, <2>3, <2>4, <2>5 DEF Filled, Advances
<1>8. Chained(g) => Chained(g)'
  BY <1>1, <1>6, ChainedKept
<1>9. FamilyInv(g)'
  BY <1>1, <1>2, <1>4, <1>6, <1>7, <1>8 DEF FamilyInv, Whole, Advances, Emits
<1> QED
  BY <1>1, <1>3, <1>4, <1>5, <1>9, OneFamily

LEMMA AddNetKeeps ==
  ASSUME IptInv, AddNet, NEW g \in Families, g = Fam
  PROVE  IptInv'
<1>1. Advances /\ Head(script).do = "add" /\ UNCHANGED <<chain, jumps, ignored>>
  BY DEF AddNet, Now, Goes, Advances
<1>2. /\ iptJob.op = "apply" /\ iptJob.policy.ranges[g] # {}
      /\ \E n \in iptJob.policy.ranges[g] : Arg = <<"temp", n>>
  BY <1>1, HeadFills DEF IptInv, Advances, FillKinds
<1>3. PICK n \in iptJob.policy.ranges[g] : Arg = <<"temp", n>>
  BY <1>2
<1>4. FamilyInv(g) /\ ScriptInv
  BY DEF IptInv
<1>5. Filled(g)
  BY <1>2, <1>4 DEF FamilyInv
<1>6. Has("add", g) /\ ~Has("flush", g)' /\ (Has("swap", g)' <=> Has("swap", g))
      /\ (Has("flush", g)' <=> Has("flush", g)) /\ (Has("add", g)' => Has("add", g))
  BY <1>1, <1>4, HasHead, HasAfter, HasKept DEF Place
<1>7. Has("swap", g) /\ sets[g]["temp"] \in SUBSET iptJob.policy.ranges[g]
      /\ iptJob.policy.ranges[g] \subseteq sets[g]["temp"] \cup ToAdd(g)
  BY <1>5, <1>6 DEF Filled
<1>8. iptJob.policy.ranges[g] \in SUBSET IptNets
  BY IptAssumption DEF IptInv, IptTypeOK
<1>9. sets \in [Families -> [{"base", "temp"} -> (SUBSET IptNets) \cup {Absent}]]
  BY DEF IptInv, IptTypeOK
<1>10. /\ sets' = [sets EXCEPT ![g] = sets'[g]]
       /\ sets'[g] \in [{"base", "temp"} -> (SUBSET IptNets) \cup {Absent}]
       /\ sets'[g]["base"] = sets[g]["base"]
       /\ sets'[g]["temp"] = sets[g]["temp"] \cup {n}
  BY <1>3, <1>7, <1>8, <1>9 DEF AddNet
<1>11. IptTypeOK'
  BY <1>9, <1>10 DEF IptInv, IptTypeOK, AddNet, Goes
<1>12. ToAdd(g) \subseteq ToAdd(g)' \cup {n}
  BY <1>1, <1>3, <1>4, ToAddKept DEF Cmd, Arg
<1>13. Filled(g)'
  BY <1>1, <1>6, <1>7, <1>10, <1>12 DEF Filled, Advances
<1>14. Chained(g) => Chained(g)'
  BY <1>1, <1>4, ChainedKept
<1>15. FamilyInv(g)'
  BY <1>1, <1>2, <1>4, <1>10, <1>13, <1>14 DEF FamilyInv, Whole, Advances, Emits
<1> QED
  BY <1>1, <1>9, <1>10, <1>11, <1>15, OneFamily

LEMMA SwapSetsKeeps ==
  ASSUME IptInv, SwapSets, NEW g \in Families, g = Fam
  PROVE  IptInv'
<1>1. Advances /\ Head(script).do = "swap" /\ UNCHANGED <<chain, jumps, ignored>>
  BY DEF SwapSets, Now, Goes, Advances
<1>2. iptJob.op = "apply" /\ iptJob.policy.ranges[g] # {}
  BY <1>1, HeadFills DEF IptInv, Advances, FillKinds
<1>3. sets \in [Families -> [{"base", "temp"} -> (SUBSET IptNets) \cup {Absent}]]
  BY DEF IptInv, IptTypeOK
<1>4. /\ sets' = [sets EXCEPT ![g] = sets'[g]]
      /\ sets'[g]["base"] = sets[g]["temp"] /\ sets'[g]["temp"] = sets[g]["base"]
      /\ sets'[g] \in [{"base", "temp"} -> (SUBSET IptNets) \cup {Absent}]
  BY <1>3 DEF SwapSets
<1>5. IptTypeOK'
  BY <1>3, <1>4 DEF IptInv, IptTypeOK, SwapSets, Goes
<1>6. FamilyInv(g) /\ ScriptInv
  BY DEF IptInv
<1>7. Filled(g)
  BY <1>2, <1>6 DEF FamilyInv
<1>8. Has("swap", g) /\ ~Has("swap", g)' /\ ~Has("flush", g)' /\ ~Has("add", g)'
  BY <1>1, <1>6, HasHead, HasAfter DEF Place
<1>9. ~Has("flush", g) /\ ~Has("add", g)
  BY <1>1, <1>6, <1>8, HasKept
<1>10. ToAdd(g) = {}
  BY <1>9 DEF ToAdd, Has, Cmd
<1>11. sets[g]["temp"] = iptJob.policy.ranges[g]
  BY <1>7, <1>8, <1>9, <1>10 DEF Filled
<1>12. Filled(g)'
  BY <1>1, <1>4, <1>8, <1>11 DEF Filled, Advances
<1>13. Chained(g) => Chained(g)'
  BY <1>1, <1>6, ChainedKept
<1>14. Whole(g)'
  BY <1>4, <1>11 DEF Whole, IptInv, IptTypeOK
<1>15. FamilyInv(g)'
  BY <1>1, <1>2, <1>6, <1>12, <1>13, <1>14 DEF FamilyInv, Advances, Emits
<1> QED
  BY <1>1, <1>3, <1>4, <1>5, <1>15, OneFamily

LEMMA DestroySetKeeps ==
  ASSUME IptInv, DestroySet, NEW g \in Families, g = Fam
  PROVE  IptInv'
<1>1. /\ Advances /\ Head(script).do \in {"destroy", "tryDestroy"}
      /\ UNCHANGED <<chain, jumps, ignored>>
  BY DEF DestroySet, Now, Goes, Advances
<1>2. sets \in [Families -> [{"base", "temp"} -> (SUBSET IptNets) \cup {Absent}]]
  BY DEF IptInv, IptTypeOK
<1>3. FamilyInv(g) /\ ScriptInv /\ IptTypeOK
  BY DEF IptInv
<1>4. Chained(g) => Chained(g)'
  BY <1>1, <1>3, ChainedKept
<1>5. CASE Head(script).do = "destroy"
  <2>1. iptJob.op = "apply" /\ iptJob.policy.ranges[g] # {} /\ Arg = "temp"
    BY <1>1, <1>3, <1>5, HeadFills DEF Advances, FillKinds
  <2>2. /\ sets' = [sets EXCEPT ![g] = sets'[g]]
        /\ sets'[g]["base"] = sets[g]["base"]
        /\ sets'[g] \in [{"base", "temp"} -> (SUBSET IptNets) \cup {Absent}]
    BY <1>2, <2>1 DEF DestroySet
  <2>3. IptTypeOK'
    BY <1>2, <1>3, <2>2 DEF IptTypeOK, DestroySet, Goes
  <2>4. ~Has("swap", g)
    <3>1. ~Has("swap", g)'
      BY <1>1, <1>3, <1>5, HasAfter DEF Place
    <3> QED
      BY <1>1, <1>3, <1>5, <3>1, HasKept
  <2>5. Filled(g)'
    BY <1>1, <1>3, <1>5, <2>1, <2>2, <2>4, FilledKept DEF FamilyInv
  <2>6. FamilyInv(g)'
    BY <1>1, <1>3, <1>4, <2>1, <2>2, <2>5 DEF FamilyInv, Whole, Advances, Emits
  <2> QED
    BY <1>1, <1>2, <2>2, <2>3, <2>6, OneFamily
<1>6. CASE Head(script).do = "tryDestroy"
  <2>1. iptJob.op = "remove" /\ Arg = "base"
    BY <1>1, <1>3, <1>6, HeadDetaches DEF Advances, DetachKinds
  <2>2. /\ sets' = [sets EXCEPT ![g] = sets'[g]]
        /\ sets'[g]["base"] = Absent
        /\ sets'[g] \in [{"base", "temp"} -> (SUBSET IptNets) \cup {Absent}]
    BY <1>2, <2>1 DEF DestroySet
  <2>3. IptTypeOK'
    BY <1>2, <1>3, <2>2 DEF IptTypeOK, DestroySet, Goes
  <2>4. Detached(g) => Detached(g)'
    <3>1. /\ Has("dropJump", g)' <=> Has("dropJump", g)
          /\ Has("tryFlushChain", g)' <=> Has("tryFlushChain", g)
          /\ Has("deleteChain", g)' <=> Has("deleteChain", g)
      BY <1>1, <1>3, <1>6, HasKept
    <3> QED
      BY <1>1, <2>2, <3>1 DEF Detached
  <2>5. FamilyInv(g)'
    BY <1>1, <1>3, <2>1, <2>2, <2>4 DEF FamilyInv, Whole, Advances
  <2> QED
    BY <1>1, <1>2, <2>2, <2>3, <2>5, OneFamily
<1> QED
  BY <1>1, <1>5, <1>6

LEMMA NewChainKeeps ==
  ASSUME IptInv, NewChain, NEW g \in Families, g = Fam
  PROVE  IptInv'
<1>1. /\ Advances /\ Head(script).do = "newChain" /\ UNCHANGED <<sets, jumps, ignored>>
      /\ chain[g] = Absent /\ chain' = [chain EXCEPT ![g] = {}]
  BY DEF NewChain, Now, Goes, Advances
<1>2. FamilyInv(g) /\ ScriptInv /\ IptTypeOK
  BY DEF IptInv
<1>3. iptJob.op = "apply" /\ Emits(iptJob.policy, g)
  BY <1>1, <1>2, HeadChains DEF Advances, ChainKinds
<1>4. IptTypeOK' /\ chain'[g] = {}
  BY <1>1, <1>2 DEF IptTypeOK, NewChain, Goes
<1>5. RuleOf(iptJob.policy, g) \in Rules /\ Absent # {} /\ Absent \notin SUBSET Rules
  BY IptAssumption DEF RuleOf, Rules
<1>6. Has("flushChain", g) /\ Has("append", g) /\ (~Has("ensureJump", g) => jumps[g] > 0)
  BY <1>1, <1>2, <1>3, <1>5 DEF FamilyInv, Chained
<1>7. /\ Has("flushChain", g)' <=> Has("flushChain", g)
      /\ Has("append", g)' <=> Has("append", g)
      /\ Has("ensureJump", g)' <=> Has("ensureJump", g)
  BY <1>1, <1>2, HasKept
<1>8. Chained(g)'
  BY <1>1, <1>6, <1>7 DEF Chained
<1>9. Filled(g) => Filled(g)'
  BY <1>1, <1>2, FilledKept
<1>10. FamilyInv(g)'
  BY <1>1, <1>2, <1>3, <1>8, <1>9 DEF FamilyInv, Whole, Advances, Emits
<1> QED
  BY <1>1, <1>4, <1>10, OneFamily DEF IptInv, IptTypeOK

LEMMA FlushChainKeeps ==
  ASSUME IptInv, FlushChain, NEW g \in Families, g = Fam
  PROVE  IptInv'
<1>1. /\ Advances /\ Head(script).do \in {"flushChain", "tryFlushChain"}
      /\ UNCHANGED <<sets, jumps, ignored>>
      /\ chain[g] # Absent /\ chain' = [chain EXCEPT ![g] = {}]
  BY DEF FlushChain, Now, Goes, Advances
<1>2. FamilyInv(g) /\ ScriptInv /\ IptTypeOK
  BY DEF IptInv
<1>3. IptTypeOK' /\ chain'[g] = {}
  BY <1>1, <1>2 DEF IptTypeOK, FlushChain, Goes
<1>4. Filled(g) => Filled(g)'
  BY <1>1, <1>2, FilledKept
<1>5. FamilyInv(g)'
  <2>1. CASE Head(script).do = "flushChain"
    <3>1. iptJob.op = "apply" /\ Emits(iptJob.policy, g)
      BY <1>1, <1>2, <2>1, HeadChains DEF Advances, ChainKinds
    <3>2. Has("flushChain", g)
      BY <1>1, <1>2, <2>1, HasHead
    <3>3. /\ Has("append", g)' <=> Has("append", g)
          /\ Has("ensureJump", g)' <=> Has("ensureJump", g)
      BY <1>1, <1>2, <2>1, HasKept
    <3>4. Chained(g)'
      BY <1>1, <1>2, <1>3, <3>1, <3>2, <3>3 DEF FamilyInv, Chained
    <3> QED
      BY <1>1, <1>2, <1>4, <3>1, <3>4 DEF FamilyInv, Whole, Advances, Emits
  <2>2. CASE Head(script).do = "tryFlushChain"
    <3>1. iptJob.op = "remove"
      BY <1>1, <1>2, <2>2, HeadDetaches DEF Advances, DetachKinds
    <3>2. /\ Has("dropJump", g)' <=> Has("dropJump", g)
          /\ Has("deleteChain", g)' <=> Has("deleteChain", g)
          /\ Has("tryDestroy", g)' <=> Has("tryDestroy", g)
      BY <1>1, <1>2, <2>2, HasKept
    <3>3. Detached(g) => Detached(g)'
      BY <1>1, <1>3, <3>2 DEF Detached
    <3> QED
      BY <1>1, <1>2, <3>1, <3>3 DEF FamilyInv, Whole, Advances
  <2> QED
    BY <1>1, <2>1, <2>2
<1> QED
  BY <1>1, <1>3, <1>5, OneFamily DEF IptInv, IptTypeOK

LEMMA AppendRuleKeeps ==
  ASSUME IptInv, AppendRule, NEW g \in Families, g = Fam
  PROVE  IptInv'
<1>1. /\ Advances /\ Head(script).do = "append" /\ UNCHANGED <<sets, jumps, ignored>>
      /\ chain' = [chain EXCEPT ![g] = @ \cup {Arg}]
  BY DEF AppendRule, Now, Goes, Advances
<1>2. FamilyInv(g) /\ ScriptInv /\ IptTypeOK
  BY DEF IptInv
<1>3. iptJob.op = "apply" /\ Emits(iptJob.policy, g) /\ Arg = RuleOf(iptJob.policy, g)
  BY <1>1, <1>2, HeadChains DEF Advances, ChainKinds
<1>4. ~Has("flushChain", g)
  <2>1. ~Has("flushChain", g)'
    BY <1>1, <1>2, HasAfter DEF Place
  <2> QED
    BY <1>1, <1>2, <2>1, HasKept
<1>5. Has("append", g) /\ ~Has("append", g)'
  <2>1. Has("append", g)
    BY <1>1, <1>2, HasHead
  <2>2. ~Has("append", g)'
    BY <1>1, <1>2, HasAfter DEF Place
  <2> QED
    BY <2>1, <2>2
<1>6. chain[g] = {}
  BY <1>2, <1>3, <1>4, <1>5 DEF FamilyInv, Chained
<1>7. chain'[g] = {RuleOf(iptJob.policy, g)} /\ RuleOf(iptJob.policy, g) \in Rules
  BY <1>1, <1>2, <1>3, <1>6 DEF IptTypeOK, RuleOf, Rules
<1>8. IptTypeOK'
  <2>1. chain' \in [Families -> (SUBSET Rules) \cup {Absent}]
    BY <1>1, <1>2, <1>7 DEF IptTypeOK
  <2> QED
    BY <1>2, <2>1 DEF IptTypeOK, AppendRule, Goes
<1>9. /\ Has("flushChain", g)' <=> Has("flushChain", g)
      /\ Has("ensureJump", g)' <=> Has("ensureJump", g)
  BY <1>1, <1>2, HasKept
<1>10. RuleOf(iptJob.policy, g)' = RuleOf(iptJob.policy, g)
  BY <1>1 DEF RuleOf, Advances
<1>11. Chained(g)'
  BY <1>1, <1>2, <1>3, <1>4, <1>5, <1>7, <1>9, <1>10 DEF FamilyInv, Chained
<1>12. Filled(g) => Filled(g)'
  BY <1>1, <1>2, FilledKept
<1>13. FamilyInv(g)'
  BY <1>1, <1>2, <1>3, <1>11, <1>12 DEF FamilyInv, Whole, Advances, Emits
<1> QED
  BY <1>1, <1>8, <1>13, OneFamily DEF IptInv, IptTypeOK

LEMMA EnsureJumpKeeps ==
  ASSUME IptInv, EnsureJump, NEW g \in Families, g = Fam
  PROVE  IptInv'
<1>1. /\ Advances /\ Head(script).do = "ensureJump" /\ UNCHANGED <<sets, chain>>
      /\ ignored => ignored'
  BY DEF EnsureJump, Now, Goes, Advances, IptInv, IptTypeOK
<1>2. FamilyInv(g) /\ ScriptInv /\ IptTypeOK
  BY DEF IptInv
<1>3. iptJob.op = "apply" /\ Emits(iptJob.policy, g)
  BY <1>1, <1>2, HeadChains DEF Advances, ChainKinds
<1>4. jumps[g] \in 0 .. MaxJumps /\ MaxJumps \in Nat \ {0}
  BY <1>2, IptAssumption DEF IptTypeOK
<1>5. /\ jumps' = [jumps EXCEPT ![g] = jumps'[g]] /\ jumps'[g] \in 1 .. MaxJumps
      /\ ~ignored' => jumps'[g] <= 1 \/ jumps'[g] = jumps[g]
  BY <1>2, <1>4 DEF EnsureJump, Goes, IptTypeOK
<1>6. IptTypeOK'
  <2>1. jumps' \in [Families -> 0 .. MaxJumps]
    BY <1>2, <1>4, <1>5 DEF IptTypeOK
  <2>2. UNCHANGED iptOutcome /\ (iptFaults' = iptFaults \/ iptFaults' = iptFaults + 1)
    BY DEF EnsureJump, Goes
  <2>3. ignored' \in BOOLEAN
    BY <1>2, Zenon DEF EnsureJump, Goes, IptTypeOK
  <2> QED
    BY <1>1, <1>2, <2>1, <2>2, <2>3 DEF IptTypeOK, Advances
<1>7. /\ Has("flushChain", g)' <=> Has("flushChain", g)
      /\ Has("append", g)' <=> Has("append", g)
  BY <1>1, <1>2, HasKept
<1>8. RuleOf(iptJob.policy, g)' = RuleOf(iptJob.policy, g)
  BY <1>1 DEF RuleOf, Advances
<1>9. Chained(g)'
  BY <1>1, <1>2, <1>3, <1>5, <1>7, <1>8 DEF FamilyInv, Chained
<1>10. Filled(g) => Filled(g)'
  BY <1>1, <1>2, FilledKept
<1>11. FamilyInv(g)'
  BY <1>1, <1>2, <1>3, <1>5, <1>9, <1>10 DEF FamilyInv, Whole, Advances, Emits
<1> QED
  BY <1>1, <1>5, <1>6, <1>11, OneFamily DEF IptInv, IptTypeOK

LEMMA DropJumpKeeps ==
  ASSUME IptInv, DropJump, NEW g \in Families, g = Fam
  PROVE  IptInv'
<1>1. /\ Advances /\ Head(script).do = "dropJump" /\ UNCHANGED <<sets, chain, ignored>>
      /\ jumps[g] > 0 /\ jumps' = [jumps EXCEPT ![g] = @ - 1]
  BY DEF DropJump, Now, Goes, Advances
<1>2. FamilyInv(g) /\ ScriptInv /\ IptTypeOK
  BY DEF IptInv
<1>3. iptJob.op = "remove"
  BY <1>1, <1>2, HeadDetaches DEF Advances, DetachKinds
<1>4. jumps[g] \in 0 .. MaxJumps /\ MaxJumps \in Nat \ {0}
  BY <1>2, IptAssumption DEF IptTypeOK
<1>5. jumps'[g] = jumps[g] - 1 /\ jumps'[g] \in 0 .. MaxJumps
  BY <1>1, <1>2, <1>4 DEF IptTypeOK
<1>6. IptTypeOK'
  <2>1. jumps' \in [Families -> 0 .. MaxJumps]
    BY <1>1, <1>2, <1>5 DEF IptTypeOK
  <2> QED
    BY <1>2, <2>1 DEF IptTypeOK, DropJump, Goes
<1>7. /\ Has("tryFlushChain", g)' <=> Has("tryFlushChain", g)
      /\ Has("deleteChain", g)' <=> Has("deleteChain", g)
      /\ Has("tryDestroy", g)' <=> Has("tryDestroy", g)
  BY <1>1, <1>2, HasKept
<1>8. ~ignored => jumps'[g] = 0
  BY <1>1, <1>2, <1>4, <1>5 DEF FamilyInv
<1>9. ~ignored => Detached(g)'
  BY <1>1, <1>2, <1>3, <1>7, <1>8 DEF FamilyInv, Detached
<1>10. FamilyInv(g)'
  BY <1>1, <1>2, <1>3, <1>8, <1>9 DEF FamilyInv, Whole, Advances
<1> QED
  BY <1>1, <1>6, <1>10, OneFamily DEF IptInv, IptTypeOK

LEMMA DeleteChainKeeps ==
  ASSUME IptInv, DeleteChain, NEW g \in Families, g = Fam
  PROVE  IptInv'
<1>1. /\ Advances /\ Head(script).do = "deleteChain" /\ UNCHANGED <<sets, jumps, ignored>>
      /\ chain' = [chain EXCEPT ![g] = Absent]
  BY DEF DeleteChain, Now, Goes, Advances
<1>2. FamilyInv(g) /\ ScriptInv /\ IptTypeOK
  BY DEF IptInv
<1>3. iptJob.op = "remove"
  BY <1>1, <1>2, HeadDetaches DEF Advances, DetachKinds
<1>4. IptTypeOK' /\ chain'[g] = Absent
  BY <1>1, <1>2 DEF IptTypeOK, DeleteChain, Goes
<1>5. /\ Has("dropJump", g)' <=> Has("dropJump", g)
      /\ Has("tryFlushChain", g)' <=> Has("tryFlushChain", g)
      /\ Has("tryDestroy", g)' <=> Has("tryDestroy", g)
  BY <1>1, <1>2, HasKept
<1>6. Detached(g) => Detached(g)'
  BY <1>1, <1>4, <1>5 DEF Detached
<1>7. FamilyInv(g)'
  BY <1>1, <1>2, <1>3, <1>6 DEF FamilyInv, Whole, Advances
<1> QED
  BY <1>1, <1>4, <1>7, OneFamily DEF IptInv, IptTypeOK

-----------------------------------------------------------------------------
(* Failing commands, and the operations                                    *)

\* Without a script there is nothing ahead to rely on.
LEMMA NoScript ==
  ASSUME IptInv, script' = <<>>, iptJob' = [iptJob EXCEPT !.op = "none"],
         UNCHANGED <<sets, chain, jumps>>, ignored => ignored'
  PROVE  ScriptInv' /\ \A f \in Families : FamilyInv(f)'
<1>1. iptJob'.op = "none"
  BY DEF IptInv, IptTypeOK
<1>2. ScriptInv'
  BY DEF ScriptInv, Ordered
<1>3. ASSUME NEW f \in Families PROVE FamilyInv(f)'
  BY <1>1 DEF IptInv, FamilyInv, Whole
<1> QED
  BY <1>2, <1>3

\* A failure that a script ignores is one of a command that has nothing to do,
\* or it is noted.
LEMMA ToleratedFailureKeeps ==
  ASSUME IptInv, CommandFails, Head(script).do \in Tolerated, NEW g \in Families, g = Fam
  PROVE  IptInv'
<1>1. /\ Advances /\ UNCHANGED <<sets, chain, jumps, iptOutcome>>
      /\ ignored => ignored'
      /\ Impossible \/ ignored'
  <2>1. Advances /\ UNCHANGED <<sets, chain, jumps, iptOutcome>>
    BY DEF CommandFails, Advances
  <2>2. (Impossible /\ ignored' = ignored) \/ ignored' = (ignored \/ Head(script).do \in Tolerated)
    BY DEF CommandFails
  <2>3. (ignored \/ Head(script).do \in Tolerated) = TRUE
    OBVIOUS
  <2>4. (Impossible /\ ignored' = ignored) \/ ignored' = TRUE
    BY <2>2, <2>3
  <2> QED
    BY <2>1, <2>4
<1>2. FamilyInv(g) /\ ScriptInv /\ IptTypeOK
  BY DEF IptInv
<1>3. IptTypeOK'
  <2>1. iptFaults' = iptFaults \/ iptFaults' = iptFaults + 1
    BY DEF CommandFails
  <2>2. ignored' \in BOOLEAN
    BY <1>2, Zenon DEF CommandFails, IptTypeOK
  <2> QED
    BY <1>1, <1>2, <2>1, <2>2 DEF IptTypeOK, Advances
<1>4. (Chained(g) => Chained(g)') /\ (Filled(g) => Filled(g)')
  BY <1>1, <1>2, ChainedKept, FilledKept DEF Tolerated
<1>5. iptJob.op = "remove" /\ ~ignored' => Detached(g)'
  <2> SUFFICES ASSUME iptJob.op = "remove", ~ignored' PROVE Detached(g)'
    OBVIOUS
  <2> DEFINE do == Head(script).do
  <2>1. Impossible /\ Detached(g)
    BY <1>1, <1>2 DEF FamilyInv
  <2>2. do \in DetachKinds /\ (do = "tryDestroy" => Arg = "base")
    BY <1>1, <1>2, HeadKinds, HeadFills, HeadChains, HeadDetaches DEF Advances
  <2>3. /\ do # "dropJump" => (Has("dropJump", g)' <=> Has("dropJump", g))
        /\ do # "tryFlushChain" => (Has("tryFlushChain", g)' <=> Has("tryFlushChain", g))
        /\ do # "deleteChain" => (Has("deleteChain", g)' <=> Has("deleteChain", g))
        /\ do # "tryDestroy" => (Has("tryDestroy", g)' <=> Has("tryDestroy", g))
    BY <1>1, <1>2, HasKept
  <2>4. CASE do = "dropJump"
    <3>1. jumps[g] = 0
      BY <2>1, <2>4 DEF Impossible, Now
    <3> QED
      BY <1>1, <2>1, <2>3, <2>4, <3>1 DEF Detached
  <2>5. CASE do = "tryFlushChain"
    <3>1. chain[g] = Absent
      BY <2>1, <2>5 DEF Impossible, Now
    <3> QED
      BY <1>1, <2>1, <2>3, <2>5, <3>1 DEF Detached
  <2>6. CASE do = "deleteChain"
    <3>1. ~Has("dropJump", g)' /\ ~Has("tryFlushChain", g)'
      BY <1>1, <1>2, <2>6, HasAfter DEF Place
    <3>2. jumps[g] = 0 /\ chain[g] \in {Absent, {}}
      BY <2>1, <2>3, <2>6, <3>1 DEF Detached
    <3>3. chain[g] = Absent
      BY <2>1, <2>6, <3>2 DEF Impossible, Now
    <3> QED
      BY <1>1, <2>1, <2>3, <2>6, <3>3 DEF Detached
  <2>7. CASE do = "tryDestroy"
    <3>1. ~Has("deleteChain", g)'
      BY <1>1, <1>2, <2>7, HasAfter DEF Place
    <3>2. chain[g] = Absent
      BY <2>1, <2>3, <2>7, <3>1 DEF Detached
    <3>3. sets[g]["base"] = Absent
      BY <2>1, <2>2, <2>7, <3>2 DEF Impossible, Now, Referred
    <3> QED
      BY <1>1, <2>1, <2>3, <2>7, <3>3 DEF Detached
  <2> QED
    BY <2>2, <2>4, <2>5, <2>6, <2>7 DEF DetachKinds
<1>6. FamilyInv(g)'
  BY <1>1, <1>2, <1>4, <1>5 DEF FamilyInv, Whole, Advances, Emits
<1> QED
  BY <1>1, <1>3, <1>6, OneFamily

LEMMA CommandFailsKeeps ==
  ASSUME IptInv, CommandFails
  PROVE  IptInv'
<1>1. CASE Head(script).do \in Tolerated
  <2>1. Fam \in Families
    BY HeadIsTyped DEF IptInv, CommandFails
  <2> QED
    BY <1>1, <2>1, ToleratedFailureKeeps
<1>2. CASE Head(script).do \notin Tolerated
  <2>1. /\ EndScript("error", FALSE) /\ UNCHANGED <<sets, chain, jumps>>
        /\ ignored' = ignored /\ (iptFaults' = iptFaults \/ iptFaults' = iptFaults + 1)
    BY <1>2 DEF CommandFails, IptInv, IptTypeOK
  <2>2. IptTypeOK'
    BY <2>1 DEF IptInv, IptTypeOK, EndScript
  <2> QED
    BY <2>1, <2>2, NoScript DEF EndScript, IptInv
<1> QED
  BY <1>1, <1>2

LEMMA IptApplyKeeps ==
  ASSUME IptInv, IptApply
  PROVE  IptInv'
<1>1. PICK p \in IptPolicies : StartScript("apply", p, ApplyScript(p))
  BY DEF IptApply
<1>2. /\ iptJob' = [op |-> "apply", policy |-> p] /\ script' = ApplyScript(p)
      /\ UNCHANGED <<sets, chain, jumps, iptOutcome, iptFaults, ignored>>
  BY <1>1 DEF StartScript
<1>3. Runs(script', CommandsOf(iptJob'))
  BY <1>2, ApplyScriptRuns
<1>4. ScriptInv'
  BY <1>3 DEF ScriptInv, Runs, Ordered, MayPrecede, CommandsOf, EmitCommands, DetachCommands, Emits
<1>5. IptTypeOK'
  BY <1>2 DEF IptInv, IptTypeOK
<1>6. Ahead' = CommandsOf(iptJob')
  BY <1>3 DEF Runs, Ahead, Range
<1>7. ASSUME NEW f \in Families PROVE FamilyInv(f)'
  <2>1. EmitCommands(p, f) \subseteq Ahead'
    BY <1>2, <1>6 DEF CommandsOf
  <2>2. ASSUME Emits(p, f) PROVE Chained(f)'
    <3>1. {Cmd("flushChain", f, Absent), Cmd("append", f, RuleOf(p, f)),
           Cmd("ensureJump", f, Absent)} \subseteq Ahead'
      BY <2>1, <2>2 DEF EmitCommands, ChainCommands
    <3>2. Has("flushChain", f)' /\ Has("append", f)' /\ Has("ensureJump", f)'
      BY <3>1 DEF Has, Cmd
    <3> QED
      BY <3>2 DEF Chained
  <2>3. ASSUME p.ranges[f] # {} PROVE Filled(f)'
    <3>1. FillCommands(f, p.ranges[f]) \subseteq Ahead'
      BY <2>1, <2>3 DEF EmitCommands, Emits
    <3>2. Has("flush", f)' /\ Has("swap", f)'
      BY <3>1 DEF Has, Cmd, FillCommands
    <3>3. ToAdd(f)' = p.ranges[f]
      BY <1>2, <3>1 DEF ToAdd, FillCommands
    <3> QED
      BY <1>2, <3>2, <3>3 DEF Filled
  <2> QED
    BY <1>2, <2>2, <2>3 DEF IptInv, FamilyInv, Whole, Emits
<1> QED
  BY <1>4, <1>5, <1>7 DEF IptInv

LEMMA IptRemoveKeeps ==
  ASSUME IptInv, IptRemove
  PROVE  IptInv'
<1>1. /\ iptJob' = [op |-> "remove", policy |-> iptJob.policy] /\ script' = RemoveScript
      /\ UNCHANGED <<sets, chain, jumps, iptOutcome, iptFaults, ignored>>
  BY DEF IptRemove, StartScript
<1>2. Runs(script', CommandsOf(iptJob'))
  BY <1>1, RemoveScriptRuns
<1>3. ScriptInv'
  BY <1>2 DEF ScriptInv, Runs, Ordered, MayPrecede, CommandsOf, EmitCommands, DetachCommands, Emits
<1>4. IptTypeOK'
  BY <1>1 DEF IptInv, IptTypeOK
<1>5. Ahead' = CommandsOf(iptJob')
  BY <1>2 DEF Runs, Ahead, Range
<1>6. ASSUME NEW f \in Families PROVE FamilyInv(f)'
  <2>1. DetachCommands(f) \subseteq Ahead'
    BY <1>1, <1>5 DEF CommandsOf
  <2>2. /\ Has("dropJump", f)' /\ Has("tryFlushChain", f)'
        /\ Has("deleteChain", f)' /\ Has("tryDestroy", f)'
    BY <2>1 DEF Has, DetachCommands, Cmd
  <2>3. Detached(f)'
    BY <2>2 DEF Detached
  <2> QED
    BY <1>1, <2>3 DEF IptInv, FamilyInv, Whole
<1> QED
  BY <1>3, <1>4, <1>6 DEF IptInv

LEMMA EndKeeps ==
  ASSUME IptInv, IptDone \/ IptKilled
  PROVE  IptInv'
<1>1. /\ script' = <<>> /\ iptJob' = [iptJob EXCEPT !.op = "none"]
      /\ UNCHANGED <<sets, chain, jumps, ignored>>
      /\ iptFaults' = iptFaults \/ iptFaults' = iptFaults + 1
      /\ iptOutcome' \in [kind : {"applied", "removed", "crashed"}, ok : BOOLEAN]
  <2>1. CASE IptDone    BY <2>1 DEF IptDone, EndScript
  <2>2. CASE IptKilled  BY <2>2 DEF IptKilled, EndScript
  <2> QED  BY <2>1, <2>2
<1>2. IptTypeOK'
  BY <1>1 DEF IptInv, IptTypeOK
<1> QED
  BY <1>1, <1>2, NoScript DEF IptInv

\* The invariant does not depend on the outcome.
LEMMA IptStutterKeeps ==
  ASSUME IptInv, IptNotStarted \/ IptDryRun \/ UNCHANGED iptVars
  PROVE  IptInv'
<1>1. /\ UNCHANGED <<sets, chain, jumps, script, iptJob, ignored>>
      /\ iptFaults' = iptFaults \/ iptFaults' = iptFaults + 1
      /\ \/ iptOutcome' = iptOutcome
         \/ iptOutcome' \in [kind : {"error", "dryRun"}, ok : BOOLEAN]
  <2>1. CASE IptNotStarted       BY <2>1 DEF IptNotStarted
  <2>2. CASE IptDryRun           BY <2>2 DEF IptDryRun
  <2>3. CASE UNCHANGED iptVars   BY <2>3 DEF iptVars
  <2> QED  BY <2>1, <2>2, <2>3
<1>2. IptTypeOK'
  BY <1>1 DEF IptInv, IptTypeOK
<1>3. CommandsOf(iptJob)' = CommandsOf(iptJob)
  BY <1>1 DEF CommandsOf, EmitCommands, DetachCommands, Emits
<1>4. ScriptInv'
  BY <1>1, <1>3 DEF IptInv, ScriptInv, Ordered, MayPrecede
<1>5. ASSUME NEW f \in Families PROVE FamilyInv(f)'
  <2>1. \A do : Has(do, f)' <=> Has(do, f)
    BY <1>1 DEF Has, Ahead, Range
  <2>2. ToAdd(f)' = ToAdd(f)
    BY <1>1 DEF ToAdd, Ahead, Range
  <2>3. Emits(iptJob.policy, f)' = Emits(iptJob.policy, f)
        /\ RuleOf(iptJob.policy, f)' = RuleOf(iptJob.policy, f)
    BY <1>1 DEF Emits, RuleOf
  <2>4. Chained(f) => Chained(f)'
    BY <1>1, <2>1, <2>3 DEF Chained
  <2>5. Filled(f) => Filled(f)'
    BY <1>1, <2>1, <2>2 DEF Filled
  <2>6. Detached(f) => Detached(f)'
    BY <1>1, <2>1 DEF Detached
  <2> QED
    BY <1>1, <2>3, <2>4, <2>5, <2>6 DEF IptInv, FamilyInv, Whole
<1> QED
  BY <1>2, <1>4, <1>5 DEF IptInv

LEMMA IptInvInit == IptInit => IptInv
<1> SUFFICES ASSUME IptInit PROVE IptInv
  OBVIOUS
<1>1. IptTypeOK
  <2>1. sets \in [Families -> [{"base", "temp"} -> (SUBSET IptNets) \cup {Absent}]]
    BY DEF IptInit
  <2>2. /\ chain \in [Families -> (SUBSET Rules) \cup {Absent}]
        /\ jumps \in [Families -> 0 .. MaxJumps]
    BY IptAssumption DEF IptInit
  <2>3. /\ iptJob \in [op : {"none", "apply", "remove"}, policy : IptPolicies]
        /\ iptOutcome \in [kind : {"none", "applied", "removed", "error", "crashed", "dryRun"},
                           ok : BOOLEAN]
        /\ iptFaults \in Nat /\ ignored \in BOOLEAN
    BY DEF IptInit
  <2> QED
    BY <2>1, <2>2, <2>3 DEF IptTypeOK
<1>2. ScriptInv
  BY DEF IptInit, ScriptInv, Ordered
<1>3. ASSUME NEW f \in Families PROVE FamilyInv(f)
  BY DEF IptInit, FamilyInv, Whole
<1> QED
  BY <1>1, <1>2, <1>3 DEF IptInv

\* Every step of the engine preserves the invariant.
LEMMA IptInvNext == IptInv /\ [IptNext]_iptVars => IptInv'
<1> SUFFICES ASSUME IptInv, [IptNext]_iptVars PROVE IptInv'
  OBVIOUS
<1>1. CASE Command
  <2>1. Fam \in Families
    BY <1>1, HeadIsTyped DEF IptInv, Command, Now, CreateSet, FlushSet, AddNet, SwapSets,
       DestroySet, NewChain, FlushChain, AppendRule, EnsureJump, DropJump, DeleteChain
  <2> QED
    BY <1>1, <2>1, CreateSetKeeps, FlushSetKeeps, AddNetKeeps, SwapSetsKeeps, DestroySetKeeps,
       NewChainKeeps, FlushChainKeeps, AppendRuleKeeps, EnsureJumpKeeps, DropJumpKeeps,
       DeleteChainKeeps DEF Command
<1> QED
  BY <1>1, IptApplyKeeps, IptRemoveKeeps, EndKeeps, IptStutterKeeps, CommandFailsKeeps DEF IptNext

-----------------------------------------------------------------------------
(* The theorems                                                            *)

\* The invariant holds in every reachable state: what a script has still to run
\* says how far the sets, the chain and the jump have got (iptables.go:46-113).
THEOREM IptInductive == IptSpec => []IptInv
  BY IptInvInit, IptInvNext, PTL DEF IptSpec

\* The state of the engine is well typed: a temporary set exists when ranges
\* are added to it, INPUT never jumps to the chain more than MaxJumps times.
THEOREM IptTypeCorrect == IptSpec => []IptTypeOK
<1>1. IptInv => IptTypeOK
  BY DEF IptInv
<1> QED
  BY <1>1, IptInductive, PTL

\* The set that rules refer to is never a part of a list, however many scripts
\* failed or were killed half way.
THEOREM IptSetsAreWhole == IptSpec => []SetsAreWhole
<1>1. IptInv => SetsAreWhole
  BY DEF IptInv, FamilyInv, Whole, SetsAreWhole
<1> QED
  BY <1>1, IptInductive, PTL

LEMMA IptEnds ==
  ASSUME IptInv, [IptNext]_iptVars, iptJob.op # "none", iptJob'.op = "none", iptOutcome'.ok
  PROVE  script = <<>> /\ UNCHANGED <<sets, chain, jumps>>
<1>1. ~Advances
  BY DEF Advances
<1>2. ~Command
  BY <1>1 DEF Command, Now, Goes, Advances, CreateSet, FlushSet, AddNet, SwapSets, DestroySet,
     NewChain, FlushChain, AppendRule, EnsureJump, DropJump, DeleteChain
<1>3. ~CommandFails
  BY <1>1 DEF CommandFails, Advances, EndScript
<1>4. ~(IptApply \/ IptRemove \/ IptNotStarted \/ IptDryRun \/ IptKilled \/ UNCHANGED iptVars)
  BY DEF IptApply, IptRemove, StartScript, IptNotStarted, IptDryRun, IptKilled, EndScript, iptVars
<1>5. IptDone
  BY <1>2, <1>3, <1>4 DEF IptNext
<1> QED
  BY <1>5 DEF IptDone

LEMMA NothingAhead ==
  ASSUME script = <<>>
  PROVE  \A do, f : ~Has(do, f)
  BY DEF Has, Ahead, Range

\* A removal that reports success has detached the target, unless one of its
\* failures was ignored.
THEOREM IptRemoveDetaches == IptSpec => RemoveDetaches
<1> DEFINE Detaching == iptJob.op = "remove" /\ iptJob'.op = "none" /\ iptOutcome'.ok /\ ~ignored =>
                          \A f \in Families :
                            chain[f] = Absent /\ jumps[f] = 0 /\ sets[f]["base"] = Absent
<1>1. IptInv /\ [IptNext]_iptVars => Detaching
  <2> SUFFICES ASSUME IptInv, [IptNext]_iptVars, iptJob.op = "remove", iptJob'.op = "none",
                      iptOutcome'.ok, ~ignored, NEW f \in Families
               PROVE  chain[f] = Absent /\ jumps[f] = 0 /\ sets[f]["base"] = Absent
    OBVIOUS
  <2>1. script = <<>>
    BY IptEnds
  <2>2. Detached(f)
    BY DEF IptInv, FamilyInv
  <2> QED
    BY <2>1, <2>2, NothingAhead DEF Detached
<1> QED
  BY <1>1, IptInductive, PTL DEF RemoveDetaches, IptSpec

LEMMA EmittedFamilyConverges ==
  ASSUME IptInv, [IptNext]_iptVars, iptJob.op = "apply", iptJob'.op = "none", iptOutcome'.ok,
         NEW f \in Families, Emits(iptJob.policy, f)
  PROVE  Dropped(f)' = ToDrop(iptJob.policy, f)
<1> DEFINE p == iptJob.policy
<1>1. script = <<>> /\ UNCHANGED <<sets, chain, jumps>>
  BY IptEnds
<1>2. p \in IptPolicies /\ p.mode \in {"allow", "deny"} /\ p.ranges[f] \in SUBSET IptNets
  BY IptAssumption DEF IptInv, IptTypeOK
<1>3. Chained(f) /\ (p.ranges[f] # {} => Filled(f))
  BY DEF IptInv, FamilyInv
<1>4. /\ jumps[f] > 0 /\ chain[f] = {RuleOf(p, f)}
      /\ p.ranges[f] # {} => sets[f]["base"] = p.ranges[f]
  BY <1>1, <1>3, NothingAhead DEF Chained, Filled
<1>5. jumps[f] # 0 /\ chain[f] # Absent
  BY <1>2, <1>4, IptAssumption DEF IptInv, IptTypeOK, RuleOf, Rules
<1>6. Dropped(f) = ToDrop(p, f)
  <2>1. CASE p.mode = "deny"
    BY <1>2, <1>4, <1>5, <2>1 DEF Dropped, ToDrop, RuleOf, Emits
  <2>2. CASE p.mode = "allow" /\ p.ranges[f] = {}
    BY <1>4, <1>5, <2>2 DEF Dropped, ToDrop, RuleOf
  <2>3. CASE p.mode = "allow" /\ p.ranges[f] # {}
    BY <1>4, <1>5, <2>3 DEF Dropped, ToDrop, RuleOf
  <2> QED
    BY <1>2, <2>1, <2>2, <2>3
<1> QED
  BY <1>1, <1>6 DEF Dropped

\* An apply that reports success has put its policy into force, whatever the
\* scripts before it left behind, in every family that the script says
\* anything about.
THEOREM IptEmittedConverges ==
  IptSpec => [][iptJob.op = "apply" /\ iptJob'.op = "none" /\ iptOutcome'.ok =>
                  \A f \in Families : Emits(iptJob.policy, f) =>
                                        Dropped(f)' = ToDrop(iptJob.policy, f)]_iptVars
<1> DEFINE Converging == iptJob.op = "apply" /\ iptJob'.op = "none" /\ iptOutcome'.ok =>
                           \A f \in Families : Emits(iptJob.policy, f) =>
                                                 Dropped(f)' = ToDrop(iptJob.policy, f)
<1>1. IptInv /\ [IptNext]_iptVars => Converging
  BY EmittedFamilyConverges
<1> QED
  BY <1>1, IptInductive, PTL DEF IptSpec

\* So ApplyConverges holds of policies whose script says something about both
\* families: those without a deny list that is empty in one of them.
THEOREM IptApplyConverges ==
  ASSUME \A p \in IptPolicies, f \in Families : Emits(p, f)
  PROVE  IptSpec => ApplyConverges
<1> DEFINE Converging == iptJob.op = "apply" /\ iptJob'.op = "none" /\ iptOutcome'.ok =>
                           \A f \in Families : Dropped(f)' = ToDrop(iptJob.policy, f)
<1>1. IptInv /\ [IptNext]_iptVars => Converging
  BY EmittedFamilyConverges DEF IptInv, IptTypeOK
<1> QED
  BY <1>1, IptInductive, PTL DEF ApplyConverges, IptSpec
=============================================================================
