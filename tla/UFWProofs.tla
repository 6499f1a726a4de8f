------------------------------ MODULE UFWProofs ------------------------------
(***************************************************************************)
(* What the ufw scripts guarantee for every set of targets, tags and lists *)
(* and every number of faults and of the operator's commands: an apply     *)
(* that reports success leaves the target with the rules of its policy and *)
(* no other, an allow list turns the others away, and the rules of others  *)
(* are spared.  The list of rules is looked at through the set of the      *)
(* rules in it: no two of them have the same source.                       *)
(***************************************************************************)
EXTENDS UFW, FiniteSetTheorems, SequenceTheorems, WellFoundedInduction, TLAPS

-----------------------------------------------------------------------------
(* The inductive invariant                                                 *)

OnePerNet(s) == \A i, j \in DOMAIN s : s[i].net = s[j].net => i = j

TheRule(n) == [net |-> n, action |-> ufwJob.policy.mode, tag |-> ufwJob.target]
Kept == Range(rules)
Wanted == ufwJob.policy.nets

\* What is still to add: the whole list before the loop ends, part of it after.
TodoInv ==
  /\ ufwPc \in {"policy", "find", "delete"} /\ ufwJob.op = "apply" => Range(todo) = Wanted
  /\ ufwPc = "add" => ufwJob.op = "apply" /\ Range(todo) \subseteq Wanted

\* The number to delete is one that the tag was found at.
NumberInv == ufwPc = "delete" /\ "numbers" \notin meddled => num \in Found

\* The default policy that was asked for is still in force.
DefaultsInv ==
  /\ ufwPc \in {"find", "delete", "add"} /\ "defaults" \notin meddled
  /\ ufwJob.op = "apply" /\ ufwJob.policy.mode = "allow"
  => DenyConfirmed

\* The loop took every rule of the target away; since then the target has got
\* rules of the policy only, and all of them but those still to add.
AddedInv ==
  ufwPc = "add" /\ ~blind =>
    /\ \A r \in Kept : r.tag = ufwJob.target => r = TheRule(r.net) /\ r.net \in Wanted
    /\ \A n \in Wanted \ Range(todo) : TheRule(n) \in Kept

UfwInv == UfwTypeOK /\ TodoInv /\ NumberInv /\ DefaultsInv /\ AddedInv

-----------------------------------------------------------------------------
(* The list of rules                                                       *)

LEMMA ListIsOnto ==
  ASSUME NEW S, IsFiniteSet(S)
  PROVE  SetToSeq(S) \in Seq(S) /\ Range(SetToSeq(S)) = S
<1> DEFINE D == 1 .. Cardinality(S)
<1>1. Cardinality(S) \in Nat /\ ExistsBijection(D, S)
  BY FS_CardinalityType
<1>2. PICK g \in Bijection(D, S) : TRUE
  BY <1>1 DEF ExistsBijection
<1>3. g \in [D -> S] /\ IsInjective(g)
  BY <1>2 DEF Bijection, Injection
<1>4. SetToSeq(S) \in [D -> S] /\ IsInjective(SetToSeq(S))
  BY <1>3 DEF SetToSeq
<1>5. SetToSeq(S) \in Injection(D, S)
  BY <1>4 DEF Injection
<1>6. Cardinality(D) = Cardinality(S)
  BY <1>1, FS_Interval
<1>7. SetToSeq(S) \in Surjection(D, S)
  BY <1>5, <1>6, FS_Injection
<1>8. \A x \in S : \E i \in D : SetToSeq(S)[i] = x
  BY <1>7 DEF Surjection
<1>9. SetToSeq(S) \in Seq(S)
  BY <1>1, <1>4
<1> QED
  BY <1>4, <1>8, <1>9 DEF Range

LEMMA RemoveAtElements ==
  ASSUME NEW S, NEW s \in Seq(S), NEW i \in DOMAIN s
  PROVE  /\ RemoveAt(s, i) \in Seq(S)
         /\ DOMAIN RemoveAt(s, i) = 1 .. Len(s) - 1
         /\ \A k \in 1 .. Len(s) - 1 : RemoveAt(s, i)[k] = s[IF k < i THEN k ELSE k + 1]
<1> DEFINE a == SubSeq(s, 1, i - 1)
           b == SubSeq(s, i + 1, Len(s))
<1>1. Len(s) \in Nat /\ i \in 1 .. Len(s)
  OBVIOUS
<1>2. a \in Seq(S) /\ Len(a) = i - 1 /\ \A k \in 1 .. i - 1 : a[k] = s[k]
  BY <1>1
<1>3. b \in Seq(S) /\ Len(b) = Len(s) - i /\ \A k \in 1 .. Len(s) - i : b[k] = s[k + i]
  BY <1>1
<1>4. RemoveAt(s, i) = a \o b
  BY DEF RemoveAt
<1> HIDE DEF a, b
<1>5. a \o b \in Seq(S) /\ Len(a \o b) = Len(s) - 1
  BY <1>1, <1>2, <1>3
<1>6. ASSUME NEW k \in 1 .. Len(s) - 1
      PROVE  (a \o b)[k] = s[IF k < i THEN k ELSE k + 1]
  <2>1. CASE k < i
    BY <1>1, <1>2, <1>3, <2>1
  <2>2. CASE ~(k < i)
    <3>1. k - (i - 1) \in 1 .. Len(s) - i
      BY <1>1, <2>2
    <3>2. (a \o b)[k] = b[k - Len(a)]
      <4>1. k \in 1 .. Len(a) + Len(b)
        BY <1>1, <1>2, <1>3
      <4>2. ~(k <= Len(a))
        BY <1>1, <1>2, <2>2
      <4> QED
        BY <1>2, <1>3, <4>1, <4>2, ConcatProperties
    <3>3. (k - (i - 1)) + i = k + 1
      BY <1>1
    <3>4. b[k - (i - 1)] = s[k + 1]
      BY <1>3, <3>1, <3>3
    <3> QED
      BY <1>2, <2>2, <3>2, <3>4
  <2> QED
    BY <2>1, <2>2
<1> QED
  BY <1>4, <1>5, <1>6

\* A rule less.
LEMMA RemoveAtTakesOne ==
  ASSUME NEW s \in Seq(Rule), OnePerNet(s), NEW i \in DOMAIN s
  PROVE  /\ RemoveAt(s, i) \in Seq(Rule) /\ OnePerNet(RemoveAt(s, i))
         /\ Range(RemoveAt(s, i)) = Range(s) \ {s[i]}
<1> DEFINE t == RemoveAt(s, i)
           At(k) == IF k < i THEN k ELSE k + 1
<1>1. Len(s) \in Nat /\ DOMAIN s = 1 .. Len(s) /\ i \in 1 .. Len(s)
  OBVIOUS
<1>2. /\ t \in Seq(Rule) /\ DOMAIN t = 1 .. Len(s) - 1
      /\ \A k \in 1 .. Len(s) - 1 : t[k] = s[At(k)]
  BY RemoveAtElements
<1> HIDE DEF t
<1>3. OnePerNet(t)
  <2>1. \A k \in 1 .. Len(s) - 1 : At(k) \in DOMAIN s
    BY <1>1
  <2>2. \A j, k \in 1 .. Len(s) - 1 : At(j) = At(k) => j = k
    BY <1>1
  <2>3. ASSUME NEW j \in 1 .. Len(s) - 1, NEW k \in 1 .. Len(s) - 1, t[j].net = t[k].net
        PROVE  j = k
    <3>1. s[At(j)].net = s[At(k)].net
      BY <1>2, <2>3
    <3>2. At(j) = At(k)
      BY <2>1, <3>1 DEF OnePerNet
    <3> QED
      BY <2>2, <3>2
  <2> QED
    BY <1>2, <2>3 DEF OnePerNet
<1>4. Range(t) \subseteq Range(s) \ {s[i]}
  <2> SUFFICES ASSUME NEW k \in 1 .. Len(s) - 1
               PROVE  s[At(k)] \in Range(s) /\ s[At(k)] # s[i]
    BY <1>2 DEF Range
  <2>1. At(k) \in DOMAIN s /\ At(k) # i
    BY <1>1
  <2> QED
    BY <2>1 DEF Range, OnePerNet
<1>5. Range(s) \ {s[i]} \subseteq Range(t)
  <2> SUFFICES ASSUME NEW x \in Range(s), x # s[i]
               PROVE  \E j \in DOMAIN t : t[j] = x
    BY DEF Range
  <2> PICK k \in DOMAIN s : s[k] = x
    BY DEF Range
  <2>1. CASE k < i
    BY <1>1, <1>2, <2>1
  <2>2. CASE k > i
    <3>1. k - 1 \in 1 .. Len(s) - 1 /\ At(k - 1) = k
      BY <1>1, <2>2
    <3> QED
      BY <1>2, <3>1
  <2>3. k # i
    OBVIOUS
  <2> QED
    BY <1>1, <2>1, <2>2, <2>3
<1> QED
  BY <1>2, <1>3, <1>4, <1>5 DEF t

\* A rule first.
LEMMA PrependPutsOne ==
  ASSUME NEW s \in Seq(Rule), OnePerNet(s), NEW r \in Rule,
         \A i \in DOMAIN s : s[i].net # r.net
  PROVE  /\ <<r>> \o s \in Seq(Rule) /\ OnePerNet(<<r>> \o s)
         /\ Range(<<r>> \o s) = Range(s) \cup {r}
<1> DEFINE t == <<r>> \o s
<1>1. Len(s) \in Nat /\ DOMAIN s = 1 .. Len(s)
  OBVIOUS
<1>2. /\ t \in Seq(Rule) /\ DOMAIN t = 1 .. Len(s) + 1 /\ t[1] = r
      /\ \A k \in 2 .. Len(s) + 1 : t[k] = s[k - 1] /\ k - 1 \in DOMAIN s
  BY <1>1
<1> HIDE DEF t
<1>3. \A k \in DOMAIN t : k = 1 \/ k \in 2 .. Len(s) + 1
  BY <1>1, <1>2
<1>4. OnePerNet(t)
  <2> SUFFICES ASSUME NEW i \in DOMAIN t, NEW j \in DOMAIN t, t[i].net = t[j].net
               PROVE  i = j
    BY DEF OnePerNet
  <2>1. CASE i = 1 \/ j = 1
    BY <1>2, <1>3, <2>1
  <2>2. CASE i \in 2 .. Len(s) + 1 /\ j \in 2 .. Len(s) + 1
    <3>1. s[i - 1].net = s[j - 1].net /\ i - 1 \in DOMAIN s /\ j - 1 \in DOMAIN s
      BY <1>2, <2>2
    <3>2. i - 1 = j - 1
      BY <3>1 DEF OnePerNet
    <3> QED
      BY <1>1, <2>2, <3>2
  <2> QED
    BY <1>3, <2>1, <2>2
<1>5. Range(t) \subseteq Range(s) \cup {r}
  <2> SUFFICES ASSUME NEW k \in DOMAIN t
               PROVE  t[k] \in Range(s) \cup {r}
    BY DEF Range
  <2> QED
    BY <1>2, <1>3 DEF Range
<1>6. Range(s) \cup {r} \subseteq Range(t)
  <2>1. \A k \in DOMAIN s : k + 1 \in 2 .. Len(s) + 1 /\ t[k + 1] = s[k]
    BY <1>1, <1>2
  <2> QED
    BY <1>1, <1>2, <2>1 DEF Range
<1> QED
  BY <1>2, <1>4, <1>5, <1>6 DEF t

\* A rule of the script: at the end, or in the place of the one of its source.
LEMMA AddedPutsOne ==
  ASSUME rules \in Seq(Rule), OnePerNet(rules),
         NEW n \in UfwNets, NEW a \in {"allow", "deny"}, NEW t \in UfwTargets \cup {Nobody}
  PROVE  LET new == [net |-> n, action |-> a, tag |-> t]
         IN /\ Added(n, a, t) \in Seq(Rule) /\ OnePerNet(Added(n, a, t))
            /\ Range(Added(n, a, t)) = {r \in Range(rules) : r.net # n} \cup {new}
<1> DEFINE new == [net |-> n, action |-> a, tag |-> t]
           same == {i \in DOMAIN rules : rules[i].net = n}
           s == Added(n, a, t)
<1>1. Len(rules) \in Nat /\ DOMAIN rules = 1 .. Len(rules)
  OBVIOUS
<1>2. new \in Rule /\ new.net = n
  BY DEF Rule
<1>3. CASE same = {}
  <2>1. s = Append(rules, new)
    BY <1>3 DEF Added
  <2>2. /\ s \in Seq(Rule) /\ DOMAIN s = 1 .. Len(rules) + 1 /\ s[Len(rules) + 1] = new
        /\ \A k \in 1 .. Len(rules) : s[k] = rules[k]
    BY <1>1, <1>2, <2>1
  <2> HIDE DEF s, new
  <2>3. OnePerNet(s)
    BY <1>1, <1>2, <1>3, <2>2 DEF OnePerNet
  <2>4. Range(s) = {r \in Range(rules) : r.net # n} \cup {new}
    BY <1>1, <1>3, <2>2 DEF Range
  <2> QED
    BY <2>2, <2>3, <2>4 DEF s, new
<1>4. CASE same # {}
  <2>1. PICK m \in DOMAIN rules : rules[m].net = n
    BY <1>4
  <2>2. \A i \in DOMAIN rules : rules[i].net = n => i = m
    BY <2>1 DEF OnePerNet
  <2>3. same = {m}
    BY <2>1, <2>2
  <2>4. Min(same) = m
    BY <1>1, <2>3 DEF Min
  <2>5. s = [rules EXCEPT ![m] = new]
    BY <1>4, <2>4 DEF Added
  <2>6. /\ s \in Seq(Rule) /\ DOMAIN s = DOMAIN rules /\ s[m] = new
        /\ \A k \in DOMAIN rules \ {m} : s[k] = rules[k]
    BY <1>1, <1>2, <2>1, <2>5
  <2> HIDE DEF s, new
  <2>7. OnePerNet(s)
    BY <1>2, <2>1, <2>2, <2>6 DEF OnePerNet
  <2>8. Range(s) = {r \in Range(rules) : r.net # n} \cup {new}
    BY <2>1, <2>2, <2>6 DEF Range
  <2> QED
    BY <2>6, <2>7, <2>8 DEF s, new
<1> QED
  BY <1>3, <1>4

LEMMA HeadAndTail ==
  ASSUME NEW S, NEW s \in Seq(S), s # <<>>
  PROVE  /\ Head(s) \in S /\ Tail(s) \in Seq(S)
         /\ Range(s) = {Head(s)} \cup Range(Tail(s))
<1>1. /\ Len(s) \in Nat \ {0} /\ Head(s) = s[1] /\ Tail(s) \in Seq(S)
      /\ Len(Tail(s)) = Len(s) - 1 /\ \A k \in 1 .. Len(s) - 1 : Tail(s)[k] = s[k + 1]
  OBVIOUS
<1>2. ASSUME NEW k \in 1 .. Len(s), k # 1
      PROVE  k - 1 \in 1 .. Len(s) - 1 /\ Tail(s)[k - 1] = s[k]
  <2>1. k - 1 \in 1 .. Len(s) - 1 /\ (k - 1) + 1 = k
    BY <1>1, <1>2
  <2> QED
    BY <1>1, <2>1
<1>3. Range(s) \subseteq {Head(s)} \cup Range(Tail(s))
  <2> SUFFICES ASSUME NEW k \in 1 .. Len(s)
               PROVE  s[k] \in {Head(s)} \cup Range(Tail(s))
    BY <1>1 DEF Range
  <2>1. DOMAIN Tail(s) = 1 .. Len(s) - 1
    BY <1>1
  <2> QED
    BY <1>1, <1>2, <2>1 DEF Range
<1>4. {Head(s)} \cup Range(Tail(s)) \subseteq Range(s)
  BY <1>1 DEF Range
<1> QED
  BY <1>1, <1>3, <1>4

LEMMA MinIsLeast ==
  ASSUME NEW S \in SUBSET Nat, S # {}
  PROVE  Min(S) \in S
<1>1. PICK x \in S : \A y \in S : x <= y
  <2>1. PICK x \in S : \A y \in S : <<y, x>> \notin OpToRel(<, Nat)
    BY NatLessThanWellFounded, WFMin
  <2>2. \A y \in S : ~(y < x)
    BY <2>1 DEF OpToRel
  <2> QED
    BY <2>2
<1> QED
  BY <1>1 DEF Min

-----------------------------------------------------------------------------
(* The types                                                               *)

LEMMA RulesAreTyped ==
  ASSUME UfwTypeOK
  PROVE  rules \in Seq(Rule) /\ OnePerNet(rules) /\ Len(rules) \in Nat
  BY DEF UfwTypeOK, OnePerNet

LEMMA JobIsTyped ==
  ASSUME UfwTypeOK
  PROVE  /\ ufwJob.target \in UfwTargets /\ ufwJob.policy \in UfwPolicies
         /\ ufwJob.op \in {"apply", "remove"}
         /\ ufwJob.policy.mode \in {"allow", "deny"} /\ Wanted \in SUBSET UfwNets
         /\ ufwJob.target \in Hits[ufwJob.target]
  BY UfwAssumption DEF UfwTypeOK, Wanted

LEMMA PolicyIsTyped ==
  ASSUME NEW q \in UfwPolicies
  PROVE  /\ SetToSeq(q.nets) \in Seq(UfwNets) /\ Range(SetToSeq(q.nets)) = q.nets
<1>1. q.nets \in SUBSET UfwNets /\ IsFiniteSet(q.nets)
  BY UfwAssumption
<1>2. SetToSeq(q.nets) \in Seq(q.nets) /\ Range(SetToSeq(q.nets)) = q.nets
  BY <1>1, ListIsOnto
<1>3. \A T \in SUBSET UfwNets : \A s \in Seq(T) : s \in Seq(UfwNets)
  OBVIOUS
<1> QED
  BY <1>1, <1>2, <1>3

LEMMA FoundIsTyped ==
  ASSUME UfwTypeOK
  PROVE  Found \in SUBSET DOMAIN rules /\ Found \in SUBSET Nat
  BY RulesAreTyped DEF Found

LEMMA FaultsAreTyped ==
  ASSUME UfwTypeOK, NEW kind, MayFail(kind)
  PROVE  ufwFaults' \in 0 .. MaxUfwFaults
  BY UfwAssumption DEF UfwTypeOK, MayFail

LEMMA TypeInit ==
  ASSUME UfwInit
  PROVE  UfwTypeOK
<1>1. rules \in Seq(Rule) /\ \A i, j \in DOMAIN rules : rules[i].net = rules[j].net => i = j
  <2>1. CASE rules = <<>>
    BY <2>1
  <2>2. ASSUME NEW r \in Rule, rules = <<r>>
        PROVE  rules \in Seq(Rule) /\ DOMAIN rules = {1}
    BY <2>2
  <2>3. [net : UfwNets, action : {"allow", "deny"}, tag : {Nobody}] \subseteq Rule
    BY DEF Rule
  <2> QED
    BY <2>1, <2>2, <2>3 DEF UfwInit
<1>2. ufwJob \in [op : {"apply", "remove"}, target : UfwTargets, policy : UfwPolicies]
  BY DEF UfwInit
<1>3. ufwFaults \in 0 .. MaxUfwFaults
  BY UfwAssumption DEF UfwInit
<1>4. todo \in Seq(UfwNets) /\ num \in Nat
  BY DEF UfwInit
<1> QED
  BY <1>1, <1>2, <1>3, <1>4 DEF UfwInit, UfwTypeOK

LEMMA TypeApply ==
  ASSUME UfwTypeOK, UfwApply
  PROVE  UfwTypeOK'
<1>1. PICK t \in UfwTargets, q \in UfwPolicies :
        /\ ufwJob' = [op |-> "apply", target |-> t, policy |-> q]
        /\ ufwPc' = IF q.mode = "allow" THEN "policy" ELSE "find"
        /\ todo' = SetToSeq(q.nets)
  BY DEF UfwApply
<1>2. todo' \in Seq(UfwNets)
  BY <1>1, PolicyIsTyped
<1>3. ufwJob' \in [op : {"apply", "remove"}, target : UfwTargets, policy : UfwPolicies]
  BY <1>1
<1>4. ufwPc' \in {"idle", "policy", "find", "delete", "add"}
  BY <1>1
<1> QED
  BY <1>2, <1>3, <1>4 DEF UfwApply, UfwTypeOK, firewall

LEMMA TypeRemove ==
  ASSUME UfwTypeOK, UfwRemove
  PROVE  UfwTypeOK'
<1>1. PICK t \in UfwTargets : ufwJob' = [ufwJob EXCEPT !.op = "remove", !.target = t]
  BY DEF UfwRemove
<1>2. ufwJob' \in [op : {"apply", "remove"}, target : UfwTargets, policy : UfwPolicies]
  BY <1>1 DEF UfwTypeOK
<1>3. todo' \in Seq(UfwNets)
  BY DEF UfwRemove
<1> QED
  BY <1>2, <1>3 DEF UfwRemove, UfwTypeOK, firewall

LEMMA TypeFind ==
  ASSUME UfwTypeOK, Find
  PROVE  UfwTypeOK'
<1>1. num' \in Nat
  BY FoundIsTyped, MinIsLeast DEF Find, UfwTypeOK
<1>2. ufwFaults' \in 0 .. MaxUfwFaults
  BY FaultsAreTyped DEF Find, UfwTypeOK
<1>3. /\ ufwPc' \in {"idle", "delete", "add"}
      /\ ufwOutcome' \in {"none", "applied", "removed", "error", "crashed"}
  BY DEF Find, LoopEnds, EndsWith, UfwTypeOK
<1>4. blind' \in BOOLEAN /\ meddled' \subseteq {"numbers", "defaults"}
  BY DEF Find, UfwTypeOK
<1> QED
  BY <1>1, <1>2, <1>3, <1>4 DEF Find, UfwTypeOK, firewall

LEMMA TypeDelete ==
  ASSUME UfwTypeOK, Delete
  PROVE  UfwTypeOK'
<1>1. rules' \in Seq(Rule) /\ OnePerNet(rules')
  BY RulesAreTyped, RemoveAtTakesOne DEF Delete
<1>2. ufwFaults' \in 0 .. MaxUfwFaults
  BY FaultsAreTyped DEF Delete, UfwTypeOK
<1>3. /\ ufwPc' \in {"idle", "find"}
      /\ ufwOutcome' \in {"none", "applied", "removed", "error", "crashed"}
  BY DEF Delete, EndsWith, UfwTypeOK
<1> QED
  BY <1>1, <1>2, <1>3 DEF Delete, UfwTypeOK, OnePerNet

LEMMA TypeAddRule ==
  ASSUME UfwTypeOK, AddRule
  PROVE  UfwTypeOK'
<1>1. rules' \in Seq(Rule) /\ OnePerNet(rules') /\ todo' \in Seq(UfwNets)
  <2>1. todo \in Seq(UfwNets) /\ todo # <<>>
    BY DEF AddRule, UfwTypeOK
  <2>2. Head(todo) \in UfwNets /\ Tail(todo) \in Seq(UfwNets)
    BY <2>1, HeadAndTail
  <2>3. /\ Added(Head(todo), ufwJob.policy.mode, ufwJob.target) \in Seq(Rule)
        /\ OnePerNet(Added(Head(todo), ufwJob.policy.mode, ufwJob.target))
    BY <2>2, RulesAreTyped, JobIsTyped, AddedPutsOne
  <2> QED
    BY <2>1, <2>2, <2>3, RulesAreTyped DEF AddRule
<1>2. ufwFaults' \in 0 .. MaxUfwFaults
  BY FaultsAreTyped DEF AddRule, UfwTypeOK
<1>3. /\ ufwPc' \in {"idle", "add"}
      /\ ufwOutcome' \in {"none", "applied", "removed", "error", "crashed"}
  BY DEF AddRule, EndsWith, UfwTypeOK
<1> QED
  BY <1>1, <1>2, <1>3 DEF AddRule, UfwTypeOK, OnePerNet

\* The operator's commands leave the rules of the targets as they are.
LEMMA OperatorSparesTargets ==
  ASSUME UfwTypeOK, Operator
  PROVE  /\ rules' \in Seq(Rule) /\ OnePerNet(rules')
         /\ \A r \in Rule : r.tag # Nobody => (r \in Range(rules') <=> r \in Range(rules))
         /\ rules' # rules => "numbers" \in meddled'
         /\ active' # active \/ default' # default => "defaults" \in meddled'
<1>1. CASE \E n \in UfwNets, a \in {"allow", "deny"} :
             /\ \A i \in DOMAIN rules : rules[i].net # n
             /\ rules' = <<[net |-> n, action |-> a, tag |-> Nobody]>> \o rules
             /\ UNCHANGED <<active, default>>
  <2> PICK n \in UfwNets, a \in {"allow", "deny"} :
             /\ \A i \in DOMAIN rules : rules[i].net # n
             /\ rules' = <<[net |-> n, action |-> a, tag |-> Nobody]>> \o rules
             /\ UNCHANGED <<active, default>>
    BY <1>1
  <2> DEFINE new == [net |-> n, action |-> a, tag |-> Nobody]
  <2>1. new \in Rule /\ new.tag = Nobody /\ new.net = n
    BY DEF Rule
  <2> HIDE DEF new
  <2>2. /\ <<new>> \o rules \in Seq(Rule) /\ OnePerNet(<<new>> \o rules)
        /\ Range(<<new>> \o rules) = Range(rules) \cup {new}
    BY <2>1, RulesAreTyped, PrependPutsOne
  <2>3. rules' = <<new>> \o rules
    BY DEF new
  <2> QED
    BY <2>1, <2>2, <2>3 DEF Operator
<1>2. CASE /\ \E i \in DOMAIN rules : rules[i].tag = Nobody /\ rules' = RemoveAt(rules, i)
           /\ UNCHANGED <<active, default>>
  <2> PICK i \in DOMAIN rules : rules[i].tag = Nobody /\ rules' = RemoveAt(rules, i)
    BY <1>2
  <2>1. /\ RemoveAt(rules, i) \in Seq(Rule) /\ OnePerNet(RemoveAt(rules, i))
        /\ Range(RemoveAt(rules, i)) = Range(rules) \ {rules[i]}
    BY RulesAreTyped, RemoveAtTakesOne
  <2> QED
    BY <1>2, <2>1 DEF Operator
<1>3. CASE UNCHANGED rules
  <2>1. active' # active \/ default' # default => "defaults" \in meddled'
    BY <1>3 DEF Operator
  <2> QED
    BY <1>3, <2>1, RulesAreTyped
<1> QED
  BY <1>1, <1>2, <1>3 DEF Operator

LEMMA TypeOperator ==
  ASSUME UfwTypeOK, Operator
  PROVE  UfwTypeOK'
<1>1. rules' \in Seq(Rule) /\ OnePerNet(rules')
  BY OperatorSparesTargets
<1>2. ufwFaults' \in 0 .. MaxUfwFaults
  BY FaultsAreTyped DEF Operator
<1>3. active' \in BOOLEAN /\ default' \in {"allow", "deny"}
  BY DEF Operator, UfwTypeOK
<1>4. meddled' \subseteq {"numbers", "defaults"}
  BY DEF Operator, UfwTypeOK
<1> QED
  BY <1>1, <1>2, <1>3, <1>4 DEF Operator, UfwTypeOK, OnePerNet

LEMMA TypeRest ==
  ASSUME UfwTypeOK, CheckPolicy \/ UfwNotStarted \/ UfwDone \/ UfwKilled \/ UNCHANGED ufwVars
  PROVE  UfwTypeOK'
<1>1. ufwFaults' \in 0 .. MaxUfwFaults
  BY FaultsAreTyped
     DEF CheckPolicy, UfwNotStarted, UfwDone, UfwKilled, ufwVars, UfwTypeOK
<1>2. ufwPc' \in {ufwPc, "idle", "find"}
  BY DEF CheckPolicy, UfwNotStarted, UfwDone, UfwKilled, EndsWith, ufwVars
<1>3. ufwOutcome' \in {ufwOutcome, "error", "applied", "crashed"}
  BY DEF CheckPolicy, UfwNotStarted, UfwDone, UfwKilled, EndsWith, ufwVars
<1>4. UNCHANGED <<rules, active, default, ufwJob, num, todo, blind, meddled>>
  BY DEF CheckPolicy, UfwNotStarted, UfwDone, UfwKilled, ufwVars, firewall
<1> QED
  BY <1>1, <1>2, <1>3, <1>4 DEF UfwTypeOK

LEMMA TypeStep ==
  ASSUME UfwTypeOK, [UfwNext]_ufwVars
  PROVE  UfwTypeOK'
  BY TypeApply, TypeRemove, TypeFind, TypeDelete, TypeAddRule, TypeOperator, TypeRest
     DEF UfwNext

-----------------------------------------------------------------------------
(* The invariant                                                           *)

LEMMA InvInit ==
  ASSUME UfwInit
  PROVE  UfwInv
  BY TypeInit DEF UfwInit, UfwInv, TodoInv, NumberInv, DefaultsInv, AddedInv

\* The number, the defaults and the rules still to add matter while a script runs.
LEMMA IdleKeepsInv ==
  ASSUME ufwPc' = "idle"
  PROVE  TodoInv' /\ NumberInv' /\ DefaultsInv' /\ AddedInv'
  BY DEF TodoInv, NumberInv, DefaultsInv, AddedInv

LEMMA ApplyKeepsInv ==
  ASSUME UfwInv, UfwApply
  PROVE  TodoInv' /\ NumberInv' /\ DefaultsInv' /\ AddedInv'
<1>1. PICK t \in UfwTargets, q \in UfwPolicies :
        /\ ufwJob' = [op |-> "apply", target |-> t, policy |-> q]
        /\ ufwPc' = IF q.mode = "allow" THEN "policy" ELSE "find"
        /\ todo' = SetToSeq(q.nets)
  BY DEF UfwApply
<1>2. ufwPc' \in {"policy", "find"} /\ ufwJob'.policy = q
  BY <1>1
<1>3. TodoInv'
  BY <1>1, <1>2, PolicyIsTyped DEF TodoInv, Wanted
<1>4. DefaultsInv'
  BY <1>1 DEF DefaultsInv
<1> QED
  BY <1>2, <1>3, <1>4 DEF NumberInv, AddedInv

LEMMA RemoveKeepsInv ==
  ASSUME UfwInv, UfwRemove
  PROVE  TodoInv' /\ NumberInv' /\ DefaultsInv' /\ AddedInv'
<1>1. ufwPc' = "find" /\ ufwJob'.op = "remove"
  BY DEF UfwRemove, UfwInv, UfwTypeOK
<1> QED
  BY <1>1 DEF TodoInv, NumberInv, DefaultsInv, AddedInv

LEMMA CheckKeepsInv ==
  ASSUME UfwInv, CheckPolicy, ufwPc' = "find"
  PROVE  TodoInv' /\ NumberInv' /\ DefaultsInv' /\ AddedInv'
<1>1. UNCHANGED <<rules, active, default, ufwJob, num, todo, blind, meddled>> /\ ufwPc = "policy"
  BY DEF CheckPolicy, firewall
<1>2. DenyConfirmed
  BY DEF CheckPolicy, EndsWith
<1>3. TodoInv'
  BY <1>1 DEF UfwInv, TodoInv, Wanted
<1>4. DefaultsInv'
  BY <1>1, <1>2 DEF DefaultsInv, DenyConfirmed
<1> QED
  BY <1>3, <1>4 DEF NumberInv, AddedInv

LEMMA FindKeepsInv ==
  ASSUME UfwInv, Find
  PROVE  TodoInv' /\ NumberInv' /\ DefaultsInv' /\ AddedInv'
<1>1. UNCHANGED <<rules, active, default, ufwJob, todo>> /\ ufwPc = "find"
  BY DEF Find, firewall
<1>2. Found' = Found
  BY <1>1 DEF Found
<1>3. ufwPc' = "add" => ufwJob.op = "apply" /\ blind' = (Found # {})
  BY DEF Find, LoopEnds, EndsWith
<1>4. ufwPc' = "delete" => num' \in Found
  BY FoundIsTyped, MinIsLeast DEF Find, LoopEnds, EndsWith, UfwInv
<1>5. "defaults" \in meddled <=> "defaults" \in meddled'
  BY DEF Find
<1>6. TodoInv'
  BY <1>1, <1>3 DEF UfwInv, TodoInv, Wanted, Find, LoopEnds, EndsWith
<1>7. NumberInv'
  BY <1>2, <1>4 DEF NumberInv
<1>8. DefaultsInv'
  BY <1>1, <1>5 DEF UfwInv, DefaultsInv, DenyConfirmed
<1>9. AddedInv'
  <2> SUFFICES ASSUME ufwPc' = "add", ~blind'
               PROVE  AddedInv'
    BY DEF AddedInv
  <2>1. Found = {}
    BY <1>3
  <2>2. \A r \in Range(rules) : r.tag # ufwJob.target
    <3>1. ufwJob.target \in Hits[ufwJob.target]
      BY JobIsTyped DEF UfwInv
    <3> QED
      BY <2>1, <3>1 DEF Found, Range
  <2>3. Range(todo) = Wanted
    BY <1>1, <1>3 DEF UfwInv, TodoInv
  <2> QED
    BY <1>1, <2>2, <2>3 DEF AddedInv, Kept, Wanted
<1> QED
  BY <1>6, <1>7, <1>8, <1>9

LEMMA DeleteKeepsInv ==
  ASSUME UfwInv, Delete
  PROVE  TodoInv' /\ NumberInv' /\ DefaultsInv' /\ AddedInv'
<1>1. UNCHANGED <<active, default, ufwJob, todo, meddled>> /\ ufwPc = "delete"
  BY DEF Delete
<1>2. ufwPc' \in {"find", "idle"}
  BY DEF Delete, EndsWith
<1>3. TodoInv'
  BY <1>1, <1>2 DEF UfwInv, TodoInv, Wanted
<1>4. DefaultsInv'
  BY <1>1, <1>2 DEF UfwInv, DefaultsInv, DenyConfirmed
<1> QED
  BY <1>2, <1>3, <1>4 DEF NumberInv, AddedInv

\* What a rule of the script does to the rules.
LEMMA AddRulePutsOne ==
  ASSUME UfwInv, AddRule, ufwPc' = "add"
  PROVE  /\ Head(todo) \in Wanted /\ Range(todo) = {Head(todo)} \cup Range(todo')
         /\ Range(rules') = {r \in Range(rules) : r.net # Head(todo)} \cup {TheRule(Head(todo))}
<1>1. /\ todo \in Seq(UfwNets) /\ todo # <<>> /\ ufwPc = "add"
      /\ rules' = Added(Head(todo), ufwJob.policy.mode, ufwJob.target) /\ todo' = Tail(todo)
  BY DEF UfwInv, UfwTypeOK, AddRule, EndsWith
<1>2. Head(todo) \in UfwNets /\ Range(todo) = {Head(todo)} \cup Range(todo')
  BY <1>1, HeadAndTail
<1>3. Head(todo) \in Wanted
  BY <1>1, <1>2 DEF UfwInv, TodoInv
<1> QED
  BY <1>1, <1>2, <1>3, RulesAreTyped, JobIsTyped, AddedPutsOne DEF UfwInv, TheRule

LEMMA AddRuleKeepsInv ==
  ASSUME UfwInv, AddRule, ufwPc' = "add"
  PROVE  TodoInv' /\ NumberInv' /\ DefaultsInv' /\ AddedInv'
<1>1. UNCHANGED <<active, default, ufwJob, blind, meddled>> /\ ufwPc = "add"
  BY DEF AddRule
<1>2. TodoInv'
  BY <1>1, AddRulePutsOne DEF UfwInv, TodoInv, Wanted
<1>3. DefaultsInv'
  BY <1>1 DEF UfwInv, DefaultsInv, DenyConfirmed
<1>4. AddedInv'
  <2> SUFFICES ASSUME ~blind
               PROVE  AddedInv'
    BY <1>1 DEF AddedInv
  <2> DEFINE h == Head(todo)
             new == TheRule(h)
  <2>1. /\ \A r \in Range(rules) : r.tag = ufwJob.target => r = TheRule(r.net) /\ r.net \in Wanted
        /\ \A n \in Wanted \ Range(todo) : TheRule(n) \in Range(rules)
    BY <1>1 DEF UfwInv, AddedInv, Kept
  <2>2. \A n : TheRule(n).net = n
    BY DEF TheRule
  <2> HIDE DEF h
  <2>3. /\ h \in Wanted /\ Range(todo) = {h} \cup Range(todo')
        /\ Range(rules') = {r \in Range(rules) : r.net # h} \cup {TheRule(h)}
    BY AddRulePutsOne DEF h
  <2>4. \A r \in Range(rules') :
          r.tag = ufwJob.target => r = TheRule(r.net) /\ r.net \in Wanted
    BY <2>1, <2>2, <2>3
  <2>5. \A n \in Wanted \ Range(todo') : TheRule(n) \in Range(rules')
    BY <2>1, <2>2, <2>3
  <2>6. Wanted' = Wanted /\ \A n : TheRule(n)' = TheRule(n)
    BY <1>1 DEF Wanted, TheRule
  <2> QED
    BY <1>1, <2>4, <2>5, <2>6 DEF AddedInv, Kept
<1> QED
  BY <1>2, <1>3, <1>4 DEF NumberInv

LEMMA OperatorKeepsInv ==
  ASSUME UfwInv, Operator
  PROVE  TodoInv' /\ NumberInv' /\ DefaultsInv' /\ AddedInv'
<1>1. UNCHANGED <<ufwPc, ufwJob, num, todo, blind>> /\ meddled \subseteq meddled'
  BY DEF Operator
<1>2. /\ \A r \in Rule : r.tag # Nobody => (r \in Range(rules') <=> r \in Range(rules))
      /\ rules' # rules => "numbers" \in meddled'
      /\ active' # active \/ default' # default => "defaults" \in meddled'
      /\ rules' \in Seq(Rule)
  BY OperatorSparesTargets DEF UfwInv
<1>3. TodoInv'
  BY <1>1 DEF UfwInv, TodoInv, Wanted
<1>4. NumberInv'
  BY <1>1, <1>2 DEF UfwInv, NumberInv, Found
<1>5. DefaultsInv'
  BY <1>1, <1>2 DEF UfwInv, DefaultsInv, DenyConfirmed
<1>6. AddedInv'
  <2> SUFFICES ASSUME ufwPc = "add", ~blind
               PROVE  AddedInv'
    BY <1>1 DEF AddedInv
  <2>1. ufwJob.target \in UfwTargets /\ ufwJob.target # Nobody
    BY JobIsTyped, UfwAssumption DEF UfwInv
  <2>2. \A n \in Wanted : TheRule(n) \in Rule /\ TheRule(n).tag = ufwJob.target
    BY JobIsTyped DEF UfwInv, TheRule, Rule
  <2>3. Range(rules') \subseteq Rule
    BY <1>2 DEF Range
  <2>4. \A r \in Range(rules') :
          r.tag = ufwJob.target => r = TheRule(r.net) /\ r.net \in Wanted
    BY <1>2, <2>1, <2>3 DEF UfwInv, AddedInv, Kept
  <2>5. \A n \in Wanted \ Range(todo) : TheRule(n) \in Range(rules')
    BY <1>2, <2>1, <2>2 DEF UfwInv, AddedInv, Kept
  <2>6. Wanted' = Wanted /\ \A n : TheRule(n)' = TheRule(n)
    BY <1>1 DEF Wanted, TheRule
  <2> QED
    BY <1>1, <2>4, <2>5, <2>6 DEF AddedInv, Kept
<1> QED
  BY <1>3, <1>4, <1>5, <1>6

LEMMA StutterKeepsInv ==
  ASSUME UfwInv, UNCHANGED ufwVars
  PROVE  TodoInv' /\ NumberInv' /\ DefaultsInv' /\ AddedInv'
<1>1. TodoInv' /\ NumberInv' /\ DefaultsInv'
  BY DEF ufwVars, UfwInv, TodoInv, Wanted, NumberInv, Found, DefaultsInv, DenyConfirmed
<1>2. AddedInv'
  BY DEF ufwVars, UfwInv, AddedInv, Wanted, Kept, TheRule
<1> QED
  BY <1>1, <1>2

LEMMA InvStep ==
  ASSUME UfwInv, [UfwNext]_ufwVars
  PROVE  UfwInv'
<1>1. UfwTypeOK'
  BY TypeStep DEF UfwInv
<1>2. TodoInv' /\ NumberInv' /\ DefaultsInv' /\ AddedInv'
  <2>1. CASE UfwNotStarted \/ UfwDone \/ UfwKilled
    BY <2>1, IdleKeepsInv DEF UfwNotStarted, UfwDone, UfwKilled, EndsWith
  <2>2. CASE CheckPolicy
    BY <2>2, IdleKeepsInv, CheckKeepsInv DEF CheckPolicy, EndsWith
  <2>3. CASE AddRule
    <3>1. ufwPc' \in {"idle", "add"}
      BY <2>3 DEF AddRule, EndsWith
    <3> QED
      BY <2>3, <3>1, IdleKeepsInv, AddRuleKeepsInv
  <2> QED
    BY <2>1, <2>2, <2>3, ApplyKeepsInv, RemoveKeepsInv, FindKeepsInv, DeleteKeepsInv,
       OperatorKeepsInv, StutterKeepsInv DEF UfwNext
<1> QED
  BY <1>1, <1>2 DEF UfwInv

\* The invariant holds in every reachable state (ufw.go:29-94).
THEOREM UfwInductive == UfwSpec => []UfwInv
<1>1. UfwInit => UfwInv
  BY InvInit
<1>2. UfwInv /\ [UfwNext]_ufwVars => UfwInv'
  BY InvStep
<1> QED
  BY <1>1, <1>2, PTL DEF UfwSpec

\* The state is well typed; no two rules have the same source.
THEOREM UfwTypeCorrect == UfwSpec => []UfwTypeOK
<1>1. UfwInv => UfwTypeOK
  BY DEF UfwInv
<1> QED
  BY <1>1, UfwInductive, PTL

-----------------------------------------------------------------------------
(* What a script promises                                                  *)

LEMMA TaggedIsKept ==
  ASSUME NEW t
  PROVE  Tagged(t) = {[net |-> r.net, action |-> r.action] : r \in {q \in Kept : q.tag = t}}
  BY DEF Tagged, Kept, Range

\* The steps that end an operation with success.
LEMMA EndsWell ==
  ASSUME UfwInv, [UfwNext]_ufwVars, ufwPc # "idle", ufwPc' = "idle",
         ufwOutcome' \in {"applied", "removed"}
  PROVE  UfwDone \/ (Find /\ ufwJob.op = "remove" /\ blind' = (Found # {}))
<1>1. ~(UfwApply \/ UfwRemove \/ Operator \/ UNCHANGED ufwVars)
  BY DEF UfwApply, UfwRemove, Operator, ufwVars
<1>2. ~(CheckPolicy \/ UfwNotStarted \/ Delete \/ UfwKilled)
  BY DEF CheckPolicy, UfwNotStarted, Delete, UfwKilled, EndsWith
<1>3. ~AddRule
  BY DEF AddRule, EndsWith
<1>4. Find => ufwJob.op # "apply" /\ blind' = (Found # {})
  BY DEF Find, LoopEnds, EndsWith
<1>5. ufwJob.op \in {"apply", "remove"}
  BY JobIsTyped DEF UfwInv
<1> QED
  BY <1>1, <1>2, <1>3, <1>4, <1>5 DEF UfwNext

LEMMA ConvergesStep ==
  ASSUME UfwInv, [UfwNext]_ufwVars, ufwPc # "idle", ufwPc' = "idle",
         ufwOutcome' \in {"applied", "removed"}, ~blind'
  PROVE  Tagged(ufwJob.target) =
           {[net |-> n, action |-> ufwJob.policy.mode] :
            n \in IF ufwJob.op = "apply" THEN ufwJob.policy.nets ELSE {}}
<1> DEFINE t == ufwJob.target
<1>1. CASE UfwDone
  <2>1. ufwPc = "add" /\ todo = <<>> /\ ~blind
    BY <1>1 DEF UfwDone
  <2>2. ufwJob.op = "apply"
    BY <2>1 DEF UfwInv, TodoInv
  <2>3. Range(todo) = {}
    BY <2>1 DEF Range
  <2>4. \A r \in Kept : r.tag = t => r = TheRule(r.net) /\ r.net \in Wanted
    BY <2>1 DEF UfwInv, AddedInv
  <2>5. \A n \in Wanted : TheRule(n) \in Kept
    BY <2>1, <2>3 DEF UfwInv, AddedInv
  <2>6. \A n : TheRule(n).net = n /\ TheRule(n).action = ufwJob.policy.mode /\ TheRule(n).tag = t
    BY DEF TheRule
  <2>7. {[net |-> r.net, action |-> r.action] : r \in {q \in Kept : q.tag = t}}
        = {[net |-> n, action |-> ufwJob.policy.mode] : n \in Wanted}
    BY <2>4, <2>5, <2>6
  <2> QED
    BY <2>2, <2>7, TaggedIsKept DEF Wanted
<1>2. CASE Find /\ ufwJob.op = "remove" /\ blind' = (Found # {})
  <2>1. Found = {}
    BY <1>2
  <2>2. t \in Hits[t]
    BY JobIsTyped DEF UfwInv
  <2>3. \A i \in DOMAIN rules : rules[i].tag # t
    BY <2>1, <2>2 DEF Found
  <2> QED
    BY <1>2, <2>3 DEF Tagged
<1> QED
  BY <1>1, <1>2, EndsWell

\* An apply that reports success leaves the target with the rules of its policy
\* and no other, and a removal leaves it without, unless ufw hid its rules from
\* the script, whatever scripts left behind before (ufw.go:65-94).
THEOREM UfwScriptsConverge == UfwSpec => UfwConverges
<1>1. UfwInv /\ [UfwNext]_ufwVars =>
        (ufwPc # "idle" /\ ufwOutcome' \in {"applied", "removed"} /\ ufwPc' = "idle" /\ ~blind' =>
           Tagged(ufwJob.target) =
             {[net |-> n, action |-> ufwJob.policy.mode] :
              n \in IF ufwJob.op = "apply" THEN ufwJob.policy.nets ELSE {}})
  BY ConvergesStep
<1> QED
  BY <1>1, UfwInductive, PTL DEF UfwSpec, UfwConverges

LEMMA RestrictsStep ==
  ASSUME UfwInv, ufwPc = "add", ufwJob.policy.mode = "allow", "defaults" \notin meddled
  PROVE  /\ active
         /\ \A n \in UfwNets : (\A i \in DOMAIN rules : rules[i].net # n) => Verdict(n) = "deny"
<1>1. active /\ default = "deny"
  BY DEF UfwInv, TodoInv, DefaultsInv, DenyConfirmed
<1> QED
  BY <1>1 DEF Verdict

\* After an allow list, who is named in no rule is turned away: the default
\* policy that was checked before the first command still holds at the end
\* (ufw.go:34-47).
THEOREM UfwAllowRestricts == UfwSpec => UfwRestricts
<1>1. UfwInv /\ [UfwNext]_ufwVars =>
        (/\ ufwPc = "add" /\ ufwOutcome' = "applied"
         /\ ufwJob.policy.mode = "allow" /\ "defaults" \notin meddled
         => /\ active
            /\ \A n \in UfwNets :
                 (\A i \in DOMAIN rules : rules[i].net # n) => Verdict(n) = "deny")
  BY RestrictsStep
<1> QED
  BY <1>1, UfwInductive, PTL DEF UfwSpec, UfwRestricts

LEMMA SparesStep ==
  ASSUME UfwInv, [UfwNext]_ufwVars, "numbers" \notin meddled \cup meddled',
         ufwPc \in {"delete", "add"}, NEW r \in Range(rules) \ Range(rules')
  PROVE  \/ r.tag \in Hits[ufwJob.target]
         \/ ufwPc = "add" /\ r.net \in ufwJob.policy.nets
<1>1. rules' # rules
  OBVIOUS
<1>2. ~Operator
  BY <1>1, OperatorSparesTargets DEF UfwInv
<1>3. CASE Delete
  <2>1. ufwPc = "delete" /\ num \in Found /\ num \in DOMAIN rules /\ rules' = RemoveAt(rules, num)
    BY <1>1, <1>3 DEF Delete, UfwInv, NumberInv
  <2>2. Range(rules') = Range(rules) \ {rules[num]}
    BY <2>1, RulesAreTyped, RemoveAtTakesOne DEF UfwInv
  <2> QED
    BY <2>1, <2>2 DEF Found
<1>4. CASE AddRule
  <2>1. ufwPc = "add" /\ ufwPc' = "add"
    BY <1>1, <1>4 DEF AddRule
  <2>2. r.net = Head(todo) /\ Head(todo) \in Wanted
    BY <1>4, <2>1, AddRulePutsOne
  <2> QED
    BY <2>1, <2>2 DEF Wanted
<1>5. Delete \/ AddRule
  BY <1>1, <1>2 DEF UfwNext, UfwApply, UfwRemove, CheckPolicy, UfwNotStarted, Find,
                    UfwDone, UfwKilled, ufwVars, firewall
<1> QED
  BY <1>3, <1>4, <1>5

\* A rule of somebody else goes only if its source is in the list, if its tag
\* begins with the target's, or if the operator changed the numbers under the
\* script, which deletes by number (ufw.go:65-74).
THEOREM UfwSparesTheOthers == UfwSpec => UfwSparesOthers
<1>1. UfwInv /\ [UfwNext]_ufwVars =>
        ("numbers" \notin meddled \cup meddled' /\ ufwPc \in {"delete", "add"} =>
           \A r \in Range(rules) \ Range(rules') :
             \/ r.tag \in Hits[ufwJob.target]
             \/ ufwPc = "add" /\ r.net \in ufwJob.policy.nets)
  BY SparesStep
<1> QED
  BY <1>1, UfwInductive, PTL DEF UfwSpec, UfwSparesOthers
=============================================================================
