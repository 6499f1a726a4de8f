--------------------------------- MODULE UFW ---------------------------------
(***************************************************************************)
(* The ufw engine (internal/engine/ufw.go): a script deletes the rules     *)
(* that carry the target's tag, one by one and by number, and then adds    *)
(* the rules of the policy.  The targets of the machine share one numbered *)
(* list of rules with each other and with the operator.                    *)
(***************************************************************************)
EXTENDS Naturals, SequencesExt

CONSTANTS
  UfwTargets,  \* target ids
  Hits,        \* per target, the targets whose tags contain its tag (web, web2)
  UfwNets,     \* CIDR ranges; also the source addresses that are looked at
  UfwPolicies,  \* what a target may ask for: [mode, nets]
  Nobody,      \* no target: a rule of the operator
  UfwFaults,   \* what may go wrong: subset of UfwFaultKinds
  MaxUfwFaults  \* bound on the number of faults and of the operator's commands

\* "status": ufw cannot list its rules; "command": a ufw command fails, or
\* the script cannot be written; "crash": the shell is killed; "operator":
\* the operator runs ufw commands of his own, also while a script runs.
UfwFaultKinds == {"status", "command", "crash", "operator"}

ASSUME UfwAssumption ==
  /\ Hits \in [UfwTargets -> SUBSET UfwTargets] /\ \A t \in UfwTargets : t \in Hits[t]
  /\ Nobody \notin UfwTargets
  /\ UfwPolicies \subseteq [mode : {"allow", "deny"}, nets : SUBSET UfwNets]
  /\ \A p \in UfwPolicies : IsFiniteSet(p.nets)
  /\ UfwFaults \subseteq UfwFaultKinds /\ MaxUfwFaults \in Nat

VARIABLES
  rules,         \* the numbered rules, at most one per source
  active,        \* ufw is enabled; a disabled one lists no rules but keeps them
  default,       \* the default policy for incoming connections
  ufwPc, ufwJob, \* the step and the operation in progress
  num,           \* the script's n: the number of the rule to delete; 0 at first
  todo,          \* the sources still to add
  ufwOutcome,    \* the Outcome of the last operation
  ufwFaults,     \* faults so far
  blind,         \* history: the running script was told that there are no rules
  meddled        \* history: what the operator changed, the numbers since n was
                 \* read, the defaults since the operation began

ufwVars == <<rules, active, default, ufwPc, ufwJob, num, todo, ufwOutcome, ufwFaults, blind,
             meddled>>
firewall == <<rules, active, default>>

Rule == [net : UfwNets, action : {"allow", "deny"}, tag : UfwTargets \cup {Nobody}]

UfwTypeOK ==
  /\ rules \in Seq(Rule)
  /\ \A i, j \in DOMAIN rules : rules[i].net = rules[j].net => i = j
  /\ active \in BOOLEAN /\ default \in {"allow", "deny"}
  /\ ufwPc \in {"idle", "policy", "find", "delete", "add"}
  /\ ufwJob \in [op : {"apply", "remove"}, target : UfwTargets, policy : UfwPolicies]
  /\ num \in Nat /\ todo \in Seq(UfwNets)
  /\ ufwOutcome \in {"none", "applied", "removed", "error", "crashed"}
  /\ ufwFaults \in 0 .. MaxUfwFaults
  /\ blind \in BOOLEAN /\ meddled \subseteq {"numbers", "defaults"}

UfwInit ==
  /\ rules \in {<<>>} \cup {<<r>> : r \in [net : UfwNets, action : {"allow", "deny"},
                                         tag : {Nobody}]}
  /\ active \in BOOLEAN /\ default \in {"allow", "deny"}
  /\ ufwPc = "idle" /\ ufwJob \in [op : {"apply"}, target : UfwTargets, policy : UfwPolicies]
  /\ num = 0 /\ todo = <<>>
  /\ ufwOutcome = "none" /\ ufwFaults = 0
  /\ blind = FALSE /\ meddled = {}

MayFail(kind) == kind \in UfwFaults /\ ufwFaults < MaxUfwFaults /\ ufwFaults' = ufwFaults + 1
EndsWith(result) == ufwPc' = "idle" /\ ufwOutcome' = result

-----------------------------------------------------------------------------
(* The operations                                                          *)

\* Only an allow list asks for the default policy first.
UfwApply ==
  /\ ufwPc = "idle"
  /\ \E t \in UfwTargets, p \in UfwPolicies :
       /\ ufwJob' = [op |-> "apply", target |-> t, policy |-> p]
       /\ ufwPc' = IF p.mode = "allow" THEN "policy" ELSE "find"
       /\ todo' = SetToSeq(p.nets)
  /\ num' = 0 /\ blind' = FALSE /\ meddled' = meddled \ {"defaults"}
  /\ UNCHANGED <<firewall, ufwOutcome, ufwFaults>>

UfwRemove ==
  /\ ufwPc = "idle"
  /\ \E t \in UfwTargets : ufwJob' = [ufwJob EXCEPT !.op = "remove", !.target = t]
  /\ ufwPc' = "find" /\ todo' = <<>>
  /\ num' = 0 /\ blind' = FALSE /\ meddled' = meddled \ {"defaults"}
  /\ UNCHANGED <<firewall, ufwOutcome, ufwFaults>>

\* Mutant: what cannot be confirmed passes.
DenyConfirmedUnlessAllow == ~(active /\ default = "allow")

\* "ufw status verbose" of an enabled ufw names the default policy.
DenyConfirmed == active /\ default = "deny"

CheckPolicy ==
  /\ ufwPc = "policy"
  /\ \/ DenyConfirmed /\ ufwPc' = "find" /\ UNCHANGED <<ufwOutcome, ufwFaults>>
     \/ ~DenyConfirmed /\ EndsWith("error") /\ UNCHANGED ufwFaults
     \/ MayFail("status") /\ EndsWith("error")
  /\ UNCHANGED <<firewall, ufwJob, num, todo, blind, meddled>>

\* ufw is not installed, or the script cannot be written.
UfwNotStarted ==
  /\ ufwPc \in {"policy", "find"} /\ num = 0
  /\ MayFail("command")
  /\ EndsWith("error")
  /\ UNCHANGED <<firewall, ufwJob, num, todo, blind, meddled>>

-----------------------------------------------------------------------------
(* The script                                                              *)

\* Mutant: the rules of every target are found.
FoundAny == {i \in DOMAIN rules : rules[i].tag # Nobody}

\* What grep finds: the target's tag, alone or at the start of another one.
Found == {i \in DOMAIN rules : rules[i].tag \in Hits[ufwJob.target]}

\* After the loop: the rules to add, or the end.
LoopEnds ==
  IF ufwJob.op = "apply" THEN ufwPc' = "add" /\ UNCHANGED ufwOutcome ELSE EndsWith("removed")

\* n=$(ufw status numbered | grep tag | head -1).  A ufw that fails or is
\* disabled lists nothing; the script takes it for "no more rules".
Find ==
  /\ ufwPc = "find"
  /\ \/ /\ active /\ Found # {}
        /\ num' = Min(Found) /\ ufwPc' = "delete" /\ meddled' = meddled \ {"numbers"}
        /\ UNCHANGED <<ufwOutcome, ufwFaults, blind>>
     \/ /\ \/ (~active \/ Found = {}) /\ UNCHANGED ufwFaults
           \/ MayFail("status")
        /\ LoopEnds
        /\ blind' = (Found # {})
        /\ UNCHANGED <<num, meddled>>
  /\ UNCHANGED <<firewall, ufwJob, todo>>

\* Mutant: no loop, one rule is deleted.
DeleteOnce ==
  /\ ufwPc = "delete"
  /\ \/ /\ num \in DOMAIN rules
        /\ rules' = RemoveAt(rules, num)
        /\ LoopEnds /\ UNCHANGED ufwFaults
     \/ /\ num \notin DOMAIN rules /\ UNCHANGED ufwFaults
        /\ EndsWith("error") /\ UNCHANGED rules
  /\ UNCHANGED <<active, default, ufwJob, num, todo, blind, meddled>>

\* ufw --force delete n
Delete ==
  /\ ufwPc = "delete"
  /\ \/ /\ num \in DOMAIN rules
        /\ rules' = RemoveAt(rules, num)
        /\ ufwPc' = "find" /\ UNCHANGED <<ufwOutcome, ufwFaults>>
     \/ /\ \/ num \notin DOMAIN rules /\ UNCHANGED ufwFaults
           \/ MayFail("command")
        /\ EndsWith("error") /\ UNCHANGED rules
  /\ UNCHANGED <<active, default, ufwJob, num, todo, blind, meddled>>

\* ufw adds a rule at the end; if there is one for the source, it gets the
\* new action and the new tag in its place.
Added(net, action, tag) ==
  LET new == [net |-> net, action |-> action, tag |-> tag]
      same == {i \in DOMAIN rules : rules[i].net = net}
  IN IF same = {} THEN Append(rules, new) ELSE [rules EXCEPT ![Min(same)] = new]

AddRule ==
  /\ ufwPc = "add" /\ todo # <<>>
  /\ \/ /\ rules' = Added(Head(todo), ufwJob.policy.mode, ufwJob.target)
        /\ todo' = Tail(todo)
        /\ UNCHANGED <<ufwPc, ufwOutcome, ufwFaults>>
     \/ MayFail("command") /\ EndsWith("error") /\ UNCHANGED <<rules, todo>>
  /\ UNCHANGED <<active, default, ufwJob, num, blind, meddled>>

UfwDone ==
  /\ ufwPc = "add" /\ todo = <<>>
  /\ EndsWith("applied")
  /\ UNCHANGED <<firewall, ufwJob, num, todo, ufwFaults, blind, meddled>>

\* The process dies or its context ends: the shell is killed.
UfwKilled ==
  /\ ufwPc # "idle" /\ MayFail("crash")
  /\ EndsWith("crashed")
  /\ UNCHANGED <<firewall, ufwJob, num, todo, blind, meddled>>

\* The operator's commands: a rule of his own first in the list, one of his
\* less, the default policy, or ufw enabled or disabled.  He leaves the rules
\* of the targets alone.
Operator ==
  /\ MayFail("operator")
  /\ \/ /\ \E n \in UfwNets, a \in {"allow", "deny"} :
             /\ \A i \in DOMAIN rules : rules[i].net # n
             /\ rules' = <<[net |-> n, action |-> a, tag |-> Nobody]>> \o rules
        /\ UNCHANGED <<active, default>>
     \/ /\ \E i \in DOMAIN rules : rules[i].tag = Nobody /\ rules' = RemoveAt(rules, i)
        /\ UNCHANGED <<active, default>>
     \/ default' \in {"allow", "deny"} \ {default} /\ UNCHANGED <<rules, active>>
     \/ active' = ~active /\ UNCHANGED <<rules, default>>
  /\ meddled' = meddled \cup {IF rules' # rules THEN "numbers" ELSE "defaults"}
  /\ UNCHANGED <<ufwPc, ufwJob, num, todo, ufwOutcome, blind>>

UfwNext == \/ UfwApply \/ UfwRemove \/ CheckPolicy \/ UfwNotStarted \/ Find \/ Delete
           \/ AddRule \/ UfwDone \/ UfwKilled \/ Operator

UfwSpec == UfwInit /\ [][UfwNext]_ufwVars

-----------------------------------------------------------------------------
(* Properties                                                              *)

Tagged(t) == {[net |-> rules[i].net, action |-> rules[i].action] :
              i \in {j \in DOMAIN rules : rules[j].tag = t}}
Verdict(n) ==
  LET match == {i \in DOMAIN rules : rules[i].net = n}
  IN IF match = {} THEN default ELSE rules[Min(match)].action

\* "re-run converges": whatever scripts left that failed, were killed or ran
\* for other targets, an apply that reports success leaves the target with
\* the rules of its policy and no other, and a removal that does leaves it
\* without a rule, unless ufw hid its rules.
UfwConverges ==
  [][ufwPc # "idle" /\ ufwOutcome' \in {"applied", "removed"} /\ ufwPc' = "idle" /\ ~blind' =>
       Tagged(ufwJob.target) =
         {[net |-> n, action |-> ufwJob.policy.mode] :
          n \in IF ufwJob.op = "apply" THEN ufwJob.policy.nets ELSE {}}]_ufwVars

\* After an allow list that reports success, who is named in no rule is turned
\* away, unless the operator has changed ufw's defaults in the meantime.
UfwRestricts ==
  [][/\ ufwPc = "add" /\ ufwOutcome' = "applied"
     /\ ufwJob.policy.mode = "allow" /\ "defaults" \notin meddled
     => /\ active
        /\ \A n \in UfwNets : (\A i \in DOMAIN rules : rules[i].net # n) => Verdict(n) = "deny"]_ufwVars

\* A script takes away or changes a rule of another target or of the operator
\* only if its source is one of its own, if the other's tag begins with the
\* target's, or if the operator has changed the numbering under it.
UfwSparesOthers ==
  []["numbers" \notin meddled \cup meddled' /\ ufwPc \in {"delete", "add"} =>
       \A r \in Range(rules) \ Range(rules') :
         \/ r.tag \in Hits[ufwJob.target]
         \/ ufwPc = "add" /\ r.net \in ufwJob.policy.nets]_ufwVars
=============================================================================
