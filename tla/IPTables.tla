------------------------------- MODULE IPTables -------------------------------
(***************************************************************************)
(* The iptables engine on one target: the shell scripts that               *)
(* internal/engine/iptables.go renders and internal/engine/scriptfw.go     *)
(* runs.  Per address family there is an ipset, a temporary one to fill    *)
(* and swap with it, a chain, and a jump from INPUT to the chain.  The     *)
(* scripts are not atomic: one command is one step, any of them can fail   *)
(* ("set -e" then ends the script, "|| true" goes on), and the next script *)
(* starts from whatever the last one left.                                 *)
(***************************************************************************)
EXTENDS Naturals, SequencesExt

CONSTANTS
  IptNets,     \* CIDR ranges; also the source addresses that are looked at
  IptPolicies,  \* what a target may ask for: [mode, ranges per family]
  Absent,      \* no such set, no such chain
  IptFaults,   \* what may go wrong: subset of IptFaultKinds
  MaxIptFaults, \* bound on the number of faults in a behaviour
  MaxJumps     \* bound on the jumps to the chain

Families == {"v4", "v6"}

\* "command": a command fails that ends its script; "tolerated": one fails
\* whose failure the script ignores, although it could have succeeded;
\* "crash": the shell is killed.
IptFaultKinds == {"command", "tolerated", "crash"}

\* A rule drops new connections to the target's ports: from inside the set,
\* from outside of it, or all.
Rules == {"in", "out", "all"}

ASSUME IptAssumption ==
  /\ IptPolicies \subseteq [mode : {"allow", "deny"}, ranges : [Families -> SUBSET IptNets]]
  /\ \A p \in IptPolicies, f \in Families : IsFiniteSet(p.ranges[f])
  /\ \A S \in (SUBSET IptNets) \cup (SUBSET Rules) : S # Absent
  /\ IptFaults \subseteq IptFaultKinds
  /\ MaxIptFaults \in Nat /\ MaxJumps \in Nat \ {0}

VARIABLES
  sets,     \* per family, the set rules refer to and the temporary one
  chain,    \* per family, the rules of the chain
  jumps,    \* per family, how often INPUT jumps to the chain
  script,   \* the commands still to run
  iptJob,   \* the operation in progress
  iptOutcome, \* the Outcome of the last operation
  iptFaults, \* faults so far
  ignored   \* history: a script has gone on after a failure of this kind

iptVars == <<sets, chain, jumps, script, iptJob, iptOutcome, iptFaults, ignored>>

Cmd(do, fam, arg) == [do |-> do, fam |-> fam, arg |-> arg]

IptTypeOK ==
  /\ sets \in [Families -> [{"base", "temp"} -> (SUBSET IptNets) \cup {Absent}]]
  /\ chain \in [Families -> (SUBSET Rules) \cup {Absent}]
  /\ jumps \in [Families -> 0 .. MaxJumps]
  /\ iptJob \in [op : {"none", "apply", "remove"}, policy : IptPolicies]
  /\ iptOutcome \in [kind : {"none", "applied", "removed", "error", "crashed", "dryRun"},
                     ok : BOOLEAN]
  /\ iptFaults \in Nat /\ ignored \in BOOLEAN

-----------------------------------------------------------------------------
(* The scripts                                                             *)

\* Mutant: what an earlier script left in the temporary set is kept.
FillUnflushed(f, nets) ==
  <<Cmd("create", f, "base"), Cmd("create", f, "temp")>>
    \o [i \in 1 .. Cardinality(nets) |-> Cmd("add", f, <<"temp", SetToSeq(nets)[i]>>)]
    \o <<Cmd("swap", f, "temp"), Cmd("destroy", f, "temp")>>

\* Mutant: the set is refilled in place.
FillInPlace(f, nets) ==
  <<Cmd("create", f, "base"), Cmd("flush", f, "base")>>
    \o [i \in 1 .. Cardinality(nets) |-> Cmd("add", f, <<"base", SetToSeq(nets)[i]>>)]

Fill(f, nets) ==
  <<Cmd("create", f, "base"), Cmd("create", f, "temp"), Cmd("flush", f, "temp")>>
    \o [i \in 1 .. Cardinality(nets) |-> Cmd("add", f, <<"temp", SetToSeq(nets)[i]>>)]
    \o <<Cmd("swap", f, "temp"), Cmd("destroy", f, "temp")>>

ChainRule(f, rule) ==
  <<Cmd("newChain", f, Absent), Cmd("flushChain", f, Absent), Cmd("append", f, rule),
    Cmd("ensureJump", f, Absent)>>

\* An empty family is closed in allow mode and left alone in deny mode.
Emit(p, f) ==
  CASE p.ranges[f] = {} /\ p.mode = "deny" -> <<>>
    [] p.ranges[f] = {} /\ p.mode = "allow" -> ChainRule(f, "all")
    [] OTHER -> Fill(f, p.ranges[f]) \o ChainRule(f, IF p.mode = "allow" THEN "out" ELSE "in")

ApplyScript(p) == Emit(p, "v4") \o Emit(p, "v6")

\* Mutant: the chain is deleted with its rules still in it.
DetachUnflushed(f) == <<Cmd("dropJump", f, Absent), Cmd("deleteChain", f, Absent)>>

Detach(f) == <<Cmd("dropJump", f, Absent), Cmd("tryFlushChain", f, Absent),
               Cmd("deleteChain", f, Absent)>>

RemoveScript ==
  Detach("v4") \o Detach("v6")
    \o <<Cmd("tryDestroy", "v4", "base"), Cmd("tryDestroy", "v6", "base")>>

\* Commands followed by "|| true".
Tolerated == {"newChain", "dropJump", "tryFlushChain", "deleteChain", "tryDestroy"}

-----------------------------------------------------------------------------
(* The commands: external programs, seen from the kernel state they change *)

IptInit ==
  /\ sets = [f \in Families |-> [base |-> Absent, temp |-> Absent]]
  /\ chain = [f \in Families |-> Absent]
  /\ jumps = [f \in Families |-> 0]
  /\ script = <<>>
  /\ iptJob \in [op : {"none"}, policy : IptPolicies]
  /\ iptOutcome = [kind |-> "none", ok |-> FALSE]
  /\ iptFaults = 0 /\ ignored = FALSE

Now(do) == iptJob.op # "none" /\ script # <<>> /\ Head(script).do = do
Fam == Head(script).fam
Arg == Head(script).arg
Goes == script' = Tail(script) /\ UNCHANGED <<iptJob, iptOutcome, iptFaults, ignored>>

\* A set that a rule refers to cannot be destroyed.
Referred(f) == chain[f] # Absent /\ chain[f] \cap {"in", "out"} # {}

CreateSet ==
  /\ Now("create")
  /\ sets' = [sets EXCEPT ![Fam][Arg] = IF @ = Absent THEN {} ELSE @]
  /\ Goes /\ UNCHANGED <<chain, jumps>>

FlushSet ==
  /\ Now("flush")
  /\ sets' = [sets EXCEPT ![Fam][Arg] = {}]
  /\ Goes /\ UNCHANGED <<chain, jumps>>

AddNet ==
  /\ Now("add")
  /\ sets' = [sets EXCEPT ![Fam][Arg[1]] = @ \cup {Arg[2]}]
  /\ Goes /\ UNCHANGED <<chain, jumps>>

SwapSets ==
  /\ Now("swap")
  /\ sets' = [sets EXCEPT ![Fam] = [base |-> @.temp, temp |-> @.base]]
  /\ Goes /\ UNCHANGED <<chain, jumps>>

DestroySet ==
  /\ Now("destroy") \/ Now("tryDestroy")
  /\ sets[Fam][Arg] # Absent
  /\ ~(Arg = "base" /\ Referred(Fam))
  /\ sets' = [sets EXCEPT ![Fam][Arg] = Absent]
  /\ Goes /\ UNCHANGED <<chain, jumps>>

NewChain ==
  /\ Now("newChain") /\ chain[Fam] = Absent
  /\ chain' = [chain EXCEPT ![Fam] = {}]
  /\ Goes /\ UNCHANGED <<sets, jumps>>

FlushChain ==
  /\ Now("flushChain") \/ Now("tryFlushChain")
  /\ chain[Fam] # Absent
  /\ chain' = [chain EXCEPT ![Fam] = {}]
  /\ Goes /\ UNCHANGED <<sets, jumps>>

AppendRule ==
  /\ Now("append") /\ chain[Fam] # Absent
  /\ chain' = [chain EXCEPT ![Fam] = @ \cup {Arg}]
  /\ Goes /\ UNCHANGED <<sets, jumps>>

\* Mutant: the jump is inserted without looking for one.
EnsureJumpBlindly ==
  /\ Now("ensureJump")
  /\ jumps' = [jumps EXCEPT ![Fam] = @ + 1]
  /\ Goes /\ UNCHANGED <<sets, chain>>

\* "-C INPUT -j || -I INPUT -j".  A check that fails for another reason, as
\* when the xtables lock is taken, inserts a second jump.
EnsureJump ==
  /\ Now("ensureJump")
  /\ \/ jumps' = [jumps EXCEPT ![Fam] = IF @ = 0 THEN 1 ELSE @] /\ Goes
     \/ /\ "tolerated" \in IptFaults /\ iptFaults < MaxIptFaults /\ jumps[Fam] \in 1 .. MaxJumps - 1
        /\ jumps' = [jumps EXCEPT ![Fam] = @ + 1]
        /\ iptFaults' = iptFaults + 1 /\ ignored' = TRUE
        /\ script' = Tail(script) /\ UNCHANGED <<iptJob, iptOutcome>>
  /\ UNCHANGED <<sets, chain>>

DropJump ==
  /\ Now("dropJump") /\ jumps[Fam] > 0
  /\ jumps' = [jumps EXCEPT ![Fam] = @ - 1]
  /\ Goes /\ UNCHANGED <<sets, chain>>

DeleteChain ==
  /\ Now("deleteChain") /\ chain[Fam] = {} /\ jumps[Fam] = 0
  /\ chain' = [chain EXCEPT ![Fam] = Absent]
  /\ Goes /\ UNCHANGED <<sets, jumps>>

-----------------------------------------------------------------------------
(* Failing commands, and the operations                                    *)

\* The commands that cannot do what they say.
Impossible ==
  \/ Now("newChain") /\ chain[Fam] # Absent
  \/ (Now("flushChain") \/ Now("tryFlushChain")) /\ chain[Fam] = Absent
  \/ Now("dropJump") /\ jumps[Fam] = 0
  \/ Now("deleteChain") /\ (chain[Fam] # {} \/ jumps[Fam] > 0)
  \/ (Now("destroy") \/ Now("tryDestroy"))
       /\ (sets[Fam][Arg] = Absent \/ (Arg = "base" /\ Referred(Fam)))

EndScript(kind, ok) ==
  /\ script' = <<>>
  /\ iptJob' = [iptJob EXCEPT !.op = "none"]
  /\ iptOutcome' = [kind |-> kind, ok |-> ok]

CommandFails ==
  /\ iptJob.op # "none" /\ script # <<>>
  /\ \/ Impossible /\ UNCHANGED <<iptFaults, ignored>>
     \/ /\ (IF Head(script).do \in Tolerated THEN "tolerated" ELSE "command") \in IptFaults
        /\ iptFaults < MaxIptFaults /\ iptFaults' = iptFaults + 1
        /\ ignored' = (ignored \/ Head(script).do \in Tolerated)
  /\ IF Head(script).do \in Tolerated
     THEN script' = Tail(script) /\ UNCHANGED <<iptJob, iptOutcome>>
     ELSE EndScript("error", FALSE)
  /\ UNCHANGED <<sets, chain, jumps>>

StartScript(op, p, commands) ==
  /\ iptJob.op = "none"
  /\ iptJob' = [op |-> op, policy |-> p]
  /\ script' = commands
  /\ UNCHANGED <<sets, chain, jumps, iptOutcome, iptFaults, ignored>>

IptApply == \E p \in IptPolicies : StartScript("apply", p, ApplyScript(p))
IptRemove == StartScript("remove", iptJob.policy, RemoveScript)

\* The engine is not installed, or its script cannot be written.
IptNotStarted ==
  /\ iptJob.op = "none"
  /\ "command" \in IptFaults /\ iptFaults < MaxIptFaults
  /\ iptFaults' = iptFaults + 1
  /\ iptOutcome' = [kind |-> "error", ok |-> FALSE]
  /\ UNCHANGED <<sets, chain, jumps, script, iptJob, ignored>>

\* A dry run only shows the script.
IptDryRun ==
  /\ iptJob.op = "none"
  /\ iptOutcome' = [kind |-> "dryRun", ok |-> TRUE]
  /\ UNCHANGED <<sets, chain, jumps, script, iptJob, iptFaults, ignored>>

IptDone ==
  /\ iptJob.op # "none" /\ script = <<>>
  /\ EndScript(IF iptJob.op = "apply" THEN "applied" ELSE "removed", TRUE)
  /\ UNCHANGED <<sets, chain, jumps, iptFaults, ignored>>

\* The process dies or its context ends: the shell is killed.
IptKilled ==
  /\ "crash" \in IptFaults /\ iptFaults < MaxIptFaults
  /\ iptJob.op # "none"
  /\ iptFaults' = iptFaults + 1
  /\ EndScript("crashed", FALSE)
  /\ UNCHANGED <<sets, chain, jumps, ignored>>

Command == \/ CreateSet \/ FlushSet \/ AddNet \/ SwapSets \/ DestroySet \/ NewChain
           \/ FlushChain \/ AppendRule \/ EnsureJump \/ DropJump \/ DeleteChain

IptNext == \/ IptApply \/ IptRemove \/ IptNotStarted \/ IptDryRun \/ IptDone \/ IptKilled
           \/ CommandFails \/ Command

IptSpec == IptInit /\ [][IptNext]_iptVars

-----------------------------------------------------------------------------
(* Properties                                                              *)

\* The sources whose new connections the kernel drops, and those the policy
\* wants dropped.
Dropped(f) ==
  IF jumps[f] = 0 \/ chain[f] = Absent THEN {}
  ELSE {n \in IptNets : \/ "all" \in chain[f]
                        \/ "in" \in chain[f] /\ n \in sets[f]["base"]
                        \/ "out" \in chain[f] /\ n \notin sets[f]["base"]}
ToDrop(p, f) == IF p.mode = "allow" THEN IptNets \ p.ranges[f] ELSE p.ranges[f]

\* "re-run converges": whatever earlier scripts left behind, half-run ones
\* included, a script that runs to its end puts the policy into force.
ApplyConverges ==
  [][iptJob.op = "apply" /\ iptJob'.op = "none" /\ iptOutcome'.ok =>
       \A f \in Families : Dropped(f)' = ToDrop(iptJob.policy, f)]_iptVars

\* "atomic ipset swap": the set that rules refer to is never a part of a list.
SetsAreWhole ==
  \A f \in Families :
    sets[f]["base"] \in {Absent, {}} \cup {p.ranges[f] : p \in IptPolicies}

\* A removal leaves no chain, no jump and no set in use, also after scripts
\* that failed or were killed half way.  Not after a failure that a script
\* ignored: "-D" takes out one of two jumps, "-X || true" leaves the chain.
RemoveDetaches ==
  [][iptJob.op = "remove" /\ iptJob'.op = "none" /\ iptOutcome'.ok /\ ~ignored =>
       \A f \in Families :
         chain[f] = Absent /\ jumps[f] = 0 /\ sets[f]["base"] = Absent]_iptVars
=============================================================================
