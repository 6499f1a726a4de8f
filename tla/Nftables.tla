------------------------------- MODULE Nftables -------------------------------
(***************************************************************************)
(* The nftables engine on one target (internal/engine/firewall.go).  The   *)
(* ruleset is staged, checked with nft -c, loaded with nft -f (atomic) and *)
(* only then written to the rules file.  The rules file is a note that the *)
(* ruleset was loaded once: an apply that is not forced believes it.  The  *)
(* kernel forgets its tables at a reboot, the file does not.               *)
(***************************************************************************)
EXTENDS Naturals, FiniteSets

CONSTANTS
  Rulesets,  \* rendered rulesets of the target
  Bad,       \* those that nft rejects
  None,      \* no table, no file
  Torn,      \* what a write cut short leaves
  Drops,     \* may a reboot or somebody else's flush empty the kernel
  Faults,    \* what may go wrong: subset of FaultKinds
  MaxFaults  \* bound on the number of faults in a behaviour

\* "read": the rules file cannot be read; "stage": a staging file cannot be
\* written; "check": nft -c cannot run; "load": nft -f fails; "lostLoad": nft -f took
\* effect but its result is lost (the context ended); "persist": the rules
\* file cannot be written; "torn": that write stops half way; "unlink": the
\* rules file cannot be removed; "crash": the process dies.
FaultKinds == {"read", "stage", "check", "load", "lostLoad", "persist", "torn",
               "unlink", "crash"}

ASSUME NftAssumption ==
  /\ Bad \subseteq Rulesets
  /\ None \notin Rulesets /\ Torn \notin Rulesets /\ None # Torn
  /\ Drops \in BOOLEAN
  /\ Faults \subseteq FaultKinds
  /\ MaxFaults \in Nat

VARIABLES
  kernel,   \* the target's table in the kernel
  file,     \* <id>.nft
  staged,   \* <id>.nft.tmp
  pc,       \* the next call of the operation in progress
  job,      \* the ruleset asked for, and whether the apply is forced
  outcome,  \* the Outcome of the last operation
  before,   \* the kernel's table when the last operation began (history)
  noted,    \* the rules file was written after the last change of the
            \* kernel's table (history)
  faults    \* faults so far

vars == <<kernel, file, staged, pc, job, outcome, before, noted, faults>>

-----------------------------------------------------------------------------
Kinds == {"none", "noop", "loaded", "removed", "error", "crashed", "dryRun"}

TypeOK ==
  /\ kernel \in Rulesets \cup {None}
  /\ file \in Rulesets \cup {None, Torn}
  /\ staged \in Rulesets \cup {None}
  /\ pc \in {"idle", "compare", "stage", "check", "load", "persist",
             "teardown", "unlink"}
  /\ job \in [ruleset : Rulesets, force : BOOLEAN]
  /\ outcome \in [kind : Kinds, ok : BOOLEAN]
  /\ before \in Rulesets \cup {None}
  /\ noted \in BOOLEAN
  /\ faults \in Nat

Init ==
  /\ kernel = None /\ file = None /\ staged = None
  /\ pc = "idle"
  /\ job \in [ruleset : Rulesets, force : {TRUE}]
  /\ outcome = [kind |-> "none", ok |-> FALSE]
  /\ before = None
  /\ noted = TRUE
  /\ faults = 0

Goto(next) == pc' = next /\ UNCHANGED <<outcome, faults>>
Finish(kind, ok) ==
  pc' = "idle" /\ outcome' = [kind |-> kind, ok |-> ok] /\ UNCHANGED faults

\* The fault f hits; if nothing makes up for it, the operation ends with an
\* error.
Hit(f) ==
  /\ f \in Faults /\ faults < MaxFaults
  /\ faults' = faults + 1

Broken(f) ==
  /\ Hit(f)
  /\ pc' = "idle" /\ outcome' = [kind |-> "error", ok |-> FALSE]

-----------------------------------------------------------------------------
(* Apply                                                                   *)

BeginApply ==
  /\ pc = "idle"
  /\ \E r \in Rulesets, f \in BOOLEAN : job' = [ruleset |-> r, force |-> f]
  /\ before' = kernel
  /\ Goto("compare")
  /\ UNCHANGED <<kernel, file, staged, noted>>

\* A dry run only checks the ruleset, staged in a file of its own.
DryRun ==
  /\ pc = "idle"
  /\ \/ \E r \in Rulesets : Finish("dryRun", r \notin Bad)
     \/ Broken("stage") \/ Broken("check")
  /\ UNCHANGED <<kernel, file, staged, job, before, noted>>

\* nft is not installed.
NotDetected ==
  /\ pc \in {"compare", "teardown"}
  /\ Broken("check")
  /\ UNCHANGED <<kernel, file, staged, job, before, noted>>

\* Mutant: the rules file is believed even when the apply is forced.
UpToDateUnforced == file = job.ruleset

UpToDate == ~job.force /\ file = job.ruleset

\* A rules file that cannot be read counts as absent.
Compare ==
  /\ pc = "compare"
  /\ \/ UpToDate /\ Finish("noop", TRUE)
     \/ ~UpToDate /\ Goto("stage")
     \/ Hit("read") /\ pc' = "stage" /\ UNCHANGED outcome
  /\ UNCHANGED <<kernel, file, staged, job, before, noted>>

\* Mutant: the rules file itself serves as the staging file.
StageInPlace ==
  /\ pc = "stage"
  /\ file' = job.ruleset /\ staged' = job.ruleset
  /\ Goto("check")
  /\ UNCHANGED <<kernel, job, before, noted>>

Stage ==
  /\ pc = "stage"
  /\ \/ staged' = job.ruleset /\ Goto("check")
     \/ UNCHANGED staged /\ Broken("stage")
  /\ UNCHANGED <<kernel, file, job, before, noted>>

Check ==
  /\ pc = "check"
  /\ \/ staged \notin Bad /\ UNCHANGED staged /\ Goto("load")
     \/ staged \in Bad /\ staged' = None /\ Finish("error", FALSE)
     \/ staged' = None /\ Broken("check")
  /\ UNCHANGED <<kernel, file, job, before, noted>>

\* Mutant: the table is deleted by a command of its own before the new one is
\* loaded, so a load that fails leaves no table.
LoadInTwoSteps ==
  /\ pc = "load"
  /\ \/ kernel' = staged /\ UNCHANGED staged /\ Goto("persist")
     \/ kernel' = None /\ staged' = None /\ Broken("load")
  /\ noted' = FALSE
  /\ UNCHANGED <<file, job, before>>

\* The ruleset deletes and rebuilds the table in one transaction.
Load ==
  /\ pc = "load"
  /\ \/ kernel' = staged /\ noted' = FALSE /\ UNCHANGED staged /\ Goto("persist")
     \/ UNCHANGED <<kernel, noted>> /\ staged' = None /\ Broken("load")
     \/ kernel' = staged /\ noted' = FALSE /\ staged' = None /\ Broken("lostLoad")
  /\ UNCHANGED <<file, job, before>>

Persist ==
  /\ pc = "persist"
  /\ \/ file' = job.ruleset /\ noted' = TRUE /\ Finish("loaded", TRUE)
     \/ UNCHANGED <<file, noted>> /\ Broken("persist")
     \/ file' = Torn /\ UNCHANGED noted /\ Broken("torn")
  /\ staged' = None
  /\ UNCHANGED <<kernel, job, before>>

-----------------------------------------------------------------------------
(* Remove                                                                   *)

BeginRemove ==
  /\ pc = "idle"
  /\ before' = kernel
  /\ Goto("teardown")
  /\ UNCHANGED <<kernel, file, staged, job, noted>>

\* "add table" and "delete table" in one transaction.
Teardown ==
  /\ pc = "teardown"
  /\ \/ kernel' = None /\ noted' = FALSE /\ Goto("unlink")
     \/ UNCHANGED <<kernel, noted>> /\ (Broken("stage") \/ Broken("load"))
     \/ kernel' = None /\ noted' = FALSE /\ Broken("lostLoad")
  /\ UNCHANGED <<file, staged, job, before>>

\* A failure to remove the rules file goes unnoticed.
Unlink ==
  /\ pc = "unlink"
  /\ \/ file' = None /\ noted' = TRUE /\ Finish("removed", TRUE)
     \/ /\ Hit("unlink")
        /\ pc' = "idle" /\ outcome' = [kind |-> "removed", ok |-> TRUE]
        /\ UNCHANGED <<file, noted>>
  /\ UNCHANGED <<kernel, staged, job, before>>

-----------------------------------------------------------------------------
(* The environment                                                         *)

\* The process dies between two calls; the staging file stays.
Crash ==
  /\ pc # "idle"
  /\ Hit("crash")
  /\ pc' = "idle" /\ outcome' = [kind |-> "crashed", ok |-> FALSE]
  /\ UNCHANGED <<kernel, file, staged, job, before, noted>>

\* A reboot, or an "nft flush ruleset" between two operations.
DropTables ==
  /\ Drops /\ pc = "idle" /\ kernel # None
  /\ kernel' = None
  /\ noted' = FALSE
  /\ UNCHANGED <<file, staged, pc, job, outcome, before, faults>>

-----------------------------------------------------------------------------
Apply == BeginApply \/ DryRun \/ NotDetected \/ Compare \/ Stage \/ Check \/ Load \/ Persist
Removal == BeginRemove \/ Teardown \/ Unlink

Next == Apply \/ Removal \/ Crash \/ DropTables

Spec == Init /\ [][Next]_vars

-----------------------------------------------------------------------------
(* Properties                                                              *)

Finishing == pc # "idle" /\ pc' = "idle"

\* "no false no-op": an apply that finds nothing to do leaves the kernel with
\* the ruleset asked for, unless the kernel's table changed without a note in
\* the rules file: it was dropped, or the run that changed it failed half way.
NoFalseNoop ==
  [][noted /\ Finishing /\ outcome'.kind = "noop" => kernel' = job.ruleset]_vars

\* "all-or-nothing": an operation that fails or dies leaves the table as it
\* was or as it was to be, whatever failed; never without rules in between.
AllOrNothing ==
  [][Finishing /\ ~outcome'.ok =>
       kernel' \in {before, IF pc \in {"teardown", "unlink"} THEN None ELSE job.ruleset}]_vars

\* Whatever failed or crashed before, and whatever became of the kernel
\* meanwhile, a forced apply that reports success has the ruleset in force:
\* "re-assert even if no change (reboot/flush dropped kernel state)".
ForcedReasserts ==
  [][Finishing /\ job.force /\ outcome'.ok /\ outcome'.kind # "removed"
       => kernel' = job.ruleset]_vars
=============================================================================
