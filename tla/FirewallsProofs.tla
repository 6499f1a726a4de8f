---------------------------- MODULE FirewallsProofs ----------------------------
(***************************************************************************)
(* What holds of the nftables engine whatever the rulesets are and however *)
(* many faults there are, and of the specification that has it, iptables   *)
(* and ufw as its parts.                                                   *)
(***************************************************************************)
EXTENDS MCFirewalls, IPTablesProofs, UFWProofs

-----------------------------------------------------------------------------
(* nftables                                                                *)

\* The parts of the type invariant.
TablesTyped ==
  /\ kernel \in Rulesets \cup {None} /\ before \in Rulesets \cup {None}
  /\ file \in Rulesets \cup {None, Torn} /\ staged \in Rulesets \cup {None}
  /\ faults \in Nat
StepsTyped ==
  pc \in {"idle", "compare", "stage", "check", "load", "persist", "teardown", "unlink"}
JobTyped == job \in [ruleset : Rulesets, force : BOOLEAN]
OutcomeTyped == outcome \in [kind : Kinds, ok : BOOLEAN]
NotedTyped == noted \in BOOLEAN

\* The state of the engine is well typed.
THEOREM NftTypeCorrect == Spec => []TypeOK
<1>1. Init => TablesTyped /\ StepsTyped /\ JobTyped /\ OutcomeTyped /\ NotedTyped
  <2> SUFFICES ASSUME Init PROVE TablesTyped /\ StepsTyped /\ JobTyped /\ OutcomeTyped /\ NotedTyped
    OBVIOUS
  <2>1. TablesTyped /\ StepsTyped  BY DEF Init, TablesTyped, StepsTyped
  <2>2. JobTyped  BY DEF Init, JobTyped
  <2>3. OutcomeTyped  BY DEF Init, OutcomeTyped, Kinds
  <2>4. NotedTyped  BY DEF Init, NotedTyped
  <2> QED  BY <2>1, <2>2, <2>3, <2>4
<1>2. ASSUME TablesTyped, JobTyped, [Next]_vars PROVE TablesTyped'
  <2> USE DEF TablesTyped, JobTyped, Goto, Finish, Broken, Hit
  <2>1. CASE BeginApply  BY <1>2, <2>1 DEF BeginApply
  <2>2. CASE DryRun  BY <1>2, <2>2 DEF DryRun
  <2>3. CASE NotDetected  BY <1>2, <2>3 DEF NotDetected
  <2>4. CASE Compare  BY <1>2, <2>4 DEF Compare
  <2>5. CASE Stage  BY <1>2, <2>5 DEF Stage
  <2>6. CASE Check  BY <1>2, <2>6 DEF Check
  <2>7. CASE Load  BY <1>2, <2>7 DEF Load
  <2>8. CASE Persist  BY <1>2, <2>8 DEF Persist
  <2>9. CASE BeginRemove  BY <1>2, <2>9 DEF BeginRemove
  <2>10. CASE Teardown  BY <1>2, <2>10 DEF Teardown
  <2>11. CASE Unlink  BY <1>2, <2>11 DEF Unlink
  <2>12. CASE Crash  BY <1>2, <2>12 DEF Crash
  <2>13. CASE DropTables  BY <1>2, <2>13 DEF DropTables
  <2>14. CASE UNCHANGED vars  BY <1>2, <2>14 DEF vars
  <2> QED
    BY <1>2, <2>1, <2>2, <2>3, <2>4, <2>5, <2>6, <2>7, <2>8, <2>9, <2>10, <2>11, <2>12, <2>13, <2>14
       DEF Next, Apply, Removal
<1>3. ASSUME StepsTyped, [Next]_vars PROVE StepsTyped'
  BY <1>3 DEF StepsTyped, Next, vars, Apply, Removal, BeginApply, DryRun, NotDetected, Compare,
         Stage, Check, Load, Persist, BeginRemove, Teardown, Unlink, Crash, DropTables, Goto,
         Finish, Broken, Hit
<1>4. ASSUME JobTyped, [Next]_vars PROVE JobTyped'
  BY <1>4 DEF JobTyped, Next, vars, Apply, Removal, BeginApply, DryRun, NotDetected, Compare,
         Stage, Check, Load, Persist, BeginRemove, Teardown, Unlink, Crash, DropTables, Goto,
         Finish, Broken, Hit
<1>5. ASSUME OutcomeTyped, [Next]_vars PROVE OutcomeTyped'
  <2> DEFINE Ends(k, b) == outcome' = [kind |-> k, ok |-> b]
             Ended == \E k \in Kinds, b \in BOOLEAN : Ends(k, b)
  <2>0. Kinds = {"none", "noop", "loaded", "removed", "error", "crashed", "dryRun"}
    BY DEF Kinds
  <2>1. ASSUME DryRun PROVE Ended
    <3>1. Ends("error", FALSE) \/ \E b \in BOOLEAN : Ends("dryRun", b)
      BY <2>1, Zenon DEF DryRun, Finish, Broken
    <3> QED  BY <2>0, <3>1
  <2>2. NotDetected => UNCHANGED outcome \/ Ended
    BY <2>0, Zenon DEF NotDetected, Goto, Finish, Broken
  <2>3. Compare => UNCHANGED outcome \/ Ended
    BY <2>0, Zenon DEF Compare, Goto, Finish, Broken
  <2>4. Stage => UNCHANGED outcome \/ Ended
    BY <2>0, Zenon DEF Stage, Goto, Finish, Broken
  <2>5. Check => UNCHANGED outcome \/ Ended
    BY <2>0, Zenon DEF Check, Goto, Finish, Broken
  <2>6. Load => UNCHANGED outcome \/ Ended
    BY <2>0, Zenon DEF Load, Goto, Finish, Broken
  <2>7. Persist => UNCHANGED outcome \/ Ended
    BY <2>0, Zenon DEF Persist, Goto, Finish, Broken
  <2>8. Teardown => UNCHANGED outcome \/ Ended
    BY <2>0, Zenon DEF Teardown, Goto, Finish, Broken
  <2>9. Unlink => UNCHANGED outcome \/ Ended
    BY <2>0, Zenon DEF Unlink, Goto, Finish, Broken
  <2>10. Crash => UNCHANGED outcome \/ Ended
    BY <2>0, Zenon DEF Crash, Goto, Finish, Broken
  <2>11. UNCHANGED vars \/ BeginApply \/ BeginRemove \/ DropTables => UNCHANGED outcome
    BY DEF BeginApply, BeginRemove, DropTables, Goto, vars
  <2> HIDE DEF Ended
  <2>12. UNCHANGED outcome \/ Ended
    BY <1>5, <2>1, <2>2, <2>3, <2>4, <2>5, <2>6, <2>7, <2>8, <2>9, <2>10, <2>11
       DEF Next, Apply, Removal
  <2> QED  BY <1>5, <2>12 DEF OutcomeTyped, Ended
<1>6. ASSUME NotedTyped, [Next]_vars PROVE NotedTyped'
  <2>1. noted' = noted \/ noted' = TRUE \/ noted' = FALSE
    BY <1>6, Zenon DEF Next, vars, Apply, Removal, BeginApply, DryRun, NotDetected, Compare,
         Stage, Check, Load, Persist, BeginRemove, Teardown, Unlink, Crash, DropTables, Goto,
         Finish, Broken, Hit
  <2> QED  BY <1>6, <2>1, Zenon DEF NotedTyped
<1>7. TablesTyped /\ StepsTyped /\ JobTyped /\ OutcomeTyped /\ NotedTyped <=> TypeOK
  BY DEF TypeOK, TablesTyped, StepsTyped, JobTyped, OutcomeTyped, NotedTyped
<1> QED
  BY <1>1, <1>2, <1>3, <1>4, <1>5, <1>6, <1>7, PTL DEF Spec

\* What the steps of an apply hand on to one another.
HandedOn ==
  /\ pc \in {"check", "load"} => staged = job.ruleset
  /\ pc = "persist" => kernel = job.ruleset

LEMMA HandedOnInit == Init => HandedOn
  BY DEF Init, HandedOn

LEMMA HandedOnStep == HandedOn /\ [Next]_vars => HandedOn'
<1> SUFFICES ASSUME HandedOn, [Next]_vars PROVE HandedOn'
  OBVIOUS
<1> USE DEF HandedOn, Goto, Finish, Broken, Hit
<1>1. CASE BeginApply  BY <1>1 DEF BeginApply
<1>2. CASE DryRun  BY <1>2 DEF DryRun
<1>3. CASE NotDetected  BY <1>3 DEF NotDetected
<1>4. CASE Compare  BY <1>4 DEF Compare
<1>5. CASE Stage  BY <1>5 DEF Stage
<1>6. CASE Check  BY <1>6 DEF Check
<1>7. CASE Load  BY <1>7 DEF Load
<1>8. CASE Persist  BY <1>8 DEF Persist
<1>9. CASE BeginRemove  BY <1>9 DEF BeginRemove
<1>10. CASE Teardown  BY <1>10 DEF Teardown
<1>11. CASE Unlink  BY <1>11 DEF Unlink
<1>12. CASE Crash  BY <1>12 DEF Crash
<1>13. CASE DropTables  BY <1>13 DEF DropTables
<1>14. CASE UNCHANGED vars  BY <1>14 DEF vars
<1> QED
  BY <1>1, <1>2, <1>3, <1>4, <1>5, <1>6, <1>7, <1>8, <1>9, <1>10, <1>11, <1>12, <1>13, <1>14
     DEF Next, Apply, Removal

LEMMA HandedOnAlways == Spec => []HandedOn
  BY HandedOnInit, HandedOnStep, PTL DEF Spec

-----------------------------------------------------------------------------
\* A step that ends a forced apply with success is the one that follows the
\* load, and only the load changes the kernel before it.
LEMMA ForcedStep ==
  HandedOn /\ [Next]_vars =>
    (Finishing /\ job.force /\ outcome'.ok /\ outcome'.kind # "removed"
       => kernel' = job.ruleset)
<1> SUFFICES ASSUME HandedOn, [Next]_vars,
                    Finishing, job.force, outcome'.ok, outcome'.kind # "removed"
             PROVE  kernel' = job.ruleset
  OBVIOUS
<1> USE DEF HandedOn, Goto, Finish, Broken, Hit, Finishing
<1>1. CASE BeginApply  BY <1>1 DEF BeginApply
<1>2. CASE DryRun  BY <1>2 DEF DryRun
<1>3. CASE NotDetected  BY <1>3 DEF NotDetected
<1>4. CASE Compare  BY <1>4 DEF Compare, UpToDate
<1>5. CASE Stage  BY <1>5 DEF Stage
<1>6. CASE Check  BY <1>6 DEF Check
<1>7. CASE Load  BY <1>7 DEF Load
<1>8. CASE Persist  BY <1>8 DEF Persist
<1>9. CASE BeginRemove  BY <1>9 DEF BeginRemove
<1>10. CASE Teardown  BY <1>10 DEF Teardown
<1>11. CASE Unlink  BY <1>11 DEF Unlink
<1>12. CASE Crash  BY <1>12 DEF Crash
<1>13. CASE DropTables  BY <1>13 DEF DropTables
<1>14. CASE UNCHANGED vars  BY <1>14 DEF vars
<1> QED
  BY <1>1, <1>2, <1>3, <1>4, <1>5, <1>6, <1>7, <1>8, <1>9, <1>10, <1>11, <1>12, <1>13, <1>14
     DEF Next, Apply, Removal

\* A forced apply that reports success has its ruleset in force, under every
\* fault and after any loss of the kernel's tables.
THEOREM ForcedApplyReasserts == Spec => ForcedReasserts
<1>1. HandedOn /\ [Next]_vars =>
        [Finishing /\ job.force /\ outcome'.ok /\ outcome'.kind # "removed"
           => kernel' = job.ruleset]_vars
  BY ForcedStep
<1> QED
  BY <1>1, HandedOnAlways, PTL DEF Spec, ForcedReasserts

-----------------------------------------------------------------------------
\* A rules file written after the last change of the kernel's table tells
\* what the kernel runs.
NoteHolds ==
  /\ HandedOn
  /\ noted /\ file \in Rulesets => kernel = file

LEMMA NoteInit == Init => NoteHolds
  BY HandedOnInit, NftAssumption DEF Init, NoteHolds, NftAssumption

LEMMA NoteStep == NoteHolds /\ [Next]_vars => NoteHolds'
<1> SUFFICES ASSUME NoteHolds, [Next]_vars PROVE NoteHolds'
  OBVIOUS
<1>0. HandedOn'
  BY HandedOnStep DEF NoteHolds
<1> SUFFICES ASSUME noted', file' \in Rulesets
             PROVE  kernel' = file'
  BY <1>0 DEF NoteHolds
<1> USE NftAssumption DEF NoteHolds, HandedOn, Goto, Finish, Broken, Hit, NftAssumption
<1>1. CASE BeginApply  BY <1>1 DEF BeginApply
<1>2. CASE DryRun  BY <1>2 DEF DryRun
<1>3. CASE NotDetected  BY <1>3 DEF NotDetected
<1>4. CASE Compare  BY <1>4 DEF Compare
<1>5. CASE Stage  BY <1>5 DEF Stage
<1>6. CASE Check  BY <1>6 DEF Check
<1>7. CASE Load  BY <1>7 DEF Load
<1>8. CASE Persist  BY <1>8 DEF Persist
<1>9. CASE BeginRemove  BY <1>9 DEF BeginRemove
<1>10. CASE Teardown  BY <1>10 DEF Teardown
<1>11. CASE Unlink  BY <1>11 DEF Unlink
<1>12. CASE Crash  BY <1>12 DEF Crash
<1>13. CASE DropTables  BY <1>13 DEF DropTables
<1>14. CASE UNCHANGED vars  BY <1>14 DEF vars
<1> QED
  BY <1>1, <1>2, <1>3, <1>4, <1>5, <1>6, <1>7, <1>8, <1>9, <1>10, <1>11, <1>12, <1>13, <1>14
     DEF Next, Apply, Removal

\* "nothing to do" is said by one step only, and it trusts the rules file.
LEMMA NoopOnlyInCompare ==
  ASSUME [Next]_vars, Finishing, outcome'.kind = "noop" PROVE Compare
<1> USE DEF Goto, Finish, Broken, Hit, Finishing
<1>1. CASE BeginApply  BY <1>1 DEF BeginApply
<1>2. CASE DryRun  BY <1>2 DEF DryRun
<1>3. CASE NotDetected  BY <1>3 DEF NotDetected
<1>4. CASE Compare  BY <1>4
<1>5. CASE Stage  BY <1>5 DEF Stage
<1>6. CASE Check  BY <1>6 DEF Check
<1>7. CASE Load  BY <1>7 DEF Load
<1>8. CASE Persist  BY <1>8 DEF Persist
<1>9. CASE BeginRemove  BY <1>9 DEF BeginRemove
<1>10. CASE Teardown  BY <1>10 DEF Teardown
<1>11. CASE Unlink  BY <1>11 DEF Unlink
<1>12. CASE Crash  BY <1>12 DEF Crash
<1>13. CASE DropTables  BY <1>13 DEF DropTables
<1>14. CASE UNCHANGED vars  BY <1>14 DEF vars
<1> QED
  BY <1>1, <1>2, <1>3, <1>4, <1>5, <1>6, <1>7, <1>8, <1>9, <1>10, <1>11, <1>12, <1>13, <1>14
     DEF Next, Apply, Removal

LEMMA NoopStep ==
  NoteHolds /\ job \in [ruleset : Rulesets, force : BOOLEAN] /\ [Next]_vars =>
    (noted /\ Finishing /\ outcome'.kind = "noop" => kernel' = job.ruleset)
<1> SUFFICES ASSUME NoteHolds, job \in [ruleset : Rulesets, force : BOOLEAN], [Next]_vars,
                    noted, Finishing, outcome'.kind = "noop"
             PROVE  kernel' = job.ruleset
  OBVIOUS
<1>1. Compare
  BY NoopOnlyInCompare
<1>2. UpToDate /\ kernel' = kernel
  BY <1>1 DEF Compare, Goto, Hit, Finishing
<1> QED
  BY <1>2 DEF NoteHolds, UpToDate

\* An apply that finds nothing to do has the ruleset in force, unless the
\* kernel's table changed after the rules file was written.
THEOREM NoopIsTrue == Spec => NoFalseNoop
<1>1. Spec => []NoteHolds
  BY NoteInit, NoteStep, PTL DEF Spec
<1>2. NoteHolds /\ TypeOK /\ [Next]_vars =>
        [noted /\ Finishing /\ outcome'.kind = "noop" => kernel' = job.ruleset]_vars
  BY NoopStep DEF TypeOK
<1> QED
  BY <1>1, <1>2, NftTypeCorrect, PTL DEF Spec, NoFalseNoop

-----------------------------------------------------------------------------
\* Up to the load, or the teardown, an operation leaves the kernel alone.
KernelKept ==
  /\ HandedOn
  /\ pc \in {"compare", "stage", "check", "load", "teardown"} => kernel = before
  /\ pc = "unlink" => kernel = None

LEMMA KernelKeptInit == Init => KernelKept
  BY HandedOnInit DEF Init, KernelKept

LEMMA KernelKeptStep == KernelKept /\ [Next]_vars => KernelKept'
<1> SUFFICES ASSUME KernelKept, [Next]_vars PROVE KernelKept'
  OBVIOUS
<1>0. HandedOn'
  BY HandedOnStep DEF KernelKept
<1> USE <1>0 DEF KernelKept, HandedOn, Goto, Finish, Broken, Hit
<1>1. CASE BeginApply  BY <1>1 DEF BeginApply
<1>2. CASE DryRun  BY <1>2 DEF DryRun
<1>3. CASE NotDetected  BY <1>3 DEF NotDetected
<1>4. CASE Compare  BY <1>4 DEF Compare
<1>5. CASE Stage  BY <1>5 DEF Stage
<1>6. CASE Check  BY <1>6 DEF Check
<1>7. CASE Load  BY <1>7 DEF Load
<1>8. CASE Persist  BY <1>8 DEF Persist
<1>9. CASE BeginRemove  BY <1>9 DEF BeginRemove
<1>10. CASE Teardown  BY <1>10 DEF Teardown
<1>11. CASE Unlink  BY <1>11 DEF Unlink
<1>12. CASE Crash  BY <1>12 DEF Crash
<1>13. CASE DropTables  BY <1>13 DEF DropTables
<1>14. CASE UNCHANGED vars  BY <1>14 DEF vars
<1> QED
  BY <1>1, <1>2, <1>3, <1>4, <1>5, <1>6, <1>7, <1>8, <1>9, <1>10, <1>11, <1>12, <1>13, <1>14
     DEF Next, Apply, Removal

LEMMA WholeStep ==
  /\ KernelKept
  /\ pc \in {"idle", "compare", "stage", "check", "load", "persist", "teardown", "unlink"}
  /\ [Next]_vars
  => (Finishing /\ ~outcome'.ok =>
        kernel' \in {before, IF pc \in {"teardown", "unlink"} THEN None ELSE job.ruleset})
<1> SUFFICES ASSUME KernelKept,
                    pc \in {"idle", "compare", "stage", "check", "load", "persist",
                            "teardown", "unlink"},
                    [Next]_vars, Finishing, ~outcome'.ok
             PROVE  kernel' \in {before, IF pc \in {"teardown", "unlink"} THEN None
                                        ELSE job.ruleset}
  OBVIOUS
<1> USE DEF KernelKept, HandedOn, Goto, Finish, Broken, Hit, Finishing
<1>1. CASE BeginApply  BY <1>1 DEF BeginApply
<1>2. CASE DryRun  BY <1>2 DEF DryRun
<1>3. CASE NotDetected  BY <1>3 DEF NotDetected
<1>4. CASE Compare  BY <1>4 DEF Compare
<1>5. CASE Stage  BY <1>5 DEF Stage
<1>6. CASE Check  BY <1>6 DEF Check
<1>7. CASE Load  BY <1>7 DEF Load
<1>8. CASE Persist  BY <1>8 DEF Persist
<1>9. CASE BeginRemove  BY <1>9 DEF BeginRemove
<1>10. CASE Teardown  BY <1>10 DEF Teardown
<1>11. CASE Unlink  BY <1>11 DEF Unlink
<1>12. CASE Crash  BY <1>12 DEF Crash
<1>13. CASE DropTables  BY <1>13 DEF DropTables
<1>14. CASE UNCHANGED vars  BY <1>14 DEF vars
<1> QED
  BY <1>1, <1>2, <1>3, <1>4, <1>5, <1>6, <1>7, <1>8, <1>9, <1>10, <1>11, <1>12, <1>13, <1>14
     DEF Next, Apply, Removal

\* A failed or interrupted operation leaves the kernel's table as it was or
\* as it was to be, under every fault.
THEOREM KernelIsAllOrNothing == Spec => AllOrNothing
<1>1. Spec => []KernelKept
  BY KernelKeptInit, KernelKeptStep, PTL DEF Spec
<1>2. /\ KernelKept
      /\ TypeOK /\ [Next]_vars
      => [Finishing /\ ~outcome'.ok =>
            kernel' \in {before, IF pc \in {"teardown", "unlink"} THEN None
                                ELSE job.ruleset}]_vars
  BY WholeStep DEF TypeOK
<1> QED
  BY <1>1, <1>2, NftTypeCorrect, PTL DEF Spec, AllOrNothing

-----------------------------------------------------------------------------
(* The engines together                                                    *)

\* A behaviour of the whole is one of each engine: two of them stand still.
THEOREM EnginesAreRun == FirewallsSpec => Spec /\ IptSpec /\ UfwSpec
<1>1. FirewallsInit => Init /\ IptInit /\ UfwInit
  BY DEF FirewallsInit
<1>2. [FirewallsNext]_<<engine, vars, iptVars, ufwVars>> =>
        [Next]_vars /\ [IptNext]_iptVars /\ [UfwNext]_ufwVars
  BY DEF FirewallsNext
<1> QED
  BY <1>1, <1>2, PTL DEF FirewallsSpec, Spec, IptSpec, UfwSpec

\* The state of each engine is well typed, whichever of them runs.
THEOREM FirewallsTypeCorrect == FirewallsSpec => []FirewallsTypeOK
<1>1. TypeOK /\ IptTypeOK /\ UfwTypeOK => FirewallsTypeOK
  BY DEF FirewallsTypeOK
<1> QED
  BY <1>1, EnginesAreRun, NftTypeCorrect, IptTypeCorrect, UfwTypeCorrect, PTL
=============================================================================
