--------------------------- MODULE SafeApplyProofs ---------------------------
(***************************************************************************)
(* Theorems about SafeApply, for every set of payloads, blocks and         *)
(* operator's parts, every checker, both transports and any number of      *)
(* faults.                                                                 *)
(***************************************************************************)
EXTENDS SafeApply, TLAPS

-----------------------------------------------------------------------------
(* What the Transport's calls can do.                                      *)

LEMMA ChangeResult ==
  ASSUME NEW old, NEW new, NEW w \in Change(old, new)
  PROVE  /\ w.now \in {old, new}
         /\ w.cost \in Nat
         /\ w.ok => w.now = new /\ ~FilesDead
         /\ FilesDead => w.now = old
         /\ w.cost = 0 /\ ~FilesDead => w.now = new /\ w.ok
<1>1. \/ /\ FilesDead
         /\ w = [now |-> old, ok |-> FALSE, cost |-> 0]
      \/ /\ ~FilesDead
         /\ w = [now |-> new, ok |-> TRUE, cost |-> 0]
      \/ /\ ~FilesDead
         /\ w = [now |-> old, ok |-> FALSE, cost |-> 1]
      \/ /\ ~FilesDead
         /\ w = [now |-> new, ok |-> FALSE, cost |-> 1]
  BY Zenon DEF Change
<1> QED
  BY <1>1

LEMMA PutResult ==
  ASSUME NEW old, NEW new, NEW torn, NEW w \in Put(old, new, torn)
  PROVE  /\ w.now \in {old, new, torn}
         /\ w.cost \in Nat
         /\ w.ok => w.now = new /\ ~FilesDead
         /\ FilesDead => w.now = old
         /\ w.cost = 0 /\ ~FilesDead => w.now = new /\ w.ok
<1>1. CASE w \in Change(old, new)
  BY <1>1, ChangeResult
<1>2. CASE w \notin Change(old, new)
  <2>1. /\ w = [now |-> torn, ok |-> FALSE, cost |-> 1]
        /\ ~FilesDead
    BY <1>2, Zenon DEF Put
  <2> QED
    BY <2>1
<1> QED
  BY <1>1, <1>2

LEMMA CheckResult ==
  ASSUME NEW r \in Checks
  PROVE  r.cost \in Nat /\ (r.ok => Accepted)
<1>1. \/ r = [ok |-> Accepted /\ ~ctxDone, cost |-> 0]
      \/ r = [ok |-> FALSE, cost |-> 1]
  BY Zenon DEF Checks
<1>2. CASE r = [ok |-> Accepted /\ ~ctxDone, cost |-> 0]
  <2>1. r.cost \in Nat
    BY <1>2
  <2>2. r.ok = (Accepted /\ ~ctxDone)
    BY <1>2, Zenon
  <2> QED
    BY <2>1, <2>2, Zenon
<1> QED
  BY <1>1, <1>2

LEMMA ReloadResult ==
  ASSUME NEW r \in Reloads
  PROVE  r.cost \in Nat /\ (r.loads => Accepted)
<1>1. \/ r = [ok |-> Accepted /\ ~ctxDone, loads |-> Accepted /\ ~ctxDone, cost |-> 0]
      \/ r = [ok |-> FALSE, loads |-> FALSE, cost |-> 1]
      \/ r = [ok |-> FALSE, loads |-> Accepted, cost |-> 1]
  BY Zenon DEF Reloads
<1>2. CASE r = [ok |-> Accepted /\ ~ctxDone, loads |-> Accepted /\ ~ctxDone, cost |-> 0]
  <2>1. r.cost \in Nat
    BY <1>2
  <2>2. r.loads = (Accepted /\ ~ctxDone)
    BY <1>2, Zenon
  <2> QED
    BY <2>1, <2>2, Zenon
<1>3. CASE r = [ok |-> FALSE, loads |-> Accepted, cost |-> 1]
  <2>1. r.cost \in Nat
    BY <1>3
  <2>2. r.loads = Accepted
    BY <1>3, Zenon
  <2> QED
    BY <2>1, <2>2, Zenon
<1> QED
  BY <1>1, <1>2, <1>3

-----------------------------------------------------------------------------
(* Type correctness.  It is inductive together with what the steps after a *)
(* read rely on: the configuration they read was there.                    *)

OrigSteps == {"writeManaged", "writeConf", "unstage", "validate", "reload",
              "restoreConf", "restoreManaged", "readStrip", "writeStripped",
              "validateStripped", "reloadStripped", "restoreStripped"}
OrigRead == pc \in OrigSteps => job.orig # Absent
TypeInv == TypeOK /\ OrigRead

LEMMA LoadedType ==
  ASSUME TypeOK, Accepted
  PROVE  Enforced \in Policy \cup {Off}
BY DataAssumption DEF TypeOK, Accepted, Enforced, Policy, Managed, Conf, ConfText


LEMMA TypeInit == Init => TypeInv
<1> SUFFICES ASSUME Init PROVE TypeInv
  OBVIOUS
<1>1. managed \in Managed /\ conf \in Conf /\ live \in Policy \cup {Off}
  BY DEF Init, Managed, Conf
<1>2. job \in Job /\ ctxDone \in BOOLEAN /\ faults \in Nat /\ doubt \subseteq Doubts
  BY DEF Init
<1>3. outcome \in Outcome
  BY DEF Init, NoOutcome, Outcome, Kinds
<1>4. before \in Managed \X Conf
  BY <1>1 DEF Init, disk
<1>5. pc \in PCs /\ OrigRead
  BY DEF Init, PCs, OrigRead, OrigSteps
<1> QED
  BY <1>1, <1>2, <1>3, <1>4, <1>5 DEF TypeInv, TypeOK

LEMMA BeginTyped ==
  ASSUME TypeInv, NEW op \in {"apply", "remove"},
         NEW first \in {"readManaged", "probeConf"}, Begin(op, first)
  PROVE  TypeInv'
<1>1. job' \in Job
  BY DEF Begin, Job, Managed, Conf
<1>2. outcome' \in Outcome
  BY DEF Begin, NoOutcome, Outcome, Kinds
<1>3. before' \in Managed \X Conf
  BY DEF Begin, disk, TypeInv, TypeOK
<1>4. pc' \in PCs /\ OrigRead'
  BY DEF Begin, PCs, ApplySteps, RemoveSteps, OrigRead, OrigSteps
<1> QED
  BY <1>1, <1>2, <1>3, <1>4 DEF Begin, disk, tally, TypeInv, TypeOK

LEMMA FinishTyped ==
  ASSUME NEW k \in Kinds, NEW o \in BOOLEAN, NEW c \in BOOLEAN, Finish(k, o, c)
  PROVE  pc' = "idle" /\ outcome' \in Outcome /\ before' = before
BY DEF Finish, Outcome

\* Every operation reports a well-formed outcome.
LEMMA ReportStep ==
  ASSUME TypeInv, [Next]_vars
  PROVE  outcome' \in Outcome /\ before' \in Managed \X Conf
<1> USE FinishTyped DEF TypeInv, TypeOK, Kinds, Goto
<1>1. CASE BeginApply \/ BeginRemove
  BY <1>1, BeginTyped DEF BeginApply, BeginRemove
<1>2. CASE DryRun
  <2>1. CASE Finish("error", FALSE, FALSE)
    BY <2>1
  <2>2. CASE ~ Finish("error", FALSE, FALSE)
    <3>1. PICK r \in Payloads, b \in Blocks :
            Finish("dryRun", Accepted, managed # r \/ conf # Inject(conf, b))
      BY <1>2, <2>2 DEF DryRun
    <3>2. /\ Accepted \in BOOLEAN
          /\ (managed # r \/ conf # Inject(conf, b)) \in BOOLEAN
      BY Zenon DEF Accepted
    <3>3. "dryRun" \in Kinds
      OBVIOUS
    <3> QED
      BY <3>1, <3>2, <3>3, FinishTyped, Zenon
  <2> QED
    BY <2>1, <2>2
<1>3. CASE NotDetected
  BY <1>3 DEF NotDetected
<1>4. CASE ReadManaged
  BY <1>4 DEF ReadManaged
<1>5. CASE ReadConf
  BY <1>5 DEF ReadConf
<1>6. CASE WriteManaged
  BY <1>6 DEF WriteManaged
<1>7. CASE WriteConf
  BY <1>7 DEF WriteConf
<1>8. CASE Unstage
  BY <1>8 DEF Unstage
<1>9. CASE Validate
  BY <1>9 DEF Validate, ValidateThen
<1>10. CASE Reload
  BY <1>10 DEF Reload
<1>11. CASE RestoreConf
  BY <1>11 DEF RestoreConf
<1>12. CASE RestoreManaged
  BY <1>12 DEF RestoreManaged
<1>13. CASE ReloadPrior
  BY <1>13 DEF ReloadPrior
<1>14. CASE ProbeConf
  BY <1>14 DEF ProbeConf
<1>15. CASE ReadStrip
  BY <1>15 DEF ReadStrip
<1>16. CASE WriteStripped
  BY <1>16 DEF WriteStripped
<1>17. CASE ValidateStripped
  BY <1>17 DEF ValidateStripped, ValidateThen
<1>18. CASE ReloadStripped
  BY <1>18 DEF ReloadStripped
<1>19. CASE RestoreStripped
  BY <1>19 DEF RestoreStripped
<1>20. CASE RemoveManaged
  BY <1>20 DEF RemoveManaged
<1>21. CASE Cancel
  BY <1>21 DEF Cancel
<1>22. CASE Crash
  BY <1>22 DEF Crash
<1>23. CASE Edit
  BY <1>23 DEF Edit
<1>24. CASE Delete
  BY <1>24 DEF Delete
<1>25. CASE OtherReload
  BY <1>25 DEF OtherReload
<1>26. CASE UNCHANGED vars
  BY <1>26 DEF vars
<1> QED
  BY <1>1, <1>2, <1>3, <1>4, <1>5, <1>6, <1>7, <1>8, <1>9, <1>10, <1>11, <1>12, <1>13, <1>14, <1>15, <1>16, <1>17, <1>18, <1>19, <1>20, <1>21, <1>22, <1>23, <1>24, <1>25, <1>26
     DEF Next, ApplyStep, RemoveStep, Environment

LEMMA TypeStep == TypeInv /\ [Next]_vars => TypeInv'
<1> SUFFICES ASSUME TypeInv, [Next]_vars
             PROVE  TypeInv'
  OBVIOUS
<1>0. outcome' \in Outcome /\ before' \in Managed \X Conf
  BY ReportStep
<1> USE DataAssumption
    DEF TypeInv, TypeOK, OrigRead, OrigSteps, Managed, Conf, ConfText, Job,
        PCs, ApplySteps, RemoveSteps, disk, tally, Doubts, Spend, SpendOnFile, SpendOnReload
<1>1. CASE BeginApply
  BY <1>1, BeginTyped DEF BeginApply
<1>2. CASE BeginRemove
  BY <1>2, BeginTyped DEF BeginRemove
<1>3. CASE DryRun
  BY <1>0, <1>3 DEF DryRun, Finish
<1>4. CASE NotDetected
  BY <1>0, <1>4 DEF NotDetected, Finish
<1>5. CASE ReadManaged
  BY <1>0, <1>5 DEF ReadManaged, Goto
<1>6. CASE ReadConf
  BY <1>0, <1>6 DEF ReadConf, Goto, Finish
<1>7. CASE WriteManaged
  BY <1>0, <1>7, PutResult DEF WriteManaged, PutManaged, Goto, Finish
<1>8. CASE WriteConf
  BY <1>0, <1>8, PutResult DEF WriteConf, PutConf, TornConf, Inject, Goto
<1>9. CASE Unstage
  BY <1>0, <1>9, PutResult, ChangeResult DEF Unstage, UndoManaged, DropManaged, PutManaged, Finish
<1>10. CASE Validate
  BY <1>0, <1>10, CheckResult DEF Validate, ValidateThen, Goto
<1>11. CASE Reload
  BY <1>0, <1>11, ReloadResult, LoadedType DEF Reload, Goto, Finish
<1>12. CASE RestoreConf
  BY <1>0, <1>12, PutResult DEF RestoreConf, UndoConf, PutConf, TornConf, Goto
<1>13. CASE RestoreManaged
  BY <1>0, <1>13, PutResult, ChangeResult DEF RestoreManaged, UndoManaged, DropManaged, PutManaged, Goto, Finish
<1>14. CASE ReloadPrior
  BY <1>0, <1>14, ReloadResult, LoadedType DEF ReloadPrior, Finish
<1>15. CASE ProbeConf
  BY <1>0, <1>15 DEF ProbeConf
<1>16. CASE ReadStrip
  BY <1>0, <1>16 DEF ReadStrip, Goto, Finish
<1>17. CASE WriteStripped
  BY <1>0, <1>17, PutResult DEF WriteStripped, PutConf, TornConf, Strip, Goto, Finish
<1>18. CASE ValidateStripped
  BY <1>0, <1>18, CheckResult DEF ValidateStripped, ValidateThen, Goto
<1>19. CASE ReloadStripped
  BY <1>0, <1>19, ReloadResult, LoadedType DEF ReloadStripped, Goto
<1>20. CASE RestoreStripped
  BY <1>0, <1>20, PutResult DEF RestoreStripped, UndoConf, PutConf, TornConf, Goto, Finish
<1>21. CASE RemoveManaged
  BY <1>0, <1>21, ChangeResult DEF RemoveManaged, DropManaged, Finish
<1>22. CASE Cancel
  BY <1>0, <1>22 DEF Cancel
<1>23. CASE Crash
  <2>1. /\ managed' \in Managed /\ conf' \in Conf
        /\ faults' \in Nat /\ doubt' \subseteq Doubts
    BY <1>23 DEF Crash, TornConf
  <2> QED
    BY <1>0, <1>23, <2>1 DEF Crash, Finish
<1>24. CASE Edit
  BY <1>0, <1>24 DEF Edit
<1>25. CASE Delete
  BY <1>0, <1>25 DEF Delete
<1>26. CASE OtherReload
  BY <1>0, <1>26, LoadedType DEF OtherReload
<1>27. CASE UNCHANGED vars
  BY <1>27 DEF vars
<1> QED
  BY <1>1, <1>2, <1>3, <1>4, <1>5, <1>6, <1>7, <1>8, <1>9, <1>10, <1>11, <1>12, <1>13, <1>14, <1>15, <1>16, <1>17, <1>18, <1>19, <1>20, <1>21, <1>22, <1>23, <1>24, <1>25, <1>26, <1>27
     DEF Next, ApplyStep, RemoveStep, Environment

\* Every reachable state is well typed (TypeOK).
THEOREM TypeCorrect == Spec => []TypeOK
<1>1. TypeInv => TypeOK
  BY DEF TypeInv
<1> QED
  BY <1>1, TypeInit, TypeStep, PTL DEF Spec

-----------------------------------------------------------------------------
(* "never reload cfg failing its checker", whatever fails.                 *)

LEMMA ForwardInit == Init => ForwardReloadsAccepted
BY DEF Init, ForwardReloadsAccepted

LEMMA ForwardStep ==
  ForwardReloadsAccepted /\ [Next]_vars => ForwardReloadsAccepted'
<1> SUFFICES ASSUME ForwardReloadsAccepted, [Next]_vars,
                    pc' \in {"reload", "reloadStripped"}
             PROVE  Accepted'
  BY DEF ForwardReloadsAccepted
<1>1. CASE Validate \/ ValidateStripped
  <2>1. Accepted /\ UNCHANGED disk
    BY <1>1, CheckResult DEF Validate, ValidateStripped, ValidateThen, Goto
  <2> QED
    BY <2>1 DEF Accepted, disk
<1>2. CASE UNCHANGED pc
  <2>1. UNCHANGED disk
    BY <1>2 DEF Next, BeginApply, BeginRemove, Begin, DryRun, NotDetected, ApplyStep,
       ReadManaged, ReadConf, WriteManaged, WriteConf, Unstage, Validate, ValidateThen,
       Reload, RestoreConf, RestoreManaged, ReloadPrior, RemoveStep, ProbeConf,
       ReadStrip, WriteStripped, ValidateStripped, ReloadStripped, RestoreStripped,
       RemoveManaged, Environment, Cancel, Crash, Edit, Delete, OtherReload,
       Goto, Finish, disk, vars
  <2> QED
    BY <1>2, <2>1 DEF ForwardReloadsAccepted, Accepted, disk
<1>3. CASE pc' # pc /\ ~Validate /\ ~ValidateStripped
  BY <1>3 DEF Next, BeginApply, BeginRemove, Begin, DryRun, NotDetected, ApplyStep,
     ReadManaged, ReadConf, WriteManaged, WriteConf, Unstage,
     Reload, RestoreConf, RestoreManaged, ReloadPrior, RemoveStep, ProbeConf,
     ReadStrip, WriteStripped, ReloadStripped, RestoreStripped,
     RemoveManaged, Environment, Cancel, Crash, Edit, Delete, OtherReload,
     Goto, Finish, vars
<1> QED
  BY <1>1, <1>2, <1>3

\* A change reaches the running server only in a form its checker accepted.
THEOREM ChangesAreChecked == Spec => []ForwardReloadsAccepted
BY ForwardInit, ForwardStep, PTL DEF Spec

-----------------------------------------------------------------------------
(* The include never dangles, as long as single file operations do what    *)
(* they report: cancellations, crashes between two calls, failing checks   *)
(* and failing reloads are all allowed.  The strengthening says, for each  *)
(* step, what the files and the operation's locals have to do with one     *)
(* another.                                                                *)

FilesSure == "files" \notin doubt

StagedSteps == {"writeConf", "unstage", "validate", "reload", "restoreConf",
                "restoreManaged"}

\* The managed file is there as long as the configuration may refer to it.
Staged == pc \in StagedSteps => managed # Absent

\* "No managed file" was read only if there was none ...
PriorSeen == pc = "readConf" /\ job.prior = Absent /\ ~FilesDead => managed = Absent

\* ... and then the configuration had no block either.
FreshConf == pc \in StagedSteps \cup {"writeManaged"} /\ job.prior = Absent
               => job.orig.block = NoBlock

\* A failed write of the configuration means that no file can be written.
UnstageDead == pc = "unstage" => FilesDead

\* The managed file is undone after the configuration.
ConfRestored == pc = "restoreManaged" /\ ~FilesDead => conf = job.orig

\* Removal: the block is out of the file between writing and restoring it,
StrippedOut == pc \in {"validateStripped", "reloadStripped"} => conf.block = NoBlock

\* restoring it is safe, since the managed file was not touched,
Undoable ==
  pc \in {"readStrip", "writeStripped", "validateStripped", "reloadStripped",
          "restoreStripped"} /\ job.orig.block # NoBlock => managed # Absent

\* and the managed file is dropped only when nothing refers to it.
DropSafe == pc = "dropManaged" /\ ~FilesDead
              => conf = Absent \/ conf.block = NoBlock

IncludeSteps == /\ Staged /\ PriorSeen /\ FreshConf /\ UnstageDead /\ ConfRestored
                /\ StrippedOut /\ Undoable /\ DropSafe
IncludeInv == TypeInv /\ IncludeNeverDangles /\ (FilesSure => IncludeSteps)

LEMMA IncludeInit == Init => IncludeInv
<1> SUFFICES ASSUME Init PROVE IncludeInv
  OBVIOUS
<1>1. TypeInv
  BY TypeInit
<1> QED
  BY <1>1 DEF Init, IncludeInv, IncludeSteps, FilesSure, IncludeNeverDangles, Staged, StagedSteps, PriorSeen,
     FreshConf, UnstageDead, ConfRestored, StrippedOut, Undoable, DropSafe

\* Doubt about the files does not go away.
LEMMA DoubtStays ==
  ASSUME TypeOK, [Next]_vars, FilesSure'
  PROVE  FilesSure
BY DEF FilesSure, Next, BeginApply, BeginRemove, Begin, DryRun, NotDetected, ApplyStep,
   ReadManaged, ReadConf, WriteManaged, WriteConf, Unstage, Validate, ValidateThen,
   Reload, RestoreConf, RestoreManaged, ReloadPrior, RemoveStep, ProbeConf,
   ReadStrip, WriteStripped, ValidateStripped, ReloadStripped, RestoreStripped,
   RemoveManaged, Environment, Cancel, Crash, Edit, Delete, OtherReload,
   Spend, SpendOnFile, SpendOnReload, tally, vars

LEMMA IncludeStep == IncludeInv /\ [Next]_vars => IncludeInv'
<1> SUFFICES ASSUME IncludeInv, [Next]_vars, FilesSure'
             PROVE  (IncludeNeverDangles /\ IncludeSteps)'
  BY TypeStep DEF IncludeInv, IncludeNeverDangles, FilesSure
<1>0. TypeInv'
  BY TypeStep DEF IncludeInv
<1>r. FilesSure /\ IncludeSteps
  BY DoubtStays DEF IncludeInv, TypeInv
<1> USE DataAssumption, <1>0, <1>r
    DEF IncludeInv, IncludeSteps, FilesSure, IncludeNeverDangles, Staged, StagedSteps,
        PriorSeen, FreshConf, UnstageDead, ConfRestored, StrippedOut, Undoable, DropSafe,
        TypeInv, TypeOK, OrigRead, OrigSteps, Managed, Conf, ConfText, Job,
        FilesDead, disk, tally, SpendOnFile
<1>1. CASE BeginApply
  BY <1>1 DEF BeginApply, Begin
<1>2. CASE BeginRemove
  BY <1>2 DEF BeginRemove, Begin
<1>3. CASE DryRun
  BY <1>3 DEF DryRun, Finish
<1>4. CASE NotDetected
  BY <1>4 DEF NotDetected, Finish
<1>5. CASE ReadManaged
  BY <1>5 DEF ReadManaged, Goto
<1>6. CASE ReadConf
  BY <1>6 DEF ReadConf, Goto, Finish
<1>7. CASE WriteManaged
  BY <1>7, PutResult DEF WriteManaged, PutManaged, Goto, Finish
<1>8. CASE WriteConf
  BY <1>8, PutResult DEF WriteConf, PutConf, Inject, Goto
<1>9. CASE Unstage
  BY <1>9, PutResult, ChangeResult DEF Unstage, UndoManaged, DropManaged, PutManaged, Finish
<1>10. CASE Validate
  BY <1>10 DEF Validate, ValidateThen, Goto
<1>11. CASE Reload
  BY <1>11 DEF Reload, Goto, Finish
<1>12. CASE RestoreConf
  BY <1>12, PutResult DEF RestoreConf, UndoConf, PutConf, Goto
<1>13. CASE RestoreManaged
  BY <1>13, PutResult, ChangeResult DEF RestoreManaged, UndoManaged, DropManaged, PutManaged, Goto, Finish
<1>14. CASE ReloadPrior
  BY <1>14 DEF ReloadPrior, Finish
<1>15. CASE ProbeConf
  BY <1>15 DEF ProbeConf
<1>16. CASE ReadStrip
  BY <1>16 DEF ReadStrip, Goto, Finish
<1>17. CASE WriteStripped
  BY <1>17, PutResult DEF WriteStripped, PutConf, Strip, Goto, Finish
<1>18. CASE ValidateStripped
  BY <1>18 DEF ValidateStripped, ValidateThen, Goto
<1>19. CASE ReloadStripped
  BY <1>19 DEF ReloadStripped, Goto
<1>20. CASE RestoreStripped
  BY <1>20, PutResult DEF RestoreStripped, UndoConf, PutConf, Goto, Finish
<1>21. CASE RemoveManaged
  BY <1>21, ChangeResult DEF RemoveManaged, DropManaged, Finish
<1>22. CASE Cancel
  BY <1>22 DEF Cancel
<1>23. CASE Crash
  BY <1>23 DEF Crash, Finish
<1>24. CASE Edit
  BY <1>24 DEF Edit
<1>25. CASE Delete
  BY <1>25 DEF Delete
<1>26. CASE OtherReload
  BY <1>26 DEF OtherReload
<1>27. CASE UNCHANGED vars
  BY <1>27 DEF vars
<1> QED
  BY <1>1, <1>2, <1>3, <1>4, <1>5, <1>6, <1>7, <1>8, <1>9, <1>10, <1>11, <1>12, <1>13, <1>14, <1>15, <1>16, <1>17, <1>18, <1>19, <1>20, <1>21, <1>22, <1>23, <1>24, <1>25, <1>26, <1>27
     DEF Next, ApplyStep, RemoveStep, Environment

\* The configuration never refers to a managed file that is gone, not even
\* after a crash or a cancellation between any two calls, until a file
\* operation fails or is answered wrongly.
THEOREM IncludeIsSafe == Spec => []IncludeNeverDangles
<1>1. IncludeInv => IncludeNeverDangles
  BY DEF IncludeInv
<1> QED
  BY <1>1, IncludeStep, IncludeInit, PTL DEF Spec

-----------------------------------------------------------------------------
(* A removal that reports success leaves nothing behind, also when earlier *)
(* operations were cut short: until there is doubt, what the server        *)
(* enforces has its managed file, so that a removal which finds neither    *)
(* block nor file may say that there is nothing to do.                     *)

Sure == doubt = {}

\* What is enforced has its file ...
LiveHasFile == conf # Absent /\ (live # Off => managed # Absent)

\* ... so that nothing is enforced when an apply found no managed file.
NothingBefore ==
  pc \in StagedSteps \cup {"writeManaged"} /\ job.prior = Absent => live = Off

\* The managed file is dropped after the server has let go, or not at all.
LetGo == pc = "dropManaged" =>
           IF job.orig = Absent THEN FilesDead ELSE live = Off /\ conf.block = NoBlock

SureSteps == LiveHasFile /\ NothingBefore /\ LetGo
SureInv == IncludeInv /\ (Sure => SureSteps)

LEMMA ReloadSaysWhatItDid ==
  ASSUME NEW r \in Reloads, SpendOnReload(r), Sure'
  PROVE  r.ok <=> r.loads
<1>1. r.ok => r.loads
  <2>1. \/ r = [ok |-> Accepted /\ ~ctxDone, loads |-> Accepted /\ ~ctxDone, cost |-> 0]
        \/ r = [ok |-> FALSE, loads |-> FALSE, cost |-> 1]
        \/ r = [ok |-> FALSE, loads |-> Accepted, cost |-> 1]
    BY Zenon DEF Reloads
  <2>2. CASE r = [ok |-> Accepted /\ ~ctxDone, loads |-> Accepted /\ ~ctxDone, cost |-> 0]
    <3>1. r.ok = (Accepted /\ ~ctxDone) /\ r.loads = (Accepted /\ ~ctxDone)
      BY <2>2, Zenon
    <3> QED  BY <3>1, Zenon
  <2>3. CASE \/ r = [ok |-> FALSE, loads |-> FALSE, cost |-> 1]
             \/ r = [ok |-> FALSE, loads |-> Accepted, cost |-> 1]
    BY <2>3
  <2> QED  BY <2>1, <2>2, <2>3
<1>2. r.loads => r.ok
  BY DEF SpendOnReload, Sure
<1> QED  BY <1>1, <1>2

LEMMA SureInit == Init => SureInv
<1> SUFFICES ASSUME Init PROVE SureInv
  OBVIOUS
<1>1. IncludeInv
  BY IncludeInit
<1>2. conf # Absent
  BY DataAssumption DEF Init, ConfText
<1> QED
  BY <1>1, <1>2 DEF Init, SureInv, SureSteps, LiveHasFile, NothingBefore, LetGo, StagedSteps

LEMMA SureStays == ASSUME TypeOK, [Next]_vars, Sure' PROVE Sure
BY DEF Sure, Next, BeginApply, BeginRemove, Begin, DryRun, NotDetected, ApplyStep,
   ReadManaged, ReadConf, WriteManaged, WriteConf, Unstage, Validate, ValidateThen,
   Reload, RestoreConf, RestoreManaged, ReloadPrior, RemoveStep, ProbeConf,
   ReadStrip, WriteStripped, ValidateStripped, ReloadStripped, RestoreStripped,
   RemoveManaged, Environment, Cancel, Crash, Edit, Delete, OtherReload,
   Spend, SpendOnFile, SpendOnReload, tally, vars

\* A configuration file stays one when its block changes.
LEMMA StaysText ==
  ASSUME NEW c \in Conf, c # Absent, NEW b \in Blocks \cup {NoBlock}
  PROVE  /\ Inject(c, b) \in ConfText /\ Inject(c, b).block = b
         /\ Strip(c) \in ConfText /\ Strip(c).block = NoBlock
         /\ Inject(c, b) # Absent /\ Strip(c) # Absent
<1>1. c \in ConfText
  BY DEF Conf
<1>2. /\ Inject(c, b) \in ConfText /\ Inject(c, b).block = b
      /\ Strip(c) \in ConfText /\ Strip(c).block = NoBlock
  BY <1>1 DEF ConfText, Inject, Strip
<1>3. Absent \notin ConfText
  BY DataAssumption DEF ConfText
<1> QED  BY <1>2, <1>3

LEMMA SureStep == SureInv /\ [Next]_vars => SureInv'
<1> SUFFICES ASSUME SureInv, [Next]_vars, Sure' PROVE SureSteps'
  BY IncludeStep DEF SureInv
<1>0. IncludeInv /\ IncludeInv' /\ TypeInv /\ TypeInv'
  BY IncludeStep DEF SureInv, IncludeInv
<1>r. Sure /\ SureSteps
  BY <1>0, SureStays DEF SureInv, TypeInv
<1>i. IncludeSteps /\ IncludeNeverDangles
  BY <1>0, <1>r DEF IncludeInv, FilesSure, Sure
<1>e. Enforced # Off => managed # Absent
  BY <1>i, <1>r DEF Enforced, IncludeNeverDangles, Sure
<1> USE DataAssumption, <1>0, <1>r, <1>i
    DEF Sure, SureSteps, LiveHasFile, NothingBefore, LetGo, StagedSteps,
        TypeInv, TypeOK, OrigRead, OrigSteps, Conf, Job, FilesDead, disk, tally, SpendOnFile
<1>1. CASE BeginApply \/ BeginRemove
  BY <1>1 DEF BeginApply, BeginRemove, Begin
<1>2. CASE DryRun
  BY <1>2 DEF DryRun, Finish
<1>3. CASE NotDetected
  BY <1>3 DEF NotDetected, Finish
<1>4. CASE ReadManaged
  BY <1>4 DEF ReadManaged, Goto
<1>5. CASE ReadConf
  BY <1>5 DEF ReadConf, Goto, Finish, IncludeSteps, PriorSeen
<1>6. CASE WriteManaged
  BY <1>6, PutResult DEF WriteManaged, PutManaged, Goto, Finish
<1>7. CASE WriteConf
  <2>1. PICK w \in PutConf(Inject(job.orig, job.block)) :
          conf' = w.now /\ SpendOnFile(w.cost)
    BY <1>7 DEF WriteConf
  <2>2. conf' # Absent
    <3>1. Inject(job.orig, job.block) # Absent
      BY <1>7, StaysText DEF WriteConf
    <3>2. w.cost = 0
      BY <2>1, PutResult DEF PutConf
    <3> QED  BY <2>1, <3>1, <3>2, PutResult DEF PutConf
  <2> QED
    BY <1>7, <2>2 DEF WriteConf, Goto
<1>8. CASE Unstage
  BY <1>8, PutResult, ChangeResult
     DEF Unstage, UndoManaged, DropManaged, PutManaged, Finish, IncludeSteps, UnstageDead
<1>9. CASE Validate
  BY <1>9 DEF Validate, ValidateThen, Goto
<1>10. CASE Reload
  <2>1. PICK r \in Reloads :
          /\ SpendOnReload(r)
          /\ live' = IF r.loads THEN Enforced ELSE live
          /\ IF r.ok THEN Finish("applied", TRUE, TRUE) /\ UNCHANGED job
             ELSE Goto("restoreConf") /\ job' = [job EXCEPT !.cause = "reload"]
    BY <1>10 DEF Reload
  <2>2. r.ok <=> r.loads
    BY <2>1, ReloadSaysWhatItDid
  <2>3. CASE r.ok
    BY <1>10, <1>e, <2>1, <2>2, <2>3 DEF Reload, Finish
  <2>4. CASE ~r.ok
    BY <1>10, <2>1, <2>2, <2>4 DEF Reload, Goto
  <2> QED  BY <2>3, <2>4
<1>11. CASE RestoreConf
  BY <1>11, PutResult DEF RestoreConf, UndoConf, PutConf, Goto
<1>12. CASE RestoreManaged
  BY <1>12, PutResult, ChangeResult
     DEF RestoreManaged, UndoManaged, DropManaged, PutManaged, Goto, Finish
<1>13. CASE ReloadPrior
  BY <1>13, <1>e DEF ReloadPrior, Finish
<1>14. CASE ProbeConf
  <2>1. PICK lie \in {FALSE} \cup {x \in {TRUE} : CanFail("probe")} :
          /\ SpendOnFile(IF lie THEN 1 ELSE 0)
          /\ IF lie \/ FilesDead \/ conf = Absent
             THEN pc' = "dropManaged" /\ job' = [job EXCEPT !.orig = Absent]
             ELSE pc' = "readStrip" /\ job' = [job EXCEPT !.orig = conf]
    BY <1>14 DEF ProbeConf
  <2>2. ~lie
    BY <2>1
  <2>3. CASE FilesDead
    BY <1>14, <2>1, <2>3 DEF ProbeConf
  <2>4. CASE ~FilesDead
    BY <1>14, <2>1, <2>2, <2>4 DEF ProbeConf
  <2> QED  BY <2>3, <2>4
<1>15. CASE ReadStrip
  BY <1>15 DEF ReadStrip, Goto, Finish
<1>16. CASE WriteStripped
  <2>1. PICK w \in PutConf(Strip(job.orig)) : conf' = w.now /\ SpendOnFile(w.cost)
    BY <1>16 DEF WriteStripped
  <2>2. conf' # Absent
    <3>1. Strip(job.orig) # Absent
      BY <1>16, StaysText DEF WriteStripped
    <3>2. w.cost = 0
      BY <2>1, PutResult DEF PutConf
    <3> QED  BY <2>1, <3>1, <3>2, PutResult DEF PutConf
  <2> QED
    BY <1>16, <2>2 DEF WriteStripped, Goto, Finish
<1>17. CASE ValidateStripped
  BY <1>17 DEF ValidateStripped, ValidateThen, Goto
<1>18. CASE ReloadStripped
  <2>1. PICK r \in Reloads :
          /\ SpendOnReload(r)
          /\ live' = IF r.loads THEN Enforced ELSE live
          /\ IF r.ok THEN Goto("dropManaged") /\ UNCHANGED job
             ELSE Goto("restoreStripped") /\ job' = [job EXCEPT !.cause = "reload"]
    BY <1>18 DEF ReloadStripped
  <2>2. r.ok <=> r.loads
    BY <2>1, ReloadSaysWhatItDid
  <2>3. conf.block = NoBlock /\ job.orig # Absent /\ Enforced = Off
    BY <1>18 DEF ReloadStripped, IncludeSteps, StrippedOut, Enforced
  <2>4. CASE r.ok
    BY <1>18, <2>1, <2>2, <2>3, <2>4 DEF ReloadStripped, Goto
  <2>5. CASE ~r.ok
    BY <1>18, <2>1, <2>2, <2>5 DEF ReloadStripped, Goto
  <2> QED  BY <2>4, <2>5
<1>19. CASE RestoreStripped
  BY <1>19, PutResult DEF RestoreStripped, UndoConf, PutConf, Goto, Finish
<1>20. CASE RemoveManaged
  BY <1>20, ChangeResult DEF RemoveManaged, DropManaged, Finish
<1>21. CASE Cancel
  BY <1>21 DEF Cancel
<1>22. CASE Crash
  BY <1>22 DEF Crash, Finish
<1>23. CASE Edit
  <2>1. PICK r \in Rests : conf' = [block |-> conf.block, rest |-> r]
    BY <1>23 DEF Edit
  <2>2. conf' \in ConfText
    BY <2>1 DEF ConfText
  <2>3. conf' # Absent
    BY <2>2 DEF ConfText
  <2> QED
    BY <1>23, <2>3 DEF Edit
<1>24. CASE Delete \/ OtherReload
  BY <1>24 DEF Delete, OtherReload
<1>25. CASE UNCHANGED vars
  BY <1>25 DEF vars
<1> QED
  BY <1>1, <1>2, <1>3, <1>4, <1>5, <1>6, <1>7, <1>8, <1>9, <1>10, <1>11, <1>12, <1>13, <1>14, <1>15, <1>16, <1>17, <1>18, <1>19, <1>20, <1>21, <1>22, <1>23, <1>24, <1>25
     DEF Next, ApplyStep, RemoveStep, Environment

LEMMA RemovedStep ==
  ASSUME SureInv, Next, Finishing, outcome'.kind \in {"removed", "already"},
         doubt' = {}, ~FilesDead
  PROVE  live' = Off /\ managed' = Absent /\ conf'.block = NoBlock
<1>0. Sure /\ SureSteps /\ TypeInv
  BY SureStays DEF Sure, SureInv, IncludeInv, TypeInv
<1>1. CASE RemoveManaged
  <2>1. PICK w \in DropManaged : managed' = w.now /\ SpendOnFile(w.cost)
    BY <1>1 DEF RemoveManaged
  <2>2. managed' = Absent
    BY <2>1, ChangeResult DEF DropManaged, SpendOnFile
  <2> QED
    BY <1>0, <1>1, <2>2 DEF RemoveManaged, Finish, SureSteps, LetGo, disk
<1>2. CASE ReadStrip
  <2>1. PICK lie \in {FALSE} \cup {x \in {TRUE} : CanFail("probe")} :
          /\ SpendOnFile(IF lie THEN 1 ELSE 0)
          /\ AlreadyRemoved(IF lie THEN Absent ELSE managed)
    BY <1>2 DEF ReadStrip, Goto, Finish, Finishing
  <2>2. ~lie
    BY <2>1 DEF SpendOnFile
  <2>3. managed = Absent /\ Strip(conf) = conf /\ conf # Absent
    BY <1>0, <2>1, <2>2 DEF AlreadyRemoved, SureSteps, LiveHasFile
  <2>4. conf.block = NoBlock /\ live = Off
    BY <1>0, <2>3, StaysText DEF TypeInv, TypeOK, SureSteps, LiveHasFile
  <2> QED
    BY <1>2, <2>3, <2>4 DEF ReadStrip, disk
<1>3. CASE ~RemoveManaged /\ ~ReadStrip
  BY <1>3 DEF Finishing, Next, BeginApply, BeginRemove, Begin, DryRun, NotDetected, ApplyStep,
     ReadManaged, ReadConf, WriteManaged, WriteConf, Unstage, Validate, ValidateThen,
     Reload, RestoreConf, RestoreManaged, ReloadPrior, RemoveStep, ProbeConf,
     WriteStripped, ValidateStripped, ReloadStripped, RestoreStripped,
     Environment, Cancel, Crash, Edit, Delete, OtherReload, Goto, Finish
<1> QED
  BY <1>1, <1>2, <1>3

\* "Uninstall": a removal that reports success has taken the policy out of the
\* server and both files, whatever crashed, failed or was cancelled before,
\* until a file operation failed or lied, or somebody else loaded or deleted
\* something.
THEOREM RemovalsUndo == Spec => RemoveSuccessUndoes
<1>1. SureInv /\ [Next]_vars =>
        [Finishing /\ outcome'.kind \in {"removed", "already"} /\ doubt' = {} /\ ~FilesDead =>
           /\ live' = Off
           /\ managed' = Absent
           /\ conf'.block = NoBlock]_vars
  BY RemovedStep DEF Finishing, vars
<1> QED
  BY <1>1, SureInit, SureStep, PTL DEF Spec, RemoveSuccessUndoes

-----------------------------------------------------------------------------
(* What the rollback achieves                                              *)

\* File operations do what they report, and obey no context.
Reliable == Transport = "local" /\ Faults \cap {"write", "torn", "probe"} = {}

LEMMA SureChange ==
  ASSUME Reliable, NEW old, NEW new, NEW w \in Change(old, new)
  PROVE  w.now = new /\ w.ok /\ w.cost = 0
<1>1. ~FilesDead /\ ~CanFail("write") /\ ~CanFail("lostWrite")
  BY EnvironmentAssumption DEF Reliable, FilesDead, CanFail
<1>2. w = [now |-> new, ok |-> TRUE, cost |-> 0]
  BY <1>1, Zenon DEF Change
<1> QED
  BY <1>2

LEMMA SurePut ==
  ASSUME Reliable, NEW old, NEW new, NEW torn, NEW w \in Put(old, new, torn)
  PROVE  w.now = new /\ w.ok /\ w.cost = 0
<1>1. ~CanFail("torn")
  BY DEF Reliable, CanFail
<1>2. w \in Change(old, new)
  BY <1>1, Zenon DEF Put
<1> QED
  BY <1>2, SureChange

LEMMA SureReads == Reliable => ~FilesDead /\ ~CanFail("probe")
BY DEF Reliable, FilesDead, CanFail

-----------------------------------------------------------------------------
(* Failures restore the files.  For each step, what the locals and the     *)
(* files have to do with the files as the operation found them.            *)

BeforeWriting == {"readManaged", "readConf", "writeManaged", "probeConf", "readStrip",
                  "writeStripped"}
AfterPrior == {"readConf", "writeManaged", "writeConf", "unstage", "validate", "reload",
               "restoreConf", "restoreManaged"}

PriorKnown == pc \in AfterPrior => job.prior = before[1]
OrigKnown == pc \in OrigSteps => job.orig = before[2]
Untouched == pc \in BeforeWriting \cup {"reloadPrior"} => disk = before
ManagedKept ==
  pc \in {"validateStripped", "reloadStripped", "restoreStripped"} => managed = before[1]
ConfKept == pc \in {"writeConf", "unstage", "restoreManaged"} => conf = before[2]
StagedOnly ==
  /\ pc \in {"writeConf", "validate", "reload"} => managed = job.ranges
  /\ pc \in {"validate", "reload"} => conf = Inject(before[2], job.block)
  /\ pc \in {"validateStripped", "reloadStripped"} => conf = Strip(before[2])

UndoSteps == /\ PriorKnown /\ OrigKnown /\ Untouched /\ ManagedKept /\ ConfKept
             /\ StagedOnly
UndoInv == TypeInv /\ UndoSteps

LEMMA UndoInit == Init => UndoInv
BY TypeInit DEF Init, UndoInv, UndoSteps, PriorKnown, OrigKnown, Untouched, ManagedKept,
   ConfKept, StagedOnly, AfterPrior, OrigSteps, BeforeWriting

LEMMA UndoStep == Reliable /\ UndoInv /\ [Next]_vars => UndoInv'
<1> SUFFICES ASSUME Reliable, UndoInv, [Next]_vars PROVE UndoSteps'
  BY TypeStep DEF UndoInv
<1>0. TypeInv'
  BY TypeStep DEF UndoInv
<1> USE SureReads, <1>0
    DEF UndoInv, UndoSteps, PriorKnown, OrigKnown, Untouched, ManagedKept, ConfKept,
        StagedOnly, AfterPrior, OrigSteps, BeforeWriting, TypeInv, TypeOK, Managed, Conf,
        ConfText, Job, disk
<1>1. CASE BeginApply
  BY <1>1 DEF BeginApply, Begin
<1>2. CASE BeginRemove
  BY <1>2 DEF BeginRemove, Begin
<1>3. CASE DryRun
  BY <1>3 DEF DryRun, Finish
<1>4. CASE NotDetected
  BY <1>4 DEF NotDetected, Finish
<1>5. CASE ReadManaged
  <2>1. PICK lie \in {FALSE} \cup {x \in {TRUE} : CanFail("probe")} :
          job' = [job EXCEPT !.prior = IF lie \/ FilesDead THEN Absent ELSE managed]
    BY <1>5 DEF ReadManaged
  <2>2. ~lie
    BY <2>1
  <2>3. job'.prior = managed
    BY <2>1, <2>2
  <2>4. disk = before /\ managed = before[1] /\ UNCHANGED <<disk, before>> /\ pc' = "readConf"
    BY <1>5 DEF ReadManaged, Goto
  <2> QED
    BY <2>3, <2>4
<1>6. CASE ReadConf
  BY <1>6 DEF ReadConf, Goto, Finish
<1>7. CASE WriteManaged
  BY <1>7, SurePut DEF WriteManaged, PutManaged, Goto, Finish
<1>8. CASE WriteConf
  BY <1>8, SurePut DEF WriteConf, PutConf, Inject, Goto
<1>9. CASE Unstage
  BY <1>9 DEF Unstage, Finish
<1>10. CASE Validate
  BY <1>10 DEF Validate, ValidateThen, Goto
<1>11. CASE Reload
  BY <1>11 DEF Reload, Goto, Finish
<1>12. CASE RestoreConf
  BY <1>12, SurePut DEF RestoreConf, UndoConf, PutConf, Goto
<1>13. CASE RestoreManaged
  BY <1>13, SurePut, SureChange
     DEF RestoreManaged, UndoManaged, DropManaged, PutManaged, Goto, Finish
<1>14. CASE ReloadPrior
  BY <1>14 DEF ReloadPrior, Finish
<1>15. CASE ProbeConf
  BY <1>15 DEF ProbeConf
<1>16. CASE ReadStrip
  BY <1>16 DEF ReadStrip, Goto, Finish
<1>17. CASE WriteStripped
  BY <1>17, SurePut DEF WriteStripped, PutConf, Strip, Goto, Finish
<1>18. CASE ValidateStripped
  BY <1>18 DEF ValidateStripped, ValidateThen, Goto
<1>19. CASE ReloadStripped
  BY <1>19 DEF ReloadStripped, Goto
<1>20. CASE RestoreStripped
  BY <1>20, SurePut DEF RestoreStripped, UndoConf, PutConf, Goto, Finish
<1>21. CASE RemoveManaged
  BY <1>21 DEF RemoveManaged, Finish
<1>22. CASE Cancel
  BY <1>22 DEF Cancel
<1>23. CASE Crash
  BY <1>23 DEF Crash, Finish
<1>24. CASE Edit
  BY <1>24 DEF Edit
<1>25. CASE Delete
  BY <1>25 DEF Delete
<1>26. CASE OtherReload
  BY <1>26 DEF OtherReload
<1>27. CASE UNCHANGED vars
  BY <1>27 DEF vars
<1> QED
  BY <1>1, <1>2, <1>3, <1>4, <1>5, <1>6, <1>7, <1>8, <1>9, <1>10, <1>11, <1>12, <1>13, <1>14, <1>15, <1>16, <1>17, <1>18, <1>19, <1>20, <1>21, <1>22, <1>23, <1>24, <1>25, <1>26, <1>27
     DEF Next, ApplyStep, RemoveStep, Environment

LEMMA UndoAlways == ASSUME Reliable PROVE Spec => []UndoInv
BY UndoInit, UndoStep, PTL DEF Spec

\* The steps that can report a failure find both files as they were, or put
\* them back.
LEMMA FailureStep ==
  ASSUME Reliable, UndoInv, Next, Finishing, outcome'.kind \in {"error", "rolledBack"}
  PROVE  disk' = before
<1> USE SureReads
    DEF Finishing, UndoInv, UndoSteps, PriorKnown, OrigKnown, Untouched, ManagedKept,
        ConfKept, StagedOnly, AfterPrior, OrigSteps, BeforeWriting, TypeInv, TypeOK, disk
<1>1. CASE NotDetected
  BY <1>1 DEF NotDetected
<1>2. CASE ReadConf
  BY <1>2 DEF ReadConf, Finish
<1>3. CASE WriteManaged
  BY <1>3, SurePut DEF WriteManaged, PutManaged, Goto, Finish
<1>4. CASE Unstage
  BY <1>4, SurePut, SureChange DEF Unstage, UndoManaged, DropManaged, PutManaged
<1>5. CASE Reload
  BY <1>5 DEF Reload, Goto, Finish
<1>6. CASE RestoreManaged
  BY <1>6, SurePut, SureChange DEF RestoreManaged, UndoManaged, DropManaged, PutManaged
<1>7. CASE ReloadPrior
  BY <1>7 DEF ReloadPrior
<1>8. CASE ReadStrip
  BY <1>8 DEF ReadStrip, Goto, Finish
<1>9. CASE WriteStripped
  BY <1>9, SurePut DEF WriteStripped, PutConf, Goto, Finish
<1>10. CASE RestoreStripped
  BY <1>10, SurePut DEF RestoreStripped, UndoConf, PutConf
<1>11. CASE RemoveManaged
  BY <1>11 DEF RemoveManaged, Finish
<1>12. CASE Crash
  BY <1>12 DEF Crash, Finish
<1>13. CASE \/ BeginApply \/ BeginRemove \/ DryRun \/ ReadManaged \/ WriteConf \/ Validate
            \/ RestoreConf \/ ProbeConf \/ ValidateStripped \/ ReloadStripped \/ Cancel
            \/ Edit \/ Delete \/ OtherReload
  BY <1>13 DEF BeginApply, BeginRemove, Begin, DryRun, ReadManaged, WriteConf, Validate,
     ValidateThen, RestoreConf, ProbeConf, ValidateStripped, ReloadStripped, Cancel, Edit,
     Delete, OtherReload, Goto
<1> QED
  BY <1>1, <1>2, <1>3, <1>4, <1>5, <1>6, <1>7, <1>8, <1>9, <1>10, <1>11, <1>12, <1>13
     DEF Next, ApplyStep, RemoveStep, Environment

\* "restore touched files on fail": with reliable local file operations, an
\* operation that reports a failure leaves both files as it found them,
\* whatever crashed before, whoever reloads, and however check, reload and
\* context end.
THEOREM FailuresRestore == ASSUME Reliable PROVE Spec => FailureRestoresFiles
<1>1. UndoInv /\ [Next]_vars =>
        [Finishing /\ outcome'.kind \in {"error", "rolledBack"} => disk' = before]_vars
  BY FailureStep DEF Finishing, vars
<1> QED
  BY <1>1, UndoAlways, PTL DEF Spec, FailureRestoresFiles

-----------------------------------------------------------------------------
(* What is reloaded after a failure is known to be good: whatever an       *)
(* operation starts from was accepted as far as ip-watch put it there, and *)
(* the operator's part was accepted by the check before the reload.        *)

NoCrash == "crash" \notin Faults

\* A block refers to ranges that the checker accepts.
GoodPair(m, c) ==
  c # Absent => (c.block # NoBlock => m \notin RefusedPayloads \cup {Absent})

FoundGood == IF pc = "idle" THEN GoodPair(managed, conf) ELSE GoodPair(before[1], before[2])

\* A reload is undone only after a check of the operator's part.
RestGood ==
  /\ pc \in {"restoreConf", "restoreManaged", "restoreStripped"} /\ job.cause # "check"
       => before[2].rest \notin RefusedRests
  /\ pc = "reloadPrior" => before[2] # Absent /\ before[2].rest \notin RefusedRests

Unreferenced == pc = "dropManaged" => conf = Absent \/ conf.block = NoBlock

GoodInv == UndoInv /\ ForwardReloadsAccepted /\ FoundGood /\ RestGood /\ Unreferenced

LEMMA GoodInit == Init => GoodInv
<1> SUFFICES ASSUME Init PROVE GoodInv
  OBVIOUS
<1>1. UndoInv /\ ForwardReloadsAccepted
  BY UndoInit, ForwardInit
<1>2. pc = "idle" /\ conf.block = NoBlock
  BY DEF Init
<1> QED
  BY <1>1, <1>2 DEF GoodInv, FoundGood, GoodPair, RestGood, Unreferenced

\* An operation that ends with both files as it found them leaves them good.
LEMMA EndsAsFound ==
  ASSUME GoodInv, UndoInv', pc # "idle", pc' = "idle", disk' = before
  PROVE  FoundGood' /\ RestGood' /\ Unreferenced'
BY DEF GoodInv, FoundGood, RestGood, Unreferenced, disk

\* A step of an operation that is not its last.
LEMMA GoesOn ==
  ASSUME GoodInv, pc # "idle", pc' # "idle", UNCHANGED before
  PROVE  FoundGood'
BY DEF GoodInv, FoundGood, GoodPair

LEMMA GoodStep == Reliable /\ NoCrash /\ GoodInv /\ [Next]_vars => GoodInv'
<1> SUFFICES ASSUME Reliable, NoCrash, GoodInv, [Next]_vars
             PROVE  (FoundGood /\ RestGood /\ Unreferenced)'
  BY UndoStep, ForwardStep DEF GoodInv
<1>0. UndoInv' /\ TypeInv /\ TypeInv'
  BY UndoStep DEF GoodInv, UndoInv
<1>f. ASSUME Finishing, outcome'.kind \in {"error", "rolledBack"}
      PROVE  (FoundGood /\ RestGood /\ Unreferenced)'
  <2>1. Next
    BY <1>f DEF Finishing, vars
  <2> QED
    BY <1>0, <1>f, <2>1, FailureStep, EndsAsFound DEF GoodInv, Finishing
<1> USE SureReads, <1>0
    DEF GoodInv, UndoInv, UndoSteps, OrigKnown, Untouched, ManagedKept, ConfKept,
        StagedOnly, AfterPrior, OrigSteps, BeforeWriting, TypeInv, TypeOK, OrigRead,
        RestGood, Unreferenced, disk
<1>1. CASE BeginApply \/ BeginRemove
  BY <1>1 DEF BeginApply, BeginRemove, Begin, FoundGood
<1>2. CASE DryRun
  BY <1>2 DEF DryRun, Finish, FoundGood
<1>3. CASE NotDetected
  BY <1>3, <1>f DEF NotDetected, Finish, Finishing
<1>4. CASE ReadManaged
  BY <1>4, GoesOn DEF ReadManaged, Goto
<1>5. CASE ReadConf
  <2>1. CASE pc' = "idle"
    <3>1. disk' = before
      BY <1>5 DEF ReadConf
    <3> QED  BY <1>5, <2>1, <3>1, EndsAsFound DEF ReadConf
  <2>2. CASE pc' # "idle"
    BY <1>5, <2>2, GoesOn DEF ReadConf, Goto, Finish
  <2> QED  BY <2>1, <2>2
<1>6. CASE WriteManaged
  BY <1>6, GoesOn, SurePut DEF WriteManaged, PutManaged, Goto
<1>7. CASE WriteConf
  BY <1>7, GoesOn, SurePut DEF WriteConf, PutConf, Goto
<1>8. CASE Unstage
  BY <1>8, <1>f DEF Unstage, Finish, Finishing
<1>9. CASE Validate
  <2>1. /\ pc = "validate" /\ UNCHANGED before
        /\ pc' = "reload" \/ (pc' = "restoreConf" /\ job'.cause = "check")
    <3>1. PICK r \in Checks :
            IF r.ok THEN Goto("reload") /\ UNCHANGED job
            ELSE Goto("restoreConf") /\ job' = [job EXCEPT !.cause = "check"]
      BY <1>9 DEF Validate, ValidateThen
    <3> QED  BY <1>9, <3>1 DEF Validate, ValidateThen, Goto, Job
  <2>2. FoundGood'
    BY <2>1, GoesOn
  <2>3. RestGood' /\ Unreferenced'
    BY <2>1
  <2> QED
    BY <2>2, <2>3
<1>10. CASE Reload
  <2>1. Accepted
    BY <1>10 DEF Reload, ForwardReloadsAccepted
  <2>2. CASE pc' = "idle"
    <3>1. Accepted'
      BY <1>10, <2>1 DEF Reload, Accepted
    <3> QED
      BY <2>2, <3>1 DEF FoundGood, GoodPair, Accepted
  <2>3. CASE pc' # "idle"
    <3>1. before[2].rest \notin RefusedRests
      BY <1>10, <2>1 DEF Reload, Accepted, Inject, Conf, ConfText
    <3> QED
      BY <1>10, <2>3, <3>1, GoesOn DEF Reload, Goto, Finish
  <2> QED  BY <2>2, <2>3
<1>11. CASE RestoreConf
  BY <1>11, GoesOn DEF RestoreConf, Goto
<1>12. CASE RestoreManaged
  <2>1. CASE pc' = "idle"
    <3>1. Finishing /\ outcome'.kind \in {"error", "rolledBack"}
      BY <1>12, <2>1 DEF RestoreManaged, Goto, Finish, Finishing
    <3> QED  BY <3>1, <1>f
  <2>2. CASE pc' # "idle"
    BY <1>12, <2>2, GoesOn DEF RestoreManaged, Goto, Finish
  <2> QED  BY <2>1, <2>2
<1>13. CASE ReloadPrior
  BY <1>13, <1>f DEF ReloadPrior, Finish, Finishing
<1>14. CASE ProbeConf
  BY <1>14, GoesOn DEF ProbeConf
<1>15. CASE ReadStrip
  <2>1. CASE pc' = "idle"
    <3>1. disk' = before
      BY <1>15 DEF ReadStrip
    <3> QED  BY <1>15, <2>1, <3>1, EndsAsFound DEF ReadStrip
  <2>2. CASE pc' # "idle"
    BY <1>15, <2>2, GoesOn DEF ReadStrip, Goto, Finish
  <2> QED  BY <2>1, <2>2
<1>16. CASE WriteStripped
  BY <1>16, GoesOn, SurePut DEF WriteStripped, PutConf, Goto
<1>17. CASE ValidateStripped
  <2>1. /\ pc = "validateStripped" /\ UNCHANGED before
        /\ pc' = "reloadStripped" \/ (pc' = "restoreStripped" /\ job'.cause = "check")
    <3>1. PICK r \in Checks :
            IF r.ok THEN Goto("reloadStripped") /\ UNCHANGED job
            ELSE Goto("restoreStripped") /\ job' = [job EXCEPT !.cause = "check"]
      BY <1>17 DEF ValidateStripped, ValidateThen
    <3> QED  BY <1>17, <3>1 DEF ValidateStripped, ValidateThen, Goto, Job
  <2>2. FoundGood'
    BY <2>1, GoesOn
  <2>3. RestGood' /\ Unreferenced'
    BY <2>1
  <2> QED
    BY <2>2, <2>3
<1>18. CASE ReloadStripped
  <2>1. Accepted /\ conf = Strip(before[2]) /\ before[2] # Absent
    BY <1>18 DEF ReloadStripped, ForwardReloadsAccepted
  <2>2. before[2].rest \notin RefusedRests /\ conf.block = NoBlock
    BY <2>1 DEF Accepted, Strip, Conf, ConfText
  <2> QED
    BY <1>18, <2>2, GoesOn DEF ReloadStripped, Goto
<1>19. CASE RestoreStripped
  <2>1. CASE pc' = "idle"
    <3>1. Finishing /\ outcome'.kind \in {"error", "rolledBack"}
      BY <1>19, <2>1 DEF RestoreStripped, Goto, Finish, Finishing
    <3> QED  BY <3>1, <1>f
  <2>2. CASE pc' # "idle"
    BY <1>19, <2>2, GoesOn DEF RestoreStripped, Goto, Finish
  <2> QED  BY <2>1, <2>2
<1>20. CASE RemoveManaged
  BY <1>20 DEF RemoveManaged, Finish, FoundGood, GoodPair
<1>21. CASE Cancel
  BY <1>21, GoesOn DEF Cancel
<1>22. CASE Crash
  BY <1>22 DEF Crash, NoCrash, CanFail
<1>23. CASE Edit
  BY <1>23 DEF Edit, FoundGood, GoodPair
<1>24. CASE Delete
  BY <1>24 DEF Delete, FoundGood, GoodPair
<1>25. CASE OtherReload
  BY <1>25 DEF OtherReload, FoundGood, GoodPair
<1>26. CASE UNCHANGED vars
  BY <1>26 DEF vars, FoundGood, GoodPair
<1> QED
  BY <1>1, <1>2, <1>3, <1>4, <1>5, <1>6, <1>7, <1>8, <1>9, <1>10, <1>11, <1>12, <1>13, <1>14, <1>15, <1>16, <1>17, <1>18, <1>19, <1>20, <1>21, <1>22, <1>23, <1>24, <1>25, <1>26
     DEF Next, ApplyStep, RemoveStep, Environment

\* "never reload cfg failing its checker", also for the configuration that is
\* put back and reloaded when a reload failed: with reliable local file
\* operations and without a crash, whatever the operator edits, deletes and
\* reloads.
THEOREM PriorIsKnownGood == ASSUME Reliable, NoCrash PROVE Spec => []ReloadsAccepted
<1>1. GoodInv => ReloadsAccepted
  <2> SUFFICES ASSUME GoodInv, pc = "reloadPrior" PROVE Accepted
    BY DEF GoodInv, ReloadsAccepted, ForwardReloadsAccepted
  <2> QED
    BY DEF GoodInv, UndoInv, UndoSteps, Untouched, FoundGood, GoodPair, RestGood, Accepted, disk
<1> QED
  BY <1>1, GoodInit, GoodStep, PTL DEF Spec

-----------------------------------------------------------------------------
(* The sequence is an atomic switch of the policy with a truthful report:  *)
(* SafeApply implements EnforcementPoint.  Besides, no reload is reported  *)
(* as failed that took effect, and nobody else deletes or reloads.         *)

Switching == Reliable /\ NoCrash /\ "lostReload" \notin Faults /\ Operator \subseteq {"edit"}

EnforcedBy(m, c) == IF c = Absent \/ c.block = NoBlock THEN Off
                    ELSE [block |-> c.block, ranges |-> m]

\* The server runs what the operation found until the operation changes it.
LiveKnown ==
  /\ conf # Absent /\ before[2] # Absent
  /\ pc = "idle" => live = Enforced
  /\ pc \notin {"idle", "dropManaged"} => live = EnforcedBy(before[1], before[2])
  /\ pc = "dropManaged" => live = Off /\ conf.block = NoBlock /\ job.orig # Absent

OpKnown ==
  /\ pc \in ApplySteps \ {"reloadPrior"} => job.op = "apply"
  /\ pc \in RemoveSteps => job.op = "remove"

LiveInv == UndoInv /\ LiveKnown /\ OpKnown

LEMMA HonestReload ==
  ASSUME Switching, NEW r \in Reloads
  PROVE  r.ok <=> r.loads
<1>1. \/ r = [ok |-> Accepted /\ ~ctxDone, loads |-> Accepted /\ ~ctxDone, cost |-> 0]
      \/ r = [ok |-> FALSE, loads |-> FALSE, cost |-> 1]
      \/ r = [ok |-> FALSE, loads |-> Accepted, cost |-> 1] /\ r.loads = FALSE
  <2>1. ~CanFail("lostReload")
    BY DEF Switching, CanFail
  <2>2. \/ r = [ok |-> Accepted /\ ~ctxDone, loads |-> Accepted /\ ~ctxDone, cost |-> 0]
        \/ r = [ok |-> FALSE, loads |-> FALSE, cost |-> 1]
        \/ r = [ok |-> FALSE, loads |-> Accepted, cost |-> 1]
    BY Zenon DEF Reloads
  <2>3. r.cost = 1 => CanFail(IF r.loads THEN "lostReload" ELSE "reload")
    BY Zenon DEF Reloads
  <2>4. ASSUME r = [ok |-> FALSE, loads |-> Accepted, cost |-> 1] PROVE r.loads = FALSE
    <3>1. r.cost = 1 /\ r.loads = Accepted
      BY <2>4
    <3>2. ~r.loads
      BY <3>1, <2>1, <2>3, Zenon
    <3> QED  BY <3>1, <3>2 DEF Accepted
  <2> QED  BY <2>2, <2>4
<1>2. CASE r = [ok |-> Accepted /\ ~ctxDone, loads |-> Accepted /\ ~ctxDone, cost |-> 0]
  <2>1. r.ok = (Accepted /\ ~ctxDone) /\ r.loads = (Accepted /\ ~ctxDone)
    BY <1>2, Zenon
  <2> QED  BY <2>1, Zenon
<1>3. CASE r = [ok |-> FALSE, loads |-> FALSE, cost |-> 1]
  BY <1>3
<1>4. CASE r = [ok |-> FALSE, loads |-> Accepted, cost |-> 1] /\ r.loads = FALSE
  <2>1. r.ok = FALSE /\ r.loads = FALSE
    BY <1>4
  <2> QED  BY <2>1
<1> QED  BY <1>1, <1>2, <1>3, <1>4

LEMMA LiveInit == Init => LiveInv
<1> SUFFICES ASSUME Init PROVE LiveInv
  OBVIOUS
<1>1. conf # Absent
  BY DataAssumption DEF Init, ConfText
<1>2. UndoInv
  BY UndoInit
<1>3. pc = "idle" /\ live = Enforced /\ before = disk
  BY DEF Init, Enforced
<1> QED
  BY <1>1, <1>2, <1>3 DEF LiveInv, LiveKnown, OpKnown, ApplySteps, RemoveSteps, disk

\* An operation that changed nothing ends with the policy it found.
LEMMA EndsUnswitched ==
  ASSUME LiveInv, pc \notin {"idle", "dropManaged"}, pc' = "idle", disk' = before,
         live' = live, before' = before
  PROVE  LiveKnown'
BY DEF LiveInv, LiveKnown, EnforcedBy, Enforced, disk

LEMMA GoesOnUnswitched ==
  ASSUME LiveInv, pc \notin {"idle", "dropManaged"}, pc' \notin {"idle", "dropManaged"},
         UNCHANGED <<live, before>>, conf' # Absent
  PROVE  LiveKnown'
BY DEF LiveInv, LiveKnown, EnforcedBy

LEMMA OpStep ==
  ASSUME TypeInv, OpKnown, [Next]_vars
  PROVE  OpKnown'
<1>1. job' = job \/ pc = "idle" \/ \E m \in Managed, c \in Conf, k \in {"none", "check", "reload"} :
        job' = [job EXCEPT !.prior = m] \/ job' = [job EXCEPT !.orig = c]
          \/ job' = [job EXCEPT !.cause = k]
  BY DEF TypeInv, TypeOK, Managed, Conf, Next, BeginApply, BeginRemove, Begin, DryRun, NotDetected, ApplyStep,
     ReadManaged, ReadConf, WriteManaged, WriteConf, Unstage, Validate, ValidateThen,
     Reload, RestoreConf, RestoreManaged, ReloadPrior, RemoveStep, ProbeConf,
     ReadStrip, WriteStripped, ValidateStripped, ReloadStripped, RestoreStripped,
     RemoveManaged, Environment, Cancel, Crash, Edit, Delete, OtherReload, vars
<1>2. pc # "idle" => job'.op = job.op
  BY <1>1 DEF TypeInv, TypeOK, Job
<1>3. \/ UNCHANGED pc /\ UNCHANGED job
      \/ pc' = "readManaged" /\ job'.op = "apply"
      \/ pc' = "probeConf" /\ job'.op = "remove"
      \/ pc # "idle" /\ pc' \in {"idle", "reloadPrior"}
      \/ pc \in ApplySteps \ {"reloadPrior"} /\ pc' \in ApplySteps
      \/ pc \in RemoveSteps /\ pc' \in RemoveSteps
  <2>1. CASE BeginApply \/ BeginRemove
    BY <2>1 DEF BeginApply, BeginRemove, Begin
  <2>2. CASE ApplyStep
    BY <2>2 DEF ApplySteps, ApplyStep, ReadManaged, ReadConf, WriteManaged, WriteConf,
       Unstage, Validate, ValidateThen, Reload, RestoreConf, RestoreManaged, ReloadPrior,
       Goto, Finish
  <2>3. CASE RemoveStep
    BY <2>3 DEF RemoveSteps, RemoveStep, ProbeConf, ReadStrip, WriteStripped,
       ValidateStripped, ValidateThen, ReloadStripped, RestoreStripped, RemoveManaged,
       Goto, Finish
  <2>4. CASE DryRun \/ NotDetected \/ Environment \/ UNCHANGED vars
    BY <2>4 DEF DryRun, NotDetected, Environment, Cancel, Crash, Edit, Delete, OtherReload,
       Finish, vars
  <2> QED
    BY <2>1, <2>2, <2>3, <2>4 DEF Next
<1> QED
  BY <1>2, <1>3 DEF OpKnown, ApplySteps, RemoveSteps

LEMMA LiveStep == Switching /\ LiveInv /\ [Next]_vars => LiveInv'
<1> SUFFICES ASSUME Switching, LiveInv, [Next]_vars PROVE LiveKnown' /\ OpKnown'
  BY UndoStep DEF LiveInv, Switching
<1>0. UndoInv' /\ TypeInv /\ TypeInv' /\ Reliable
  BY UndoStep DEF LiveInv, UndoInv, Switching
<1>op. OpKnown'
  BY <1>0, OpStep DEF LiveInv
<1>f. ASSUME Finishing, outcome'.kind \in {"error", "rolledBack"}, pc # "dropManaged",
             UNCHANGED <<live, before>>
      PROVE  LiveKnown'
  <2>1. Next
    BY <1>f DEF Finishing, vars
  <2> QED
    BY <1>0, <1>f, <2>1, FailureStep, EndsUnswitched DEF LiveInv, Finishing
<1> SUFFICES LiveKnown'
  BY <1>op
<1> USE SureReads, <1>0
    DEF LiveInv, UndoInv, UndoSteps, OrigKnown, Untouched, ManagedKept, ConfKept,
        StagedOnly, AfterPrior, OrigSteps, BeforeWriting, TypeInv, TypeOK, OrigRead, disk
<1>k. pc \notin {"idle", "dropManaged"} => conf # Absent /\ before[2] # Absent
  BY DEF LiveKnown
<1>1. CASE BeginApply \/ BeginRemove
  BY <1>1 DEF BeginApply, BeginRemove, Begin, LiveKnown, Enforced, EnforcedBy
<1>2. CASE DryRun
  BY <1>2 DEF DryRun, Finish, LiveKnown, Enforced
<1>3. CASE NotDetected
  BY <1>3, <1>f DEF NotDetected, Finish, Finishing
<1>4. CASE ReadManaged
  BY <1>4, <1>k, GoesOnUnswitched DEF ReadManaged, Goto
<1>5. CASE ReadConf
  <2>1. CASE pc' = "idle"
    <3>1. disk' = before /\ UNCHANGED <<live, before>> /\ pc = "readConf"
      BY <1>5, <2>1 DEF ReadConf, Finish, Goto
    <3> QED  BY <2>1, <3>1, EndsUnswitched
  <2>2. CASE pc' # "idle"
    BY <1>5, <1>k, <2>2, GoesOnUnswitched DEF ReadConf, Goto, Finish
  <2> QED  BY <2>1, <2>2
<1>6. CASE WriteManaged
  BY <1>6, <1>k, GoesOnUnswitched, SurePut DEF WriteManaged, PutManaged, Goto
<1>7. CASE WriteConf
  <2>1. conf' = Inject(job.orig, job.block) /\ pc' = "validate"
    BY <1>7, SurePut DEF WriteConf, PutConf, Goto
  <2>2. conf' # Absent
    BY <1>7, <2>1, StaysText DEF WriteConf, Job
  <2> QED
    BY <1>7, <2>1, <2>2, GoesOnUnswitched DEF WriteConf, Goto
<1>8. CASE Unstage
  BY <1>8, <1>f DEF Unstage, Finish, Finishing
<1>9. CASE Validate
  BY <1>9, <1>k, GoesOnUnswitched DEF Validate, ValidateThen, Goto
<1>10. CASE Reload
  <2>1. PICK r \in Reloads :
          /\ live' = IF r.loads THEN Enforced ELSE live
          /\ IF r.ok THEN Finish("applied", TRUE, TRUE) /\ UNCHANGED job
             ELSE Goto("restoreConf") /\ job' = [job EXCEPT !.cause = "reload"]
    BY <1>10 DEF Reload
  <2>2. CASE r.ok
    BY <1>10, <1>k, <2>1, <2>2, HonestReload DEF Reload, Finish, LiveKnown, Enforced
  <2>3. CASE ~r.ok
    BY <1>10, <1>k, <2>1, <2>3, HonestReload, GoesOnUnswitched DEF Reload, Goto
  <2> QED  BY <2>2, <2>3
<1>11. CASE RestoreConf
  <2>1. conf' = job.orig
    BY <1>11, SurePut DEF RestoreConf, UndoConf, PutConf
  <2> QED
    BY <1>11, <2>1, GoesOnUnswitched DEF RestoreConf, Goto
<1>12. CASE RestoreManaged
  <2>1. CASE pc' = "idle"
    <3>1. /\ Finishing /\ outcome'.kind \in {"error", "rolledBack"}
          /\ pc # "dropManaged" /\ UNCHANGED <<live, before>>
      BY <1>12, <2>1 DEF RestoreManaged, Goto, Finish, Finishing
    <3> QED  BY <3>1, <1>f
  <2>2. CASE pc' # "idle"
    BY <1>12, <1>k, <2>2, GoesOnUnswitched DEF RestoreManaged, Goto, Finish
  <2> QED  BY <2>1, <2>2
<1>13. CASE ReloadPrior
  <2>1. Enforced = EnforcedBy(before[1], before[2])
    BY <1>13 DEF ReloadPrior, Enforced, EnforcedBy
  <2>2. UNCHANGED live
    BY <1>13, <2>1 DEF ReloadPrior, LiveKnown
  <2> QED
    BY <1>13, <2>2, <1>f DEF ReloadPrior, Finish, Finishing
<1>14. CASE ProbeConf
  <2>1. pc' = "readStrip" /\ pc = "probeConf"
    BY <1>14, <1>k DEF ProbeConf
  <2> QED
    BY <1>14, <1>k, <2>1, GoesOnUnswitched DEF ProbeConf
<1>15. CASE ReadStrip
  <2>1. CASE pc' = "idle"
    <3>1. disk' = before /\ UNCHANGED <<live, before>> /\ pc = "readStrip"
      BY <1>15, <2>1 DEF ReadStrip, Finish, Goto
    <3> QED  BY <2>1, <3>1, EndsUnswitched
  <2>2. CASE pc' # "idle"
    BY <1>15, <1>k, <2>2, GoesOnUnswitched DEF ReadStrip, Goto, Finish
  <2> QED  BY <2>1, <2>2
<1>16. CASE WriteStripped
  <2>1. conf' = Strip(job.orig) /\ pc' = "validateStripped"
    BY <1>16, SurePut DEF WriteStripped, PutConf, Goto
  <2>2. conf' # Absent
    BY <1>16, <2>1, StaysText DEF WriteStripped, Job
  <2> QED
    BY <1>16, <2>1, <2>2, GoesOnUnswitched DEF WriteStripped, Goto
<1>17. CASE ValidateStripped
  BY <1>17, <1>k, GoesOnUnswitched DEF ValidateStripped, ValidateThen, Goto
<1>18. CASE ReloadStripped
  <2>1. PICK r \in Reloads :
          /\ live' = IF r.loads THEN Enforced ELSE live
          /\ IF r.ok THEN Goto("dropManaged") /\ UNCHANGED job
             ELSE Goto("restoreStripped") /\ job' = [job EXCEPT !.cause = "reload"]
    BY <1>18 DEF ReloadStripped
  <2>2. conf.block = NoBlock /\ job.orig # Absent
    BY <1>18, <1>k, StaysText DEF ReloadStripped
  <2>3. CASE r.ok
    BY <1>18, <1>k, <2>1, <2>2, <2>3, HonestReload DEF ReloadStripped, Goto, LiveKnown, Enforced
  <2>4. CASE ~r.ok
    BY <1>18, <1>k, <2>1, <2>4, HonestReload, GoesOnUnswitched DEF ReloadStripped, Goto
  <2> QED  BY <2>3, <2>4
<1>19. CASE RestoreStripped
  <2>1. CASE pc' = "idle"
    <3>1. /\ Finishing /\ outcome'.kind \in {"error", "rolledBack"}
          /\ pc # "dropManaged" /\ UNCHANGED <<live, before>>
      BY <1>19, <2>1 DEF RestoreStripped, Goto, Finish, Finishing
    <3> QED  BY <3>1, <1>f
  <2>2. CASE pc' # "idle"
    <3>1. conf' = job.orig
      BY <1>19, SurePut DEF RestoreStripped, UndoConf, PutConf
    <3> QED
      BY <1>19, <2>2, <3>1, GoesOnUnswitched DEF RestoreStripped, Goto, Finish
  <2> QED  BY <2>1, <2>2
<1>20. CASE RemoveManaged
  BY <1>20 DEF RemoveManaged, Finish, LiveKnown, Enforced
<1>21. CASE Cancel
  BY <1>21 DEF Cancel, LiveKnown
<1>22. CASE Crash
  BY <1>22 DEF Crash, Switching, NoCrash, CanFail
<1>23. CASE Edit
  <2>1. conf \in ConfText
    BY DEF LiveKnown, Conf
  <2>2. PICK r \in Rests : conf' = [block |-> conf.block, rest |-> r]
    BY <1>23, <2>1, DataAssumption DEF Edit, ConfText
  <2>3. conf' \in ConfText /\ conf'.block = conf.block
    BY <2>1, <2>2 DEF ConfText
  <2>4. conf' # Absent
    BY <2>3, DataAssumption DEF ConfText
  <2>5. Enforced' = Enforced
    BY <1>23, <2>3, <2>4 DEF Edit, Enforced, LiveKnown
  <2> QED
    BY <1>23, <2>4, <2>5 DEF Edit, LiveKnown
<1>24. CASE Delete \/ OtherReload
  BY <1>24 DEF Delete, OtherReload, Switching
<1>25. CASE UNCHANGED vars
  BY <1>25 DEF vars, LiveKnown, Enforced, EnforcedBy
<1> QED
  BY <1>1, <1>2, <1>3, <1>4, <1>5, <1>6, <1>7, <1>8, <1>9, <1>10, <1>11, <1>12, <1>13, <1>14, <1>15, <1>16, <1>17, <1>18, <1>19, <1>20, <1>21, <1>22, <1>23, <1>24, <1>25
     DEF Next, ApplyStep, RemoveStep, Environment

LEMMA LiveAlways == ASSUME Switching PROVE Spec => []LiveInv
BY LiveInit, LiveStep, PTL DEF Spec

\* The phase and the report that the caller sees.
Phase == IF pc = "idle" THEN "idle" ELSE IF pc = "dropManaged" THEN "done" ELSE "asked"
Report == IF outcome.ok /\ outcome.kind # "dryRun" THEN "ok"
          ELSE IF outcome.kind \in {"error", "rolledBack"} THEN "failed" ELSE "none"
Seen == <<live, Wanted, Phase, Report>>

LEMMA SeenVars == UNCHANGED Seen => UNCHANGED EP!vars
BY DEF EP!vars, Seen, Phase, Report

\* A step within an operation that the caller does not see.
LEMMA Within ==
  ASSUME TypeInv, pc \notin {"idle", "dropManaged"}, pc' \notin {"idle", "dropManaged"},
         UNCHANGED <<live, outcome>>,
         job'.op = job.op /\ job'.ranges = job.ranges /\ job'.block = job.block
  PROVE  UNCHANGED Seen
BY DEF Seen, Wanted, Phase, Report

\* The calls that are neither the first nor the last of an operation keep its
\* input.
LEMMA InputKept ==
  ASSUME TypeInv, ApplyStep \/ RemoveStep
  PROVE  job'.op = job.op /\ job'.ranges = job.ranges /\ job'.block = job.block
<1>1. job' = job \/ \E m \in Managed, c \in Conf, k \in {"none", "check", "reload"} :
        job' = [job EXCEPT !.prior = m] \/ job' = [job EXCEPT !.orig = c]
          \/ job' = [job EXCEPT !.cause = k]
  BY DEF TypeInv, TypeOK, Managed, Conf, ApplyStep,
     ReadManaged, ReadConf, WriteManaged, WriteConf, Unstage, Validate, ValidateThen,
     Reload, RestoreConf, RestoreManaged, ReloadPrior, RemoveStep, ProbeConf,
     ReadStrip, WriteStripped, ValidateStripped, ReloadStripped, RestoreStripped,
     RemoveManaged
<1> QED
  BY <1>1 DEF TypeInv, TypeOK, Job

\* The steps that put a policy into force, or report that it is.
LEMMA SuccessStep ==
  ASSUME Switching, LiveInv, LiveInv', ApplyStep \/ RemoveStep, pc' = "idle",
         outcome'.kind \notin {"error", "rolledBack"}
  PROVE  /\ outcome'.ok /\ outcome'.kind \in {"applied", "noop", "already", "removed"}
         /\ live' = Wanted /\ UNCHANGED job
         /\ pc = "reload" \/ live = Wanted
<1> USE SureReads
    DEF LiveInv, UndoInv, UndoSteps, OrigKnown, PriorKnown, Untouched, StagedOnly,
        AfterPrior, OrigSteps, BeforeWriting, TypeInv, TypeOK, OrigRead, LiveKnown, OpKnown,
        ApplySteps, RemoveSteps, disk, Switching
<1>1. CASE ReadConf
  <2>1. /\ pc = "readConf" /\ UpToDate /\ Finish("noop", TRUE, FALSE)
        /\ UNCHANGED <<live, job>>
    BY <1>1 DEF ReadConf, Finish, Goto
  <2>2. conf.block = job.block /\ managed = job.ranges /\ conf # Absent
    BY <2>1, StaysText DEF UpToDate, Job
  <2>3. conf.block # NoBlock
    BY <2>2, DataAssumption DEF Job
  <2>4. live = Wanted
    BY <2>1, <2>2, <2>3 DEF EnforcedBy, Wanted
  <2> QED  BY <2>1, <2>4 DEF Finish
<1>2. CASE Reload
  <2>1. PICK r \in Reloads :
          /\ live' = IF r.loads THEN Enforced ELSE live
          /\ IF r.ok THEN Finish("applied", TRUE, TRUE) /\ UNCHANGED job
             ELSE Goto("restoreConf") /\ job' = [job EXCEPT !.cause = "reload"]
    BY <1>2 DEF Reload
  <2>2. pc = "reload" /\ r.ok
    BY <1>2, <2>1 DEF Reload, Goto
  <2>3. conf.block = job.block /\ managed = job.ranges /\ conf # Absent
    BY <2>2, StaysText DEF Job
  <2>4. conf.block # NoBlock
    BY <2>3, DataAssumption DEF Job
  <2>5. live' = Wanted
    BY <2>1, <2>2, <2>3, <2>4, HonestReload DEF Enforced, Wanted
  <2> QED  BY <2>1, <2>2, <2>5 DEF Finish
<1>3. CASE ReadStrip
  <2>1. /\ pc = "readStrip" /\ Finish("already", TRUE, FALSE)
        /\ UNCHANGED <<live, job>> /\ Strip(conf) = conf
    BY <1>3 DEF ReadStrip, Finish, Goto, AlreadyRemoved
  <2>2. conf.block = NoBlock
    BY <2>1, StaysText
  <2>3. live = Wanted
    BY <2>1, <2>2 DEF EnforcedBy, Wanted
  <2> QED  BY <2>1, <2>3 DEF Finish
<1>4. CASE RemoveManaged
  <2>1. /\ pc = "dropManaged" /\ Finish("removed", TRUE, TRUE)
        /\ UNCHANGED <<live, job>>
    BY <1>4 DEF RemoveManaged
  <2>2. live = Wanted
    BY <2>1 DEF Wanted
  <2> QED  BY <2>1, <2>2 DEF Finish
<1>5. CASE WriteManaged \/ WriteStripped
  BY <1>5, SurePut DEF WriteManaged, WriteStripped, PutManaged, PutConf, Goto, Finish
<1>6. CASE \/ ReadManaged \/ WriteConf \/ Unstage \/ Validate \/ RestoreConf
           \/ RestoreManaged \/ ReloadPrior \/ ProbeConf \/ ValidateStripped
           \/ ReloadStripped \/ RestoreStripped
  BY <1>6 DEF ReadManaged, WriteConf, Unstage, Validate, ValidateThen, RestoreConf,
     RestoreManaged, ReloadPrior, ProbeConf, ValidateStripped, ReloadStripped,
     RestoreStripped, Goto, Finish
<1> QED
  BY <1>1, <1>2, <1>3, <1>4, <1>5, <1>6 DEF ApplyStep, RemoveStep

\* Success means enforced: an apply that reports success, "already up to date"
\* included, leaves the server with the target's policy.
THEOREM SuccessIsEnforced == ASSUME Switching PROVE Spec => ApplySuccessEnforces
<1>1. LiveInv /\ LiveInv' /\ [Next]_vars =>
        [Finishing /\ outcome'.kind \in {"applied", "noop"} => live' = Wanted]_vars
  <2> SUFFICES ASSUME LiveInv, LiveInv', Next, Finishing, outcome'.kind \in {"applied", "noop"}
               PROVE  live' = Wanted
    BY DEF Finishing, vars
  <2>1. ApplyStep \/ RemoveStep
    BY DEF Finishing, Next, BeginApply, BeginRemove, Begin, DryRun, NotDetected, Environment,
       Cancel, Crash, Edit, Delete, OtherReload, Finish
  <2> QED
    BY <2>1, SuccessStep DEF Finishing
<1> QED
  BY <1>1, LiveAlways, PTL DEF Spec, ApplySuccessEnforces

LEMMA RefinesInit == Init => EP!Init
BY DEF Init, EP!Init, Wanted, NoOutcome

\* Only a reload that is reported as done changes what the server runs.
LEMMA LiveStays ==
  ASSUME Switching, LiveInv, ApplyStep \/ RemoveStep, pc' # "dropManaged",
         pc' = "idle" => outcome'.kind \in {"error", "rolledBack"}
  PROVE  live' = live
<1>1. CASE Reload
  <2>1. PICK r \in Reloads :
          /\ live' = IF r.loads THEN Enforced ELSE live
          /\ IF r.ok THEN Finish("applied", TRUE, TRUE) /\ UNCHANGED job
             ELSE Goto("restoreConf") /\ job' = [job EXCEPT !.cause = "reload"]
    BY <1>1 DEF Reload
  <2>2. ~r.ok
    BY <2>1 DEF Finish
  <2> QED  BY <2>1, <2>2, HonestReload
<1>2. CASE ReloadStripped
  <2>1. PICK r \in Reloads :
          /\ live' = IF r.loads THEN Enforced ELSE live
          /\ IF r.ok THEN Goto("dropManaged") /\ UNCHANGED job
             ELSE Goto("restoreStripped") /\ job' = [job EXCEPT !.cause = "reload"]
    BY <1>2 DEF ReloadStripped
  <2>2. ~r.ok
    BY <2>1 DEF Goto
  <2> QED  BY <2>1, <2>2, HonestReload
<1>3. CASE ReloadPrior
  <2>1. disk = before /\ live = EnforcedBy(before[1], before[2])
    BY <1>3 DEF ReloadPrior, LiveInv, LiveKnown, UndoInv, UndoSteps, Untouched
  <2>2. Enforced = live
    BY <2>1 DEF Enforced, EnforcedBy, disk
  <2> QED  BY <1>3, <2>2 DEF ReloadPrior
<1>4. CASE ~Reload /\ ~ReloadStripped /\ ~ReloadPrior
  BY <1>4 DEF ApplyStep, ReadManaged, ReadConf, WriteManaged, WriteConf,
     Unstage, Validate, ValidateThen, RestoreConf, RestoreManaged,
     RemoveStep, ProbeConf, ReadStrip, WriteStripped, ValidateStripped,
     RestoreStripped, RemoveManaged
<1> QED  BY <1>1, <1>2, <1>3, <1>4

\* A failure changes nothing that the caller sees but the report.
LEMMA FailureSeen ==
  ASSUME Switching, LiveInv, LiveInv', ApplyStep \/ RemoveStep, pc' = "idle",
         outcome'.kind \in {"error", "rolledBack"}
  PROVE  EP!Fail
<1>1. live' = live
  BY LiveStays
<1>2. pc \notin {"idle", "dropManaged"} /\ ~outcome'.ok
  <2>1. CASE ApplyStep
    BY <2>1 DEF ApplyStep, ReadManaged, ReadConf, WriteManaged, WriteConf, Unstage,
       Validate, ValidateThen, Reload, RestoreConf, RestoreManaged, ReloadPrior,
       Goto, Finish
  <2>2. CASE RemoveManaged
    BY <2>2 DEF RemoveManaged, Finish
  <2>3. CASE ReadStrip
    BY <2>3 DEF ReadStrip, Finish, Goto
  <2>4. CASE WriteStripped \/ RestoreStripped
    BY <2>4 DEF WriteStripped, RestoreStripped, Finish, Goto
  <2>5. CASE ProbeConf \/ ValidateStripped \/ ReloadStripped
    BY <2>5 DEF ProbeConf, ValidateStripped, ValidateThen, ReloadStripped, Goto
  <2> QED
    BY <2>1, <2>2, <2>3, <2>4, <2>5 DEF RemoveStep
<1>3. UNCHANGED Wanted
  BY InputKept DEF Wanted, LiveInv, UndoInv
<1> QED
  BY <1>1, <1>2, <1>3 DEF EP!Fail

\* Every step is one of EnforcementPoint, or none.
LEMMA RefinesStep ==
  ASSUME Switching, LiveInv, LiveInv', [Next]_vars
  PROVE  [EP!Next]_(EP!vars)
<1>t. TypeInv /\ TypeInv'
  BY DEF LiveInv, UndoInv
<1>1. CASE BeginApply \/ BeginRemove
  <2>1. /\ pc = "idle" /\ pc' \in {"readManaged", "probeConf"}
        /\ outcome' = NoOutcome /\ UNCHANGED live
    BY <1>1 DEF BeginApply, BeginRemove, Begin
  <2>2. Wanted' \in [block : Blocks, ranges : Payloads] \cup {Off}
    BY <1>t DEF TypeInv, TypeOK, Job, Wanted
  <2>3. EP!Ask
    BY <2>1, <2>2 DEF EP!Ask, NoOutcome
  <2> QED  BY <2>3 DEF EP!Next
<1>2. CASE DryRun
  <2>1. /\ pc = "idle" /\ pc' = "idle" /\ UNCHANGED <<live, job>>
        /\ outcome'.kind = "dryRun" \/ (outcome'.kind = "error" /\ outcome'.ok = FALSE)
    BY <1>2 DEF DryRun, Finish
  <2>2. EP!Preview
    BY <2>1 DEF EP!Preview, Wanted
  <2> QED  BY <2>2 DEF EP!Next
<1>3. CASE NotDetected
  <2>1. /\ pc \in {"readManaged", "probeConf"} /\ pc' = "idle" /\ UNCHANGED <<live, job>>
        /\ outcome'.kind = "error" /\ outcome'.ok = FALSE
    BY <1>3 DEF NotDetected, Finish
  <2>2. EP!Fail
    BY <2>1 DEF EP!Fail, Wanted
  <2> QED  BY <2>2 DEF EP!Next
<1>4. CASE (ApplyStep \/ RemoveStep) /\ pc' = "idle"
  <2>1. CASE outcome'.kind \in {"error", "rolledBack"}
    BY <1>4, <2>1, FailureSeen DEF EP!Next
  <2>2. CASE outcome'.kind \notin {"error", "rolledBack"}
    <3>1. /\ outcome'.ok /\ outcome'.kind \in {"applied", "noop", "already", "removed"}
          /\ live' = Wanted /\ UNCHANGED Wanted
          /\ pc = "reload" \/ live = Wanted
      BY <1>4, <2>2, SuccessStep DEF Wanted
    <3>2. pc # "idle"
      BY <1>4 DEF ApplyStep, ReadManaged, ReadConf, WriteManaged, WriteConf,
         Unstage, Validate, ValidateThen, Reload, RestoreConf, RestoreManaged, ReloadPrior,
         RemoveStep, ProbeConf, ReadStrip, WriteStripped, ValidateStripped,
         ReloadStripped, RestoreStripped, RemoveManaged
    <3>3. CASE live = Wanted
      <4>1. EP!Acknowledge
        BY <1>4, <3>1, <3>2, <3>3 DEF EP!Acknowledge
      <4> QED  BY <4>1 DEF EP!Next
    <3>4. CASE pc = "reload"
      <4>1. EP!Switch
        BY <1>4, <3>1, <3>4 DEF EP!Switch
      <4> QED  BY <4>1 DEF EP!Next
    <3> QED  BY <3>1, <3>3, <3>4
  <2> QED  BY <2>1, <2>2
<1>5. CASE (ApplyStep \/ RemoveStep) /\ pc' = "dropManaged"
  <2>1. CASE ReloadStripped
    <3>1. pc = "reloadStripped" /\ UNCHANGED <<outcome, Wanted>> /\ live' = Off
      BY <1>5, <2>1, <1>t, InputKept
         DEF ReloadStripped, Goto, Wanted, LiveInv, LiveKnown
    <3>2. Wanted = Off
      BY <3>1 DEF LiveInv, OpKnown, RemoveSteps, Wanted
    <3>3. EP!Switch
      BY <1>5, <3>1, <3>2 DEF EP!Switch
    <3> QED  BY <3>3 DEF EP!Next
  <2>2. CASE ~ReloadStripped
    <3>1. conf # Absent /\ ~FilesDead /\ ~CanFail("probe")
      BY SureReads DEF LiveInv, LiveKnown, Switching
    <3> QED
      BY <1>5, <2>2, <3>1 DEF ApplyStep, ReadManaged, ReadConf, WriteManaged, WriteConf,
         Unstage, Validate, ValidateThen, Reload, RestoreConf, RestoreManaged, ReloadPrior,
         RemoveStep, ProbeConf, ReadStrip, WriteStripped, ValidateStripped,
         RestoreStripped, RemoveManaged, Goto, Finish
  <2> QED  BY <2>1, <2>2
<1>6. CASE (ApplyStep \/ RemoveStep) /\ pc' \notin {"idle", "dropManaged"}
  <2>1. pc \notin {"idle", "dropManaged"} /\ UNCHANGED outcome
    BY <1>6 DEF ApplyStep, ReadManaged, ReadConf, WriteManaged, WriteConf,
       Unstage, Validate, ValidateThen, Reload, RestoreConf, RestoreManaged, ReloadPrior,
       RemoveStep, ProbeConf, ReadStrip, WriteStripped, ValidateStripped,
       ReloadStripped, RestoreStripped, RemoveManaged, Goto, Finish
  <2>2. UNCHANGED live
    BY <1>6, LiveStays
  <2>3. UNCHANGED Seen
    BY <1>6, <1>t, <2>1, <2>2, InputKept, Within
  <2> QED  BY <2>3, SeenVars
<1>7. CASE Environment
  <2>1. UNCHANGED <<live, pc, job, outcome>>
    BY <1>7 DEF Environment, Cancel, Crash, Edit, Delete, OtherReload, Switching, NoCrash, CanFail
  <2>2. UNCHANGED Seen
    BY <2>1 DEF Seen, Wanted, Phase, Report
  <2> QED  BY <2>2, SeenVars
<1>8. CASE UNCHANGED vars
  <2>1. UNCHANGED Seen
    BY <1>8 DEF vars, Seen, Wanted, Phase, Report
  <2> QED  BY <2>1, SeenVars
<1> QED
  BY <1>1, <1>2, <1>3, <1>4, <1>5, <1>6, <1>7, <1>8 DEF Next

\* To its caller the sequence of calls is one atomic switch with a truthful
\* report: with reliable local file operations, no crash, no reload that is
\* reported as failed and took effect, and an operator who edits only.
THEOREM SequenceIsASwitch == ASSUME Switching PROVE Spec => ImplementsEnforcementPoint
<1>1. LiveInv /\ LiveInv' /\ [Next]_vars => [EP!Next]_(EP!vars)
  BY RefinesStep
<1> QED
  BY <1>1, RefinesInit, LiveAlways, PTL DEF Spec, EP!Spec, ImplementsEnforcementPoint
=============================================================================
