------------------------------ MODULE SafeApply ------------------------------
(***************************************************************************)
(* The safe-apply sequence of the configuration engines (nginx, caddy,     *)
(* apache, haproxy) on ONE target: applyConfig, removeConfig and           *)
(* dryRunConfig of internal/engine/configapply.go, run over a Transport    *)
(* (internal/transport, internal/docker).                                  *)
(*                                                                         *)
(* Two files are edited: the managed file, which holds the CIDR ranges,    *)
(* and the engine's own configuration file, in which a marked block refers *)
(* to the managed file.  Every file operation and every command of the     *)
(* sequence is one step, so a crash, a cancelled context, a reload issued  *)
(* by somebody else or a failing call can fall between any two of them.    *)
(* The caller holds the gate and the file lock (module Applier), hence   *)
(* one operation at a time.                                                *)
(***************************************************************************)
EXTENDS Naturals, FiniteSets

CONSTANTS
  Payloads,        \* possible contents of the managed file
  Blocks,          \* possible marked blocks (they differ by mode and real_ip)
  Rests,           \* the operator's own part of the configuration file
  Truncated,       \* what a write cut short leaves: an emptied file
  Absent,          \* no such file
  NoBlock,         \* a configuration file without the marked block
  Off,             \* the running server enforces no ip-watch policy
  RefusedPayloads, \* managed contents the engine's checker rejects
  RefusedRests,    \* operator's parts the checker rejects
  NoAnchor,        \* operator's parts in which inject finds no block to edit
  Transport,       \* "local" or "docker"
  Operator,        \* what the operator may do: subset of OperatorKinds
  Faults,          \* what may go wrong: subset of FaultKinds
  MaxFaults        \* bound on the number of faults in a behaviour

OperatorKinds == {"edit", "delete", "reload"}

\* "write": a write, mkdir or remove fails and leaves the file as it was;
\* "lostWrite": docker did it, but the call ended first and reports a failure;
\* "torn": a write fails, or the process dies, half way through it;
\* "probe": a stat or a read fails although the file is there;
\* "check": the checker fails although the configuration is acceptable;
\* "reload": the reload command fails and the server keeps what it ran;
\* "lostReload": the reload took effect but is reported as failed;
\* "crash": the process dies; "cancel": the request's context ends.
FaultKinds == {"write", "lostWrite", "torn", "probe", "check", "reload", "lostReload", "crash", "cancel"}

ASSUME DataAssumption ==
  /\ Truncated \notin Payloads \cup Rests
  /\ Absent \notin Payloads \cup {Truncated, Off}
  /\ Absent \notin [block : Blocks \cup {NoBlock}, rest : Rests \cup {Truncated}]
  /\ NoBlock \notin Blocks
  /\ RefusedPayloads \subseteq Payloads \cup {Truncated}
  /\ RefusedRests \subseteq Rests \cup {Truncated}
  /\ NoAnchor \subseteq Rests \cup {Truncated}

ASSUME EnvironmentAssumption ==
  /\ Transport \in {"local", "docker"}
  /\ Operator \subseteq OperatorKinds
  /\ Faults \subseteq FaultKinds
  /\ "lostWrite" \in Faults => Transport = "docker"
  /\ MaxFaults \in Nat

VARIABLES
  managed,  \* the managed file
  conf,     \* the engine's configuration file
  live,     \* the policy of the running server: what it last loaded
  pc,       \* the next call of the operation in progress; "idle" if none
  job,      \* the operation's input and its local variables
  ctxDone,  \* the operation's context has ended
  outcome,  \* the Outcome of the last operation
  before,   \* both files as the last operation found them (history)
  faults,   \* faults so far
  doubt     \* history: what can no longer be relied on, a part of Doubts

vars == <<managed, conf, live, pc, job, ctxDone, outcome, before, faults, doubt>>
disk == <<managed, conf>>
tally == <<faults, doubt>>

\* "files": a file operation failed, stopped half way or was answered wrongly;
\* "server": the server loaded a configuration, or keeps one that was deleted,
\* without the program's knowledge.
Doubts == {"files", "server"}

-----------------------------------------------------------------------------
Managed == Payloads \cup {Absent, Truncated}
ConfText == [block : Blocks \cup {NoBlock}, rest : Rests \cup {Truncated}]
Conf == ConfText \cup {Absent}
Policy == [block : Blocks, ranges : Payloads \cup {Truncated}]
Job == [op : {"none", "apply", "remove"},
        ranges : Payloads, block : Blocks,
        prior : Managed, orig : Conf,
        cause : {"none", "check", "reload"}]
Kinds == {"none", "noop", "applied", "error", "rolledBack", "removed",
          "absent", "already", "crashed", "dryRun"}
Outcome == [kind : Kinds, ok : BOOLEAN, changed : BOOLEAN]

ApplySteps == {"readManaged", "readConf", "writeManaged", "writeConf",
               "unstage", "validate", "restoreConf", "restoreManaged",
               "reload", "reloadPrior"}
RemoveSteps == {"probeConf", "readStrip", "writeStripped", "validateStripped",
                "reloadStripped", "restoreStripped",
                "dropManaged"}
PCs == {"idle"} \cup ApplySteps \cup RemoveSteps

TypeOK ==
  /\ managed \in Managed
  /\ conf \in Conf
  /\ live \in Policy \cup {Off}
  /\ pc \in PCs
  /\ job \in Job
  /\ ctxDone \in BOOLEAN
  /\ outcome \in Outcome
  /\ before \in Managed \X Conf
  /\ faults \in Nat /\ doubt \subseteq Doubts

-----------------------------------------------------------------------------
(* The checker and what a reload makes the server enforce.                 *)

Accepted ==
  /\ conf # Absent
  /\ conf.rest \notin RefusedRests
  /\ conf.block # NoBlock => managed \notin RefusedPayloads \cup {Absent}

Enforced == IF conf = Absent \/ conf.block = NoBlock THEN Off
            ELSE [block |-> conf.block, ranges |-> managed]

Wanted == IF job.op = "apply" THEN [block |-> job.block, ranges |-> job.ranges]
          ELSE Off

(* injectX and stripManaged: the marked block is replaced or dropped, the  *)
(* operator's part stays.                                                  *)
Inject(c, b) == [c EXCEPT !.block = b]
Strip(c) == [c EXCEPT !.block = NoBlock]

-----------------------------------------------------------------------------
(* The Transport.  Docker file operations run under the context of the     *)
(* apply request; local ones ignore it.  Commands always obey it.          *)

FilesDead == Transport = "docker" /\ ctxDone
CanFail(f) == f \in Faults /\ faults < MaxFaults

\* The ways a call that turns the content old of a file into new can end:
\* what is there afterwards, whether it reports success, the faults spent.
Change(old, new) ==
  IF FilesDead THEN {[now |-> old, ok |-> FALSE, cost |-> 0]}
  ELSE {[now |-> new, ok |-> TRUE, cost |-> 0]}
       \cup {w \in {[now |-> old, ok |-> FALSE, cost |-> 1]} : CanFail("write")}
       \cup {w \in {[now |-> new, ok |-> FALSE, cost |-> 1]} : CanFail("lostWrite")}

\* A write can also stop half way.
Put(old, new, torn) ==
  Change(old, new)
    \cup {w \in {[now |-> torn, ok |-> FALSE, cost |-> 1]} :
             CanFail("torn") /\ ~FilesDead}

TornConf == [block |-> NoBlock, rest |-> Truncated]
PutManaged(new) == Put(managed, new, Truncated)
PutConf(new) == Put(conf, new, TornConf)
DropManaged == Change(managed, Absent)

\* Mutant: the checker's verdict is ignored, only its failure to run counts.
ChecksUnread == {[ok |-> ~ctxDone, cost |-> 0]}

\* What the checker reports.
Checks == {r \in {[ok |-> Accepted /\ ~ctxDone, cost |-> 0],
                  [ok |-> FALSE, cost |-> 1]} : r.cost = 1 => CanFail("check")}
\* Mutant: the server loads whatever is on disk.
ReloadsAnything ==
  {[ok |-> ~ctxDone, loads |-> ~ctxDone, cost |-> 0]}
    \cup {r \in {[ok |-> FALSE, loads |-> FALSE, cost |-> 1]} : CanFail("reload")}

\* What the reload command reports, and whether the server loads the disk.
Reloads ==
  {r \in {[ok |-> Accepted /\ ~ctxDone, loads |-> Accepted /\ ~ctxDone, cost |-> 0],
          [ok |-> FALSE, loads |-> FALSE, cost |-> 1],
          [ok |-> FALSE, loads |-> Accepted, cost |-> 1]} :
     r.cost = 1 => CanFail(IF r.loads THEN "lostReload" ELSE "reload")}

-----------------------------------------------------------------------------
NoOutcome == [kind |-> "none", ok |-> FALSE, changed |-> FALSE]

Goto(next) == pc' = next /\ UNCHANGED <<outcome, before>>
Finish(kind, ok, changed) ==
  /\ pc' = "idle"
  /\ outcome' = [kind |-> kind, ok |-> ok, changed |-> changed]
  /\ UNCHANGED before
\* A step that spends n faults; on a file operation, a fault leaves doubt.
Spend(n) == faults' = faults + n /\ UNCHANGED doubt
SpendOnFile(n) ==
  /\ faults' = faults + n
  /\ doubt' = IF n = 0 THEN doubt ELSE doubt \cup {"files"}
\* So does a reload that is reported as failed and took effect.
SpendOnReload(r) ==
  /\ faults' = faults + r.cost
  /\ doubt' = IF r.loads /\ ~r.ok THEN doubt \cup {"server"} ELSE doubt

Init ==
  /\ managed = Absent
  /\ conf \in {c \in ConfText : c.block = NoBlock /\ c.rest \in Rests \ RefusedRests}
  /\ live = Off
  /\ pc = "idle"
  /\ job \in {j \in Job : j.op = "none" /\ j.prior = Absent /\ j.orig = Absent
                           /\ j.cause = "none"}
  /\ ctxDone = FALSE
  /\ outcome = NoOutcome
  /\ before = disk
  /\ faults = 0 /\ doubt = {}

(* Start of an operation: a fresh context, the desired ranges and block.   *)
Begin(op, first) ==
  /\ pc = "idle"
  /\ \E r \in Payloads, b \in Blocks :
       job' = [op |-> op, ranges |-> r, block |-> b,
               prior |-> Absent, orig |-> Absent, cause |-> "none"]
  /\ pc' = first
  /\ ctxDone' = FALSE
  /\ outcome' = NoOutcome
  /\ before' = disk
  /\ UNCHANGED <<disk, live, tally>>

BeginApply == Begin("apply", "readManaged")
BeginRemove == Begin("remove", "probeConf")

(* dryRunConfig: reads, compares, and checks the configuration that is on  *)
(* disk now.  It changes nothing, so it is one step.                       *)
DryRun ==
  /\ pc = "idle"
  /\ IF conf = Absent \/ conf.rest \in NoAnchor
     THEN Finish("error", FALSE, FALSE)
     ELSE \E r \in Payloads, b \in Blocks :
            Finish("dryRun", Accepted, managed # r \/ conf # Inject(conf, b))
  /\ UNCHANGED <<disk, live, job, ctxDone, tally>>

\* Detect runs first; without the engine's binary nothing is done.
NotDetected ==
  /\ pc \in {"readManaged", "probeConf"}
  /\ ctxDone \/ CanFail("probe")
  /\ Spend(IF ctxDone THEN 0 ELSE 1)
  /\ Finish("error", FALSE, FALSE)
  /\ UNCHANGED <<disk, live, job, ctxDone>>

-----------------------------------------------------------------------------
(* applyConfig                                                             *)

\* readMaybe: a failing stat or read counts as "no such file".
ReadManaged ==
  /\ pc = "readManaged"
  /\ \E lie \in {FALSE} \cup {x \in {TRUE} : CanFail("probe")} :
       /\ job' = [job EXCEPT !.prior = IF lie \/ FilesDead THEN Absent ELSE managed]
       /\ SpendOnFile(IF lie THEN 1 ELSE 0)
  /\ Goto("readConf")
  /\ UNCHANGED <<disk, live, ctxDone>>

\* Mutant: only the configuration file is compared, as if the marker alone
\* told that the target is installed.
UpToDateByMarker == Inject(conf, job.block) = conf

UpToDate == job.prior = job.ranges /\ Inject(conf, job.block) = conf

\* Read the configuration, inject the block, stop if nothing would change.
ReadConf ==
  /\ pc = "readConf"
  /\ IF FilesDead \/ conf = Absent \/ conf.rest \in NoAnchor
     THEN Finish("error", FALSE, FALSE) /\ UNCHANGED job
     ELSE IF UpToDate
     THEN Finish("noop", TRUE, FALSE) /\ UNCHANGED job
     ELSE Goto("writeManaged") /\ job' = [job EXCEPT !.orig = conf]
  /\ UNCHANGED <<disk, live, ctxDone, tally>>

\* Stage 1: a failure returns with nothing restored.
WriteManaged ==
  /\ pc = "writeManaged"
  /\ \E w \in PutManaged(job.ranges) :
       /\ managed' = w.now
       /\ SpendOnFile(w.cost)
       /\ IF w.ok THEN Goto("writeConf") ELSE Finish("error", FALSE, FALSE)
  /\ UNCHANGED <<conf, live, job, ctxDone>>

\* Stage 2: a failure restores the managed file only.
WriteConf ==
  /\ pc = "writeConf"
  /\ \E w \in PutConf(Inject(job.orig, job.block)) :
       /\ conf' = w.now
       /\ SpendOnFile(w.cost)
       /\ Goto(IF w.ok THEN "validate" ELSE "unstage")
  /\ UNCHANGED <<managed, live, job, ctxDone>>

\* restoreManaged: rewrite the earlier content, or remove the file.  Its
\* error is ignored.
\* Mutant: the undo forgets that the managed file existed before.
UndoManagedByDeleting == DropManaged

UndoManaged == IF job.prior = Absent THEN DropManaged ELSE PutManaged(job.prior)

Unstage ==
  /\ pc = "unstage"
  /\ \E w \in UndoManaged : managed' = w.now /\ SpendOnFile(w.cost)
  /\ Finish("error", FALSE, FALSE)
  /\ UNCHANGED <<conf, live, job, ctxDone>>

\* The checker's verdict decides whether to reload or to restore.
ValidateThen(here, reload, restore) ==
  /\ pc = here
  /\ \E r \in Checks :
       /\ Spend(r.cost)
       /\ IF r.ok THEN Goto(reload) /\ UNCHANGED job
          ELSE Goto(restore) /\ job' = [job EXCEPT !.cause = "check"]
  /\ UNCHANGED <<disk, live, ctxDone>>

\* Stage 3
Validate == ValidateThen("validate", "reload", "restoreConf")

\* Stage 4
Reload ==
  /\ pc = "reload"
  /\ \E r \in Reloads :
       /\ SpendOnReload(r)
       /\ live' = IF r.loads THEN Enforced ELSE live
       /\ IF r.ok THEN Finish("applied", TRUE, TRUE) /\ UNCHANGED job
          ELSE Goto("restoreConf") /\ job' = [job EXCEPT !.cause = "reload"]
  /\ UNCHANGED <<disk, ctxDone>>

\* Mutant: restoreAll forgets the configuration file.
UndoConfForgotten == {[now |-> conf, ok |-> TRUE, cost |-> 0]}

UndoConf == PutConf(job.orig)

\* restoreAll: the configuration first, then the managed file; errors are
\* ignored and the operation says "rolled back".
RestoreConf ==
  /\ pc = "restoreConf"
  /\ \E w \in UndoConf : conf' = w.now /\ SpendOnFile(w.cost)
  /\ Goto("restoreManaged")
  /\ UNCHANGED <<managed, live, job, ctxDone>>

RestoreManaged ==
  /\ pc = "restoreManaged"
  /\ \E w \in UndoManaged : managed' = w.now /\ SpendOnFile(w.cost)
  /\ IF job.cause = "check" THEN Finish("rolledBack", FALSE, FALSE)
     ELSE Goto("reloadPrior")
  /\ UNCHANGED <<conf, live, job, ctxDone>>

\* Also the last step of a removal whose reload failed.
ReloadPrior ==
  /\ pc = "reloadPrior"
  /\ \E r \in Reloads :
       /\ SpendOnReload(r)
       /\ live' = IF r.loads THEN Enforced ELSE live
  /\ Finish("rolledBack", FALSE, FALSE)
  /\ UNCHANGED <<disk, job, ctxDone>>

-----------------------------------------------------------------------------
(* removeConfig                                                            *)

\* Exists is false on any error; then the managed file is removed and the
\* operation reports success.
ProbeConf ==
  /\ pc = "probeConf"
  /\ \E lie \in {FALSE} \cup {x \in {TRUE} : CanFail("probe")} :
       /\ SpendOnFile(IF lie THEN 1 ELSE 0)
       /\ IF lie \/ FilesDead \/ conf = Absent
          THEN pc' = "dropManaged" /\ job' = [job EXCEPT !.orig = Absent]
          ELSE pc' = "readStrip" /\ job' = [job EXCEPT !.orig = conf]
  /\ UNCHANGED <<disk, live, ctxDone, outcome, before>>

\* Mutant: a configuration without the block counts as removed, whatever
\* became of the managed file.
AlreadyRemovedByMarker(seen) == Strip(conf) = conf

AlreadyRemoved(seen) == Strip(conf) = conf /\ seen = Absent

ReadStrip ==
  /\ pc = "readStrip"
  /\ \E lie \in {FALSE} \cup {x \in {TRUE} : CanFail("probe")} :
       /\ SpendOnFile(IF lie THEN 1 ELSE 0)
       /\ IF FilesDead
          THEN Finish("error", FALSE, FALSE)
          ELSE IF AlreadyRemoved(IF lie THEN Absent ELSE managed)
          THEN Finish("already", TRUE, FALSE)
          ELSE Goto("writeStripped")
  /\ UNCHANGED <<disk, live, job, ctxDone>>

WriteStripped ==
  /\ pc = "writeStripped"
  /\ \E w \in PutConf(Strip(job.orig)) :
       /\ conf' = w.now
       /\ SpendOnFile(w.cost)
       /\ IF w.ok THEN Goto("validateStripped") ELSE Finish("error", FALSE, FALSE)
  /\ UNCHANGED <<managed, live, job, ctxDone>>

ValidateStripped ==
  ValidateThen("validateStripped", "reloadStripped", "restoreStripped")

ReloadStripped ==
  /\ pc = "reloadStripped"
  /\ \E r \in Reloads :
       /\ SpendOnReload(r)
       /\ live' = IF r.loads THEN Enforced ELSE live
       /\ IF r.ok THEN Goto("dropManaged") /\ UNCHANGED job
          ELSE Goto("restoreStripped") /\ job' = [job EXCEPT !.cause = "reload"]
  /\ UNCHANGED <<disk, ctxDone>>

RestoreStripped ==
  /\ pc = "restoreStripped"
  /\ \E w \in UndoConf : conf' = w.now /\ SpendOnFile(w.cost)
  /\ IF job.cause = "check" THEN Finish("rolledBack", FALSE, FALSE)
     ELSE Goto("reloadPrior")
  /\ UNCHANGED <<managed, live, job, ctxDone>>

\* The last call of a removal, also when the configuration is absent.
RemoveManaged ==
  /\ pc = "dropManaged"
  /\ \E w \in DropManaged : managed' = w.now /\ SpendOnFile(w.cost)
  /\ IF job.orig = Absent THEN Finish("absent", TRUE, FALSE)
     ELSE Finish("removed", TRUE, TRUE)
  /\ UNCHANGED <<conf, live, job, ctxDone>>

-----------------------------------------------------------------------------
(* The environment                                                         *)

\* The request times out, its client goes away, or the daemon gets SIGTERM.
Cancel ==
  /\ "cancel" \in Faults
  /\ pc # "idle" /\ ~ctxDone
  /\ ctxDone' = TRUE
  /\ UNCHANGED <<disk, live, pc, job, outcome, before, tally>>

WritesManaged == {"writeManaged", "unstage", "restoreManaged"}
WritesConf == {"writeConf", "restoreConf", "writeStripped", "restoreStripped"}

\* The process dies before the next call, or in the middle of a write: the
\* file was already emptied (os.WriteFile truncates first).
Crash ==
  /\ CanFail("crash")
  /\ pc # "idle"
  /\ \/ UNCHANGED disk /\ Spend(1)
     \/ /\ "torn" \in Faults /\ pc \in WritesManaged
        /\ managed' = Truncated /\ SpendOnFile(1)
        /\ UNCHANGED conf
     \/ /\ "torn" \in Faults /\ pc \in WritesConf
        /\ conf' = TornConf /\ SpendOnFile(1)
        /\ UNCHANGED managed
  /\ Finish("crashed", FALSE, FALSE)
  /\ UNCHANGED <<live, job, ctxDone>>

\* Between operations the operator edits his own part of the file.
Edit ==
  /\ "edit" \in Operator
  /\ pc = "idle"
  /\ \E r \in Rests :
       conf' = [block |-> IF conf = Absent THEN NoBlock ELSE conf.block, rest |-> r]
  /\ UNCHANGED <<managed, live, pc, job, ctxDone, outcome, before, tally>>

Delete ==
  /\ "delete" \in Operator
  /\ pc = "idle"
  /\ conf' = Absent
  /\ doubt' = doubt \cup {"server"}
  /\ UNCHANGED <<managed, live, pc, job, ctxDone, outcome, before, faults>>

\* Somebody else (a certificate renewal, the init system) reloads or
\* restarts the server, at any moment.
OtherReload ==
  /\ "reload" \in Operator
  /\ Accepted
  /\ live' = Enforced
  /\ doubt' = doubt \cup {"server"}
  /\ UNCHANGED <<disk, pc, job, ctxDone, outcome, before, faults>>

-----------------------------------------------------------------------------
ApplyStep == \/ ReadManaged \/ ReadConf \/ WriteManaged \/ WriteConf \/ Unstage
             \/ Validate \/ Reload \/ RestoreConf \/ RestoreManaged \/ ReloadPrior
RemoveStep == \/ ProbeConf \/ ReadStrip \/ WriteStripped \/ ValidateStripped
              \/ ReloadStripped \/ RestoreStripped \/ RemoveManaged
Environment == Cancel \/ Crash \/ Edit \/ Delete \/ OtherReload

Next == \/ BeginApply \/ BeginRemove \/ DryRun \/ NotDetected
        \/ ApplyStep \/ RemoveStep \/ Environment

Spec == Init /\ [][Next]_vars

-----------------------------------------------------------------------------
(* Properties                                                              *)

\* The block in the configuration never refers to a managed file that is
\* gone, not even after a crash or a cancelled context, as long as single file
\* operations do what they report: applyConfig writes the managed file first
\* and undoes it last, removeConfig keeps it until the reload succeeded.
\* Otherwise the engine's next start would fail.
IncludeNeverDangles ==
  "files" \notin doubt /\ conf # Absent /\ conf.block # NoBlock => managed # Absent

\* "never reload cfg failing its checker", and the prior configuration that
\* is reloaded after a failed reload is known to be good.
ReloadsAccepted ==
  pc \in {"reload", "reloadStripped", "reloadPrior"} => Accepted

\* The same for the reloads that put a change into force.
ForwardReloadsAccepted == pc \in {"reload", "reloadStripped"} => Accepted

Finishing == pc # "idle" /\ pc' = "idle"

\* "restore touched files on fail": an operation that reports a failure
\* leaves both files as it found them.
FailureRestoresFiles ==
  [][Finishing /\ outcome'.kind \in {"error", "rolledBack"} => disk' = before]_vars

\* An apply that reports success, "already up to date" included, leaves the
\* server enforcing what the target asks for.
ApplySuccessEnforces ==
  [][Finishing /\ outcome'.kind \in {"applied", "noop"} => live' = Wanted]_vars

\* A removal that reports success leaves nothing behind, in the server or
\* on disk, also when an earlier operation crashed half way: as long as there
\* is no doubt, and the docker calls of the removal are still alive.
RemoveSuccessUndoes ==
  [][Finishing /\ outcome'.kind \in {"removed", "already"} /\ doubt' = {} /\ ~FilesDead =>
       /\ live' = Off
       /\ managed' = Absent
       /\ conf'.block = NoBlock]_vars

\* The scheduler keeps asking, and a running operation goes on.
FairSpec ==
  /\ Spec
  /\ WF_vars(BeginApply)
  /\ WF_vars(ApplyStep)
  /\ WF_vars(RemoveStep)

\* From here on only policy w is applied, in time, to a configuration that
\* can hold it and that the checker accepts.
Settled(w) ==
  /\ job.op = "apply" /\ Wanted = w /\ ~ctxDone
  /\ conf # Absent /\ conf.rest \notin RefusedRests \cup NoAnchor
  /\ w.ranges \notin RefusedPayloads

\* Repeated applies of a policy converge: finitely many failures cannot keep
\* the daily schedule from bringing it into force for good.
RepeatedApplyConverges ==
  \A w \in [block : Blocks, ranges : Payloads] :
    <>[]Settled(w) => <>[](live = w)

-----------------------------------------------------------------------------
(* SafeApply implements EnforcementPoint.                                  *)

EP == INSTANCE EnforcementPoint WITH
        Policies <- [block : Blocks, ranges : Payloads],
        enforced <- live,
        wanted   <- Wanted,
        phase    <- IF pc = "idle" THEN "idle"
                    ELSE IF pc = "dropManaged" THEN "done" ELSE "asked",
        report   <- IF outcome.ok /\ outcome.kind # "dryRun" THEN "ok"
                    ELSE IF outcome.kind \in {"error", "rolledBack"} THEN "failed"
                    ELSE "none"

\* With faults that the rollback handles, the multi-step sequence is seen by
\* its caller as one atomic switch with a truthful report.
ImplementsEnforcementPoint == EP!Spec
=============================================================================
