------------------------------- MODULE Applier -------------------------------
(***************************************************************************)
(* The processes of ip-watch and the state they share.  The daemon runs    *)
(* the scheduler and the web handlers as goroutines; every CLI command is  *)
(* a process of its own.  They meet in config.json, state.json,            *)
(* history.json and in the rules of the servers.  Mutual exclusion is an   *)
(* in-process mutex (the gate) and then an advisory file lock              *)
(* (internal/applier/applier.go); what is read before the lock is taken,   *)
(* or kept from an earlier run, can be stale when it is used.              *)
(* One engine operation is one step here; its inside is module SafeApply.  *)
(***************************************************************************)
EXTENDS Naturals, FiniteSets

CONSTANTS
  Targets,      \* target ids
  Specs,        \* target settings: [engine, enabled, valid]
  Data,         \* provider range lists
  Scheduler,    \* the daemon's scheduler goroutine
  Handlers,     \* the daemon's concurrent web requests
  Clis,         \* CLI processes
  None,         \* no entry, nobody
  WebCommands,  \* what the handlers run: subset of CommandKinds
  CliCommands,  \* what the CLIs run: subset of CommandKinds
  Faults,       \* subset of FaultKinds
  Ticking,      \* FALSE: only behaviours between two scheduled runs
  LockUnsafe,   \* the lock_unsafe setting
  Wrap          \* the history counter is kept modulo Wrap

CommandKinds == {"apply", "applyOne", "uninstall", "delete", "drop", "put"}

\* "engine": an engine operation fails and leaves the rules alone;
\* "loaded": it is done and reported as failed (nft -f succeeded and the rules
\* file could not be written; a docker call took effect and its answer was
\* lost); "fetch"; "save": config.json cannot be written; "lock":
\* stateDir/.lock cannot be created or locked; "crash": a process dies (the
\* daemon is restarted).
FaultKinds == {"engine", "loaded", "fetch", "save", "lock", "crash"}

ASSUME ThreadAssumption ==
  /\ Targets # {}
  /\ Scheduler \notin Handlers \cup Clis
  /\ Handlers \cap Clis = {}
  /\ None \notin Handlers \cup Clis \cup {Scheduler} \cup Specs \cup Data
  /\ WebCommands \subseteq CommandKinds \ {"applyOne"}
  /\ CliCommands \subseteq CommandKinds
  /\ Faults \subseteq FaultKinds
  /\ Ticking \in BOOLEAN /\ LockUnsafe \in BOOLEAN
  /\ Wrap \in Nat \ {0}

Daemon == Handlers \cup {Scheduler}
Threads == Daemon \cup Clis
Engines == {s.engine : s \in Specs}

\* The process of a thread; the scheduler's name stands for the daemon.
Process(t) == IF t \in Daemon THEN Scheduler ELSE t
Processes == {Process(t) : t \in Threads}

VARIABLES
  cfgFile,    \* config.json
  stateFile,  \* state.json: the fingerprint of the last successful apply
  history,    \* history.json: number of recorded runs, modulo Wrap
  rules,      \* per target and engine, the ranges in force
  data,       \* what the provider serves now
  mem,        \* each process's *config.Config
  gate,       \* holder of each process's mutex
  flock,      \* holder of the file lock
  scheduled,  \* the daemon runs its scheduler: its configuration was valid
  th,         \* each thread's program counter and locals
  runs,       \* history: runs that were to be recorded, modulo Wrap
  edits,      \* history: the configuration all acknowledged edits add up to
  unsettled,  \* history: targets whose rules, or whose entry in the state,
              \* may have changed since the scheduler recorded them
  crossed     \* history: deletes whose target was applied in between

vars == <<cfgFile, stateFile, history, rules, data, mem, gate, flock, scheduled, th, runs, edits,
          unsettled, crossed>>
files == <<cfgFile, stateFile, history>>
ghosts == <<runs, edits, unsettled, crossed>>
lock == <<gate, flock>>

-----------------------------------------------------------------------------
Config == [Targets -> Specs \cup {None}]
Fingerprint == [spec : Specs, data : Data]
States == [Targets -> Fingerprint \cup {None}]
Locals == [pc : {"idle", "lookup", "new", "gate", "flock", "next", "engine",
                 "record", "count", "saveCount", "remove", "forget", "edit",
                 "save", "unlock"},
           cmd : CommandKinds \cup {"none"},
           phase : {"none", "apply", "uninstall", "edit"},
           target : Targets, spec : Specs \cup {None}, force : BOOLEAN,
           todo : SUBSET (Targets \X Specs), data : Data,
           store : States, ok : BOOLEAN, seen : 0 .. Wrap - 1]

TypeOK ==
  /\ cfgFile \in Config /\ edits \in Config
  /\ stateFile \in States
  /\ history \in 0 .. Wrap - 1 /\ runs \in 0 .. Wrap - 1
  /\ rules \in [Targets -> [Engines -> Data \cup {None}]]
  /\ data \in Data
  /\ mem \in [Processes -> Config]
  /\ gate \in [Processes -> Threads \cup {None}]
  /\ flock \in Threads \cup {None}
  /\ scheduled \in BOOLEAN
  /\ th \in [Threads -> Locals]
  /\ unsettled \subseteq Targets /\ crossed \subseteq Threads

\* Steps that run under the lock.
Body == {"next", "engine", "record", "count", "saveCount", "remove", "forget",
         "edit", "save", "unlock"}
InBody(t) == th[t].pc \in Body

-----------------------------------------------------------------------------
\* Config.Validate, as far as targets go.  Only a hand-written file is
\* invalid: the editing commands validate the target first.
Valid(config) == \A x \in Targets : config[x] # None => config[x].valid

Idle(store, force) ==
  [pc |-> "idle", cmd |-> "none", phase |-> "none",
   target |-> CHOOSE x \in Targets : TRUE, spec |-> None, force |-> force,
   todo |-> {}, data |-> CHOOSE d \in Data : TRUE, store |-> store,
   ok |-> TRUE, seen |-> 0]
NoState == [x \in Targets |-> None]

\* A finished thread keeps nothing, but the scheduler keeps its Applier and
\* with it the state it loaded when the daemon started; only its first run
\* after that is forced.
Rest(t) == IF t = Scheduler THEN Idle(th[t].store, FALSE) ELSE Idle(NoState, FALSE)

Init ==
  /\ cfgFile \in [Targets -> Specs]
  /\ scheduled = Valid(cfgFile)
  /\ stateFile = NoState /\ history = 0
  /\ rules = [x \in Targets |-> [e \in Engines |-> None]]
  /\ data \in Data
  /\ mem = [p \in Processes |-> cfgFile]
  /\ gate = [p \in Processes |-> None]
  /\ flock = None
  /\ th = [t \in Threads |-> Idle(NoState, t = Scheduler)]
  /\ runs = 0 /\ edits = cfgFile
  /\ unsettled = Targets /\ crossed = {}

Goto(t, pc) == th' = [th EXCEPT ![t].pc = pc]
At(t, pc) == th[t].pc = pc
Mine(t) == mem[Process(t)]

-----------------------------------------------------------------------------
(* Commands up to the lock                                                 *)

\* Scheduler.runOnce: the same Applier every time.  In repair mode the
\* scheduler does not run, until the daemon is restarted.
Tick ==
  /\ Ticking /\ scheduled
  /\ At(Scheduler, "idle")
  /\ th' = [th EXCEPT ![Scheduler].pc = "gate", ![Scheduler].cmd = "apply",
                      ![Scheduler].phase = "apply"]
  /\ UNCHANGED <<files, rules, data, mem, lock, scheduled, ghosts>>

Start(t) ==
  /\ t # Scheduler /\ At(t, "idle")
  /\ \E c \in (IF t \in Clis THEN CliCommands ELSE WebCommands), x \in Targets, s \in {v \in Specs : v.valid}, f \in BOOLEAN :
       /\ ~f => c \in {"apply", "applyOne"} /\ t \in Clis  \* the web UI forces
       /\ th' = [th EXCEPT ![t].pc = "lookup", ![t].cmd = c, ![t].target = x,
                           ![t].spec = IF c = "put" THEN s ELSE None, ![t].force = f,
                           ![t].phase = IF c \in {"put", "drop"} THEN "edit"
                                        ELSE IF c \in {"apply", "applyOne"} THEN "apply"
                                        ELSE "uninstall"]
  /\ UNCHANGED <<files, rules, data, mem, lock, scheduled, ghosts>>

\* Mutant: only the web UI refuses to enforce an invalid configuration.
RefusedByWebOnly(t, config) == t \in Handlers /\ ~Valid(config)

\* Enforcement is refused while the configuration is invalid; a command on
\* one target needs its entry.
Refused(t, config) ==
  \/ th[t].cmd \notin {"put", "drop"} /\ ~Valid(config)
  \/ th[t].cmd \notin {"put", "apply"} /\ config[th[t].target] = None

\* A CLI loads config.json into a copy of its own, without the lock; a web
\* handler looks at the daemon's copy under the gate.  Both take the
\* target's settings from there.
Lookup(t) ==
  /\ At(t, "lookup")
  /\ IF t \in Clis THEN mem' = [mem EXCEPT ![t] = cfgFile]
     ELSE gate[Process(t)] = None /\ UNCHANGED mem
  /\ LET config == mem'[Process(t)]
     IN th' = [th EXCEPT ![t] =
                 IF Refused(t, config) THEN Rest(t)
                 ELSE [th[t] EXCEPT
                   !.pc = IF th[t].cmd \in {"put", "drop"} THEN "gate" ELSE "new",
                   !.spec = IF th[t].cmd \in {"put", "apply"} THEN th[t].spec
                            ELSE config[th[t].target]]]
  /\ UNCHANGED <<files, rules, data, lock, scheduled, ghosts>>

\* applier.New loads the state, without the lock.
NewApplier(t) ==
  /\ At(t, "new")
  /\ th' = [th EXCEPT ![t].store = stateFile, ![t].pc = "gate"]
  /\ UNCHANGED <<files, rules, data, mem, lock, scheduled, ghosts>>

-----------------------------------------------------------------------------
(* The lock: the gate of the process, then the file lock.                  *)

LockGate(t) ==
  /\ At(t, "gate")
  /\ gate[Process(t)] = None
  /\ gate' = [gate EXCEPT ![Process(t)] = t]
  /\ Goto(t, "flock")
  /\ UNCHANGED <<files, rules, data, mem, flock, scheduled, ghosts>>

\* Mutant: every slot of the configuration is listed, removed ones too.
EnterWithHoles(t) ==
  th' = [th EXCEPT ![t].pc = [apply |-> "next", uninstall |-> "remove",
                              edit |-> "edit"][th[t].phase],
                   ![t].todo = {<<x, Mine(t)[x]>> : x \in {y \in Targets : th[t].phase = "apply"}}]

\* ApplyAll takes its list of enabled targets once it holds the lock; an
\* apply of one target does not ask whether it is enabled.
Enter(t) ==
  th' = [th EXCEPT ![t].pc = [apply |-> "next", uninstall |-> "remove",
                              edit |-> "edit"][th[t].phase],
                   ![t].todo = {w \in Targets \X Specs :
                                  /\ th[t].phase = "apply"
                                  /\ IF th[t].cmd = "applyOne" THEN w = <<th[t].target, th[t].spec>>
                                     ELSE Mine(t)[w[1]] = w[2] /\ w[2].enabled}]

\* Mutant: only the gate is taken, which another process does not see.
FileLockFreeIgnored == TRUE

FileLockFree == flock = None

LockFile(t) ==
  /\ At(t, "flock")
  /\ FileLockFree
  /\ flock' = t
  /\ Enter(t)
  /\ UNCHANGED <<files, rules, data, mem, gate, scheduled, ghosts>>

\* Mutant: refusing forgets to give the gate back.
RefuseHoldingGate(t) == UNCHANGED gate /\ th' = [th EXCEPT ![t] = Rest(t)]

Refuse(t) == /\ gate' = [gate EXCEPT ![Process(t)] = None]
             /\ th' = [th EXCEPT ![t] = Rest(t)]

\* No file lock: refuse, unless lock_unsafe.
LockFails(t) ==
  /\ "lock" \in Faults
  /\ At(t, "flock")
  /\ IF LockUnsafe
     THEN Enter(t) /\ UNCHANGED gate
     ELSE Refuse(t)
  /\ UNCHANGED <<files, rules, data, mem, flock, scheduled, ghosts>>

\* Mutant: a failed uninstall does not keep the target.
GoesOnToEditAlways(t) == th[t].cmd = "delete" /\ th[t].phase = "uninstall"

GoesOnToEdit(t) == th[t].cmd = "delete" /\ th[t].phase = "uninstall" /\ th[t].ok

\* Release; a delete whose uninstall succeeded goes on with the edit.
Unlock(t) ==
  /\ At(t, "unlock")
  /\ gate' = [gate EXCEPT ![Process(t)] = None]
  /\ flock' = IF flock = t THEN None ELSE flock
  /\ th' = [th EXCEPT ![t] =
              IF GoesOnToEdit(t)
              THEN [@ EXCEPT !.phase = "edit", !.pc = "gate"]
              ELSE Rest(t)]
  /\ UNCHANGED <<files, rules, data, mem, scheduled, ghosts>>

-----------------------------------------------------------------------------
(* applyLocked, for one target of the list after the other                 *)

Wants(t) == [spec |-> th[t].spec, data |-> th[t].data]

\* Skip what the Applier's state says is in force already.
Skips(t, x, fp) == ~th[t].force /\ th[t].store[x] = fp

NextTarget(t) ==
  /\ At(t, "next") /\ th[t].todo # {}
  /\ \E w \in th[t].todo :
       th' = [th EXCEPT
         ![t].todo = @ \ {w}, ![t].target = w[1], ![t].spec = w[2], ![t].data = data,
         ![t].pc = IF Skips(t, w[1], [spec |-> w[2], data |-> data])
                   THEN "count" ELSE "engine"]
  /\ UNCHANGED <<files, rules, data, mem, lock, scheduled, ghosts>>

\* A failed fetch ends the target's run; nothing is recorded.
FetchFails(t) ==
  /\ "fetch" \in Faults
  /\ At(t, "next")
  /\ \E w \in th[t].todo : th' = [th EXCEPT ![t].todo = @ \ {w}]
  /\ UNCHANGED <<files, rules, data, mem, lock, scheduled, ghosts>>

AllDone(t) ==
  /\ At(t, "next") /\ th[t].todo = {}
  /\ Goto(t, "unlock")
  /\ UNCHANGED <<files, rules, data, mem, lock, scheduled, ghosts>>

\* The deletes that have removed the target's rules and not yet its entry.
HalfDone(x) ==
  {u \in Threads : th[u].cmd = "delete" /\ th[u].phase = "edit" /\ th[u].target = x}

Install(t) ==
  LET x == th[t].target
  IN /\ rules' = [rules EXCEPT ![x][th[t].spec.engine] = th[t].data]
     /\ unsettled' = unsettled \cup {x}
     /\ crossed' = crossed \cup HalfDone(x)

\* Mutant: a failed operation is recorded like any other.
EngineApplyRecordsFailure(t) ==
  /\ At(t, "engine")
  /\ \/ Install(t)
     \/ "engine" \in Faults /\ UNCHANGED <<rules, unsettled, crossed>>
  /\ Goto(t, "record")
  /\ UNCHANGED <<files, data, mem, lock, scheduled, runs, edits>>

EngineApply(t) ==
  /\ At(t, "engine")
  /\ \/ Install(t) /\ Goto(t, "record")
     \/ "engine" \in Faults /\ UNCHANGED <<rules, unsettled, crossed>> /\ Goto(t, "count")
     \/ "loaded" \in Faults /\ Install(t) /\ Goto(t, "count")
  /\ UNCHANGED <<files, data, mem, lock, scheduled, runs, edits>>

\* Store.Record writes the Applier's whole map, as it was loaded: with it the
\* entries of other targets that have been recorded since.
Overwritten(t) == {y \in Targets \ {th[t].target} : th[t].store[y] # stateFile[y]}

SaveState(t, x, fp) ==
  LET new == [th[t].store EXCEPT ![x] = fp]
  IN /\ th' = [th EXCEPT ![t].store = new,
                         ![t].pc = IF fp = None THEN "unlock" ELSE "count"]
     /\ stateFile' = new

Record(t) ==
  /\ At(t, "record")
  /\ SaveState(t, th[t].target, Wants(t))
  /\ unsettled' = (unsettled \cup Overwritten(t))
                    \ (IF t = Scheduler THEN {th[t].target} ELSE {})
  /\ UNCHANGED <<cfgFile, history, rules, data, mem, lock, scheduled, runs, edits, crossed>>

\* Mutant: the store loaded at the start of the command is used.
HistorySeenEarlier(t) == th[t].seen

HistorySeen(t) == history

\* history.Record reads the file again before it adds the run.
LoadHistory(t) ==
  /\ At(t, "count")
  /\ th' = [th EXCEPT ![t].seen = HistorySeen(t), ![t].pc = "saveCount"]
  /\ runs' = (runs + 1) % Wrap
  /\ UNCHANGED <<files, rules, data, mem, lock, scheduled, edits, unsettled, crossed>>

SaveHistory(t) ==
  /\ At(t, "saveCount")
  /\ history' = (th[t].seen + 1) % Wrap
  /\ Goto(t, "next")
  /\ UNCHANGED <<cfgFile, stateFile, rules, data, mem, lock, scheduled, ghosts>>

-----------------------------------------------------------------------------
(* Applier.Remove, and the edit of the configuration                       *)

Detach(t) ==
  /\ rules' = [rules EXCEPT ![th[t].target][th[t].spec.engine] = None]
  /\ unsettled' = unsettled \cup {th[t].target}

EngineRemove(t) ==
  /\ At(t, "remove")
  /\ \/ Detach(t) /\ Goto(t, "forget")
     \/ /\ \/ "engine" \in Faults /\ UNCHANGED <<rules, unsettled>>
           \/ "loaded" \in Faults /\ Detach(t)
        /\ th' = [th EXCEPT ![t].ok = FALSE, ![t].pc = "unlock"]
  /\ crossed' = crossed \ {t}
  /\ UNCHANGED <<files, data, mem, lock, scheduled, runs, edits>>

\* Store.Forget writes nothing if the Applier knew no entry.
Forget(t) ==
  /\ At(t, "forget")
  /\ IF th[t].store[th[t].target] = None
     THEN Goto(t, "unlock") /\ UNCHANGED <<stateFile, unsettled>>
     ELSE SaveState(t, th[t].target, None) /\ unsettled' = unsettled \cup Overwritten(t)
  /\ UNCHANGED <<cfgFile, history, rules, data, mem, lock, scheduled, runs, edits, crossed>>

EditValue(t) == IF th[t].cmd = "put" THEN th[t].spec ELSE None

\* Mutant: the edit goes to a fresh copy; the process's own stays as it was.
EditOfCopy(t) ==
  /\ At(t, "edit")
  /\ Goto(t, "save")
  /\ UNCHANGED <<files, rules, data, mem, lock, scheduled, ghosts>>

\* UpsertTarget or RemoveTarget on the process's copy ...
Edit(t) ==
  /\ At(t, "edit")
  /\ mem' = [mem EXCEPT ![Process(t)][th[t].target] = EditValue(t)]
  /\ Goto(t, "save")
  /\ UNCHANGED <<files, rules, data, lock, scheduled, ghosts>>

\* ... then the whole copy replaces config.json.  A failed save is reported
\* but the copy keeps the edit.
Save(t) ==
  /\ At(t, "save")
  /\ \/ /\ cfgFile' = Mine(t)
        /\ edits' = [edits EXCEPT ![th[t].target] = EditValue(t)]
     \/ "save" \in Faults /\ UNCHANGED <<cfgFile, edits>>
  /\ Goto(t, "unlock")
  /\ UNCHANGED <<stateFile, history, rules, data, mem, lock, scheduled, runs, unsettled, crossed>>

-----------------------------------------------------------------------------
(* The environment                                                         *)

ProviderChanges ==
  /\ data' \in Data \ {data}
  /\ UNCHANGED <<files, rules, mem, lock, scheduled, th, ghosts>>

\* A process dies; the kernel drops its file lock.  The daemon is restarted:
\* it reads config.json and the state, and its first run is forced.
Crash(p) ==
  /\ "crash" \in Faults
  /\ LET dead == {t \in Threads : Process(t) = p}
     IN /\ th' = [t \in Threads |->
                    IF t \notin dead THEN th[t]
                    ELSE IF t = Scheduler THEN Idle(stateFile, TRUE)
                    ELSE Idle(NoState, FALSE)]
        /\ flock' = IF flock \in dead THEN None ELSE flock
        /\ runs' = IF \E t \in dead : At(t, "saveCount") THEN history ELSE runs
  /\ gate' = [gate EXCEPT ![p] = None]
  /\ mem' = [mem EXCEPT ![p] = cfgFile]
  /\ scheduled' = IF p = Scheduler THEN Valid(cfgFile) ELSE scheduled
  /\ UNCHANGED <<files, rules, data, edits, unsettled, crossed>>

-----------------------------------------------------------------------------
Work(t) ==
  \/ Lookup(t) \/ NewApplier(t) \/ LockGate(t) \/ LockFile(t) \/ Unlock(t)
  \/ NextTarget(t) \/ FetchFails(t) \/ AllDone(t) \/ EngineApply(t)
  \/ Record(t) \/ LoadHistory(t) \/ SaveHistory(t) \/ EngineRemove(t)
  \/ Forget(t) \/ Edit(t) \/ Save(t)

Next == \/ Tick
        \/ \E t \in Threads : Start(t) \/ LockFails(t) \/ Work(t)
        \/ ProviderChanges
        \/ \E p \in Processes : Crash(p)

Spec == Init /\ [][Next]_vars

\* A running command goes on, and a waiting one gets a lock that is released
\* again and again: Go's mutex hands over to a waiter that starves, the
\* kernel's queue of lock waiters is first come, first served.
FairSpec ==
  /\ Spec
  /\ \A t \in Threads :
       WF_vars(Work(t)) /\ SF_vars(LockGate(t) \/ LockFile(t))

-----------------------------------------------------------------------------
(* Properties                                                              *)

\* Engine operations, state, history and configuration writes of different
\* threads and processes never overlap.
MutualExclusion == \A t, u \in Threads : InBody(t) /\ InBody(u) => t = u

\* No recorded run is lost, whichever processes record at the same time.
HistoryComplete == (\A t \in Threads : ~At(t, "saveCount")) => history = runs

\* "skips targets whose ranges did not change": what a run skips is in force
\* on the server.
SkipIsSound ==
  [][\A t \in Threads : At(t, "next") /\ th'[t].pc = "count" =>
       rules[th'[t].target][th'[t].spec.engine] = th'[t].data]_vars

\* The same of the scheduler, also after a restart, as long as nobody has changed
\* the target's rules, or put back an older entry of it with the whole state,
\* since the scheduler recorded them last.
SettledSkipIsSound ==
  [][At(Scheduler, "next") /\ th'[Scheduler].pc = "count" =>
       LET s == th'[Scheduler]
       IN s.target \in unsettled \/ rules[s.target][s.spec.engine] = s.data]_vars

\* config.json is what all the acknowledged edits add up to: no process
\* undoes the edit of another, and no refused edit gets in.
NoLostEdit == cfgFile = edits

\* A target that is deleted with its rules leaves none of the engine that it
\* was set to, unless it was applied between the two halves of the delete.
DeleteLeavesNothing ==
  [][\A t \in Threads : At(t, "save") /\ th[t].cmd = "delete" /\ cfgFile' # cfgFile =>
       LET d == th[t] IN t \in crossed \/ rules[d.target][d.spec.engine] = None]_vars

\* Rules are installed or removed only by a process whose configuration is
\* valid: in repair mode nothing is enforced.
EnforcesOnlyValid ==
  [][\A t \in Threads : At(t, "engine") \/ At(t, "remove") => Valid(Mine(t))]_rules

\* Whoever asks for the lock is served or refused.
RequestsEnd == \A t \in Threads : At(t, "gate") ~> At(t, "idle")
=============================================================================
