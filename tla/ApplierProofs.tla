----------------------------- MODULE ApplierProofs -----------------------------
(***************************************************************************)
(* What the locks, the history and the refusals of Applier guarantee for   *)
(* every number of requests, processes, targets and faults.                *)
(***************************************************************************)
EXTENDS Applier, TLAPS

\* Which steps belong to which half of a command, and which halves to which
\* command; what is installed, recorded or put is a target's settings.
InPhase(l) ==
  /\ l.pc # "idle" => l.phase # "none"
  /\ l.pc \in {"next", "engine", "record", "count", "saveCount"} => l.phase = "apply"
  /\ l.pc \in {"remove", "forget"} => l.phase = "uninstall"
  /\ l.pc \in {"edit", "save"} => l.phase = "edit"
  /\ l.phase = "apply" => l.cmd \in {"apply", "applyOne"}
  /\ l.phase = "uninstall" => l.cmd \in {"uninstall", "delete"}
  /\ l.phase = "edit" => l.cmd \in {"put", "drop", "delete"}
  /\ l.pc \in {"engine", "record"} => l.spec \in Specs
  /\ l.cmd = "put" => l.spec \in Specs /\ l.spec.valid
  /\ l.cmd = "delete" /\ l.pc # "lookup" => l.spec \in Specs
  /\ l.cmd = "delete" /\ l.pc = "lookup" => l.phase = "uninstall"

Phases == \A t \in Threads : InPhase(th[t])

TypeInv == TypeOK /\ Phases

LEMMA IdleIsTyped ==
  ASSUME NEW d \in Data, NEW store \in States, NEW force \in BOOLEAN
  PROVE  Idle(store, force) \in Locals /\ InPhase(Idle(store, force))
<1>1. (CHOOSE x \in Targets : TRUE) \in Targets
  BY ThreadAssumption
<1>2. (CHOOSE x \in Data : TRUE) \in Data
  OBVIOUS
<1>3. 0 \in 0 .. Wrap - 1
  BY ThreadAssumption
<1> QED
  BY <1>1, <1>2, <1>3 DEF Idle, Locals, InPhase, CommandKinds

LEMMA RestIsTyped ==
  ASSUME TypeInv, NEW t \in Threads
  PROVE  Rest(t) \in Locals /\ InPhase(Rest(t))
<1>1. NoState \in States /\ th[t].store \in States
  BY DEF NoState, States, TypeInv, TypeOK, Locals
<1> QED
  BY <1>1, IdleIsTyped DEF Rest, TypeInv, TypeOK

LEMMA ProcessIsTyped == \A t \in Threads : Process(t) \in Processes
  BY DEF Processes

LEMMA TypeInit == Init => TypeInv
<1> SUFFICES ASSUME Init PROVE TypeInv
  OBVIOUS
<1>1. NoState \in States
  BY DEF NoState, States
<1>2. data \in Data
  BY DEF Init
<1>3. \A t \in Threads : Idle(NoState, t = Scheduler) \in Locals /\ InPhase(Idle(NoState, t = Scheduler))
  BY <1>1, <1>2, IdleIsTyped
<1>4. th \in [Threads -> Locals] /\ Phases
  BY <1>3 DEF Init, Phases
<1>5. 0 \in 0 .. Wrap - 1
  BY ThreadAssumption
<1>6. cfgFile \in Config /\ scheduled \in BOOLEAN
  BY DEF Init, Config, Valid
<1>7. rules \in [Targets -> [Engines -> Data \cup {None}]]
  BY DEF Init
<1>8. mem \in [Processes -> Config] /\ gate \in [Processes -> Threads \cup {None}]
  BY <1>6 DEF Init
<1> QED
  BY <1>1, <1>2, <1>4, <1>5, <1>6, <1>7, <1>8 DEF Init, TypeInv, TypeOK

\* A step of thread t that leaves everything but its own locals to check.
LEMMA OneThread ==
  ASSUME TypeInv, NEW t \in Threads, NEW l, l \in Locals, InPhase(l),
         th' = [th EXCEPT ![t] = l]
  PROVE  th' \in [Threads -> Locals] /\ Phases'
<1>1. th \in [Threads -> Locals]
  BY DEF TypeInv, TypeOK
<1>2. \A u \in Threads : InPhase(th[u])
  BY DEF TypeInv, Phases
<1>3. th' \in [Threads -> Locals]
  BY <1>1
<1>4. \A u \in Threads : InPhase(th'[u])
  <2> TAKE u \in Threads
  <2>1. CASE u = t  BY <2>1, <1>1
  <2>2. CASE u # t  BY <2>2, <1>1, <1>2
  <2> QED  BY <2>1, <2>2
<1>5. Phases' <=> \A u \in Threads : InPhase(th'[u])
  BY DEF Phases, InPhase
<1> QED
  BY <1>3, <1>4, <1>5

LEMMA TypeTick == TypeInv /\ Tick => TypeInv'
<1> SUFFICES ASSUME TypeInv, Tick PROVE TypeInv'
  OBVIOUS
<1> DEFINE l == [th[Scheduler] EXCEPT !.pc = "gate", !.cmd = "apply", !.phase = "apply"]
<1>1. Scheduler \in Threads /\ th[Scheduler] \in Locals
  BY DEF Threads, Daemon, TypeInv, TypeOK
<1>2. l \in Locals /\ InPhase(l)
  <2>1. l \in Locals  BY <1>1 DEF Locals, CommandKinds
  <2>2. l.pc = "gate" /\ l.cmd = "apply" /\ l.phase = "apply"  BY <1>1 DEF Locals
  <2> HIDE DEF l
  <2>3. InPhase(l)  BY <2>2 DEF InPhase
  <2> QED  BY <2>1, <2>3
<1>3. th' = [th EXCEPT ![Scheduler] = l]
  BY DEF Tick
<1>4. th' \in [Threads -> Locals] /\ Phases'
  BY <1>1, <1>2, <1>3, OneThread
<1> QED
  BY <1>4 DEF Tick, TypeInv, TypeOK, files, lock, ghosts

LEMMA StartIsTyped ==
  ASSUME TypeInv, NEW t \in Threads, Start(t)
  PROVE  \E l \in Locals : InPhase(l) /\ l.pc = "lookup" /\ th' = [th EXCEPT ![t] = l]
<1>1. th[t] \in Locals
  BY DEF TypeInv, TypeOK
<1>2. PICK c \in IF t \in Clis THEN CliCommands ELSE WebCommands, x \in Targets,
           s \in {v \in Specs : v.valid}, f \in BOOLEAN :
        /\ ~f => c \in {"apply", "applyOne"} /\ t \in Clis
        /\ th' = [th EXCEPT ![t].pc = "lookup", ![t].cmd = c, ![t].target = x,
                            ![t].spec = IF c = "put" THEN s ELSE None, ![t].force = f,
                            ![t].phase = IF c \in {"put", "drop"} THEN "edit"
                                         ELSE IF c \in {"apply", "applyOne"} THEN "apply"
                                         ELSE "uninstall"]
  BY Zenon DEF Start
<1>3. c \in CommandKinds /\ s \in Specs /\ s.valid
  BY ThreadAssumption
<1> DEFINE spec == IF c = "put" THEN s ELSE None
           phase == IF c \in {"put", "drop"} THEN "edit"
                    ELSE IF c \in {"apply", "applyOne"} THEN "apply" ELSE "uninstall"
           l == [th[t] EXCEPT !.pc = "lookup", !.cmd = c, !.target = x, !.spec = spec,
                              !.force = f, !.phase = phase]
<1>4. th' = [th EXCEPT ![t] = l]
  BY <1>2
<1>5. /\ spec \in Specs \cup {None} /\ (c = "put" => spec \in Specs /\ spec.valid)
      /\ phase \in {"apply", "uninstall", "edit"}
      /\ phase = "apply" => c \in {"apply", "applyOne"}
      /\ phase = "uninstall" => c \in {"uninstall", "delete"}
      /\ phase = "edit" => c \in {"put", "drop"}
      /\ c = "delete" => phase = "uninstall"
  BY <1>3 DEF CommandKinds
<1> HIDE DEF spec, phase
<1>6. l \in Locals
  <2> DEFINE l1 == [th[t] EXCEPT !.pc = "lookup", !.cmd = c, !.target = x]
             l2 == [l1 EXCEPT !.spec = spec, !.force = f]
             l3 == [l2 EXCEPT !.phase = phase]
  <2>1. l1 \in Locals
    BY <1>1, <1>3 DEF Locals
  <2>2. l = l3
    BY <1>1 DEF Locals
  <2> HIDE DEF l1, l
  <2>3. l2 \in Locals
    BY <1>5, <2>1 DEF Locals
  <2> HIDE DEF l2
  <2>4. l3 \in Locals
    BY <1>5, <2>3 DEF Locals
  <2> QED
    BY <2>2, <2>4
<1>7. /\ l.pc = "lookup" /\ l.cmd = c /\ l.spec = spec /\ l.phase = phase
  <2>1. l.pc = "lookup"   BY <1>1 DEF Locals
  <2>2. l.cmd = c         BY <1>1 DEF Locals
  <2>3. l.spec = spec     BY <1>1 DEF Locals
  <2>4. l.phase = phase   BY <1>1 DEF Locals
  <2> QED  BY <2>1, <2>2, <2>3, <2>4
<1> HIDE DEF l
<1>8. InPhase(l)
  BY <1>5, <1>7 DEF InPhase
<1> QED
  BY <1>4, <1>6, <1>7, <1>8

LEMMA TypeStart ==
  ASSUME TypeInv, NEW t \in Threads, Start(t)
  PROVE  TypeInv'
<1>1. th' \in [Threads -> Locals] /\ Phases'
  BY StartIsTyped, OneThread
<1>2. UNCHANGED <<files, rules, data, mem, lock, scheduled, ghosts>>
  BY DEF Start
<1> QED
  BY <1>1, <1>2 DEF TypeInv, TypeOK, files, lock, ghosts

LEMMA TypeLookup ==
  ASSUME TypeInv, NEW t \in Threads, Lookup(t)
  PROVE  TypeInv'
<1>1. th[t] \in Locals /\ InPhase(th[t])
  BY DEF TypeInv, TypeOK, Phases
<1>2. mem' \in [Processes -> Config]
  BY DEF Lookup, TypeInv, TypeOK
<1> DEFINE config == mem'[Process(t)]
           l == IF Refused(t, config) THEN Rest(t)
                ELSE [th[t] EXCEPT
                   !.pc = IF th[t].cmd \in {"put", "drop"} THEN "gate" ELSE "new",
                   !.spec = IF th[t].cmd \in {"put", "apply"} THEN th[t].spec
                            ELSE config[th[t].target]]
<1>3. config[th[t].target] \in Specs \cup {None}
  BY <1>1, <1>2, ProcessIsTyped DEF Config, Locals
<1>4. l \in Locals /\ InPhase(l)
  <2>1. CASE Refused(t, config)  BY <2>1, RestIsTyped
  <2>2. CASE ~Refused(t, config)
    <3> DEFINE pc == IF th[t].cmd \in {"put", "drop"} THEN "gate" ELSE "new"
               spec == IF th[t].cmd \in {"put", "apply"} THEN th[t].spec
                       ELSE config[th[t].target]
    <3>1. l = [th[t] EXCEPT !.pc = pc, !.spec = spec]
      BY <2>2
    <3>2. th[t].pc = "lookup"
      BY DEF Lookup, At
    <3>3. th[t].spec \in Specs \cup {None}
      BY <1>1 DEF Locals
    <3>4. spec \in Specs \cup {None}
      BY <1>3, <3>3
    <3>5. th[t].cmd \notin {"put", "apply"} => spec \in Specs
      BY <2>2, <1>3 DEF Refused
    <3>6. th[t].cmd = "put" => spec = th[t].spec
      OBVIOUS
    <3>7. pc \in {"gate", "new"}
      OBVIOUS
    <3> HIDE DEF l, pc, spec
    <3>8. l \in Locals
      BY <1>1, <3>1, <3>4, <3>7 DEF Locals
    <3>9. /\ l.pc = pc /\ l.spec = spec /\ l.cmd = th[t].cmd /\ l.phase = th[t].phase
      BY <1>1, <3>1 DEF Locals
    <3>10. InPhase(l)
      <4>1. /\ th[t].phase # "none"
            /\ th[t].phase = "apply" => th[t].cmd \in {"apply", "applyOne"}
            /\ th[t].phase = "uninstall" => th[t].cmd \in {"uninstall", "delete"}
            /\ th[t].phase = "edit" => th[t].cmd \in {"put", "drop", "delete"}
            /\ th[t].cmd = "put" => th[t].spec \in Specs /\ th[t].spec.valid
        BY <1>1, <3>2 DEF InPhase
      <4>2. th[t].cmd = "delete" => spec \in Specs
        BY <3>5
      <4> QED
        BY <3>6, <3>7, <3>9, <4>1, <4>2 DEF InPhase
    <3> QED
      BY <3>8, <3>10
  <2> QED  BY <2>1, <2>2
<1>5. th' = [th EXCEPT ![t] = l]
  BY DEF Lookup
<1>6. th' \in [Threads -> Locals] /\ Phases'
  BY <1>4, <1>5, OneThread
<1>7. UNCHANGED <<files, rules, data, lock, scheduled, ghosts>>
  BY DEF Lookup
<1> QED
  BY <1>2, <1>6, <1>7 DEF TypeInv, TypeOK, files, lock, ghosts

LEMMA TypeNewApplier ==
  ASSUME TypeInv, NEW t \in Threads, NewApplier(t)
  PROVE  TypeInv'
<1>1. th[t] \in Locals /\ InPhase(th[t]) /\ stateFile \in States
  BY DEF TypeInv, TypeOK, Phases
<1> DEFINE l == [th[t] EXCEPT !.store = stateFile, !.pc = "gate"]
<1>2. l \in Locals /\ InPhase(l)
  BY <1>1 DEF Locals, InPhase, NewApplier, At
<1>3. th' \in [Threads -> Locals] /\ Phases'
  BY <1>2, OneThread DEF NewApplier
<1> QED
  BY <1>3 DEF NewApplier, TypeInv, TypeOK, files, lock, ghosts

\* A step that only moves on.
LEMMA GotoIsTyped ==
  ASSUME TypeInv, NEW t \in Threads, NEW pc, [th[t] EXCEPT !.pc = pc] \in Locals,
         InPhase([th[t] EXCEPT !.pc = pc]), Goto(t, pc)
  PROVE  th' \in [Threads -> Locals] /\ Phases'
  BY OneThread DEF Goto

LEMMA TypeLockGate ==
  ASSUME TypeInv, NEW t \in Threads, LockGate(t)
  PROVE  TypeInv'
<1>1. th[t] \in Locals /\ InPhase(th[t])
  BY DEF TypeInv, TypeOK, Phases
<1>2. [th[t] EXCEPT !.pc = "flock"] \in Locals /\ InPhase([th[t] EXCEPT !.pc = "flock"])
  BY <1>1 DEF Locals, InPhase, LockGate, At
<1>3. th' \in [Threads -> Locals] /\ Phases'
  BY <1>2, GotoIsTyped DEF LockGate
<1> QED
  BY <1>3, ProcessIsTyped DEF LockGate, TypeInv, TypeOK, files, ghosts

LEMMA EnterIsTyped ==
  ASSUME TypeInv, NEW t \in Threads, At(t, "flock"), Enter(t)
  PROVE  th' \in [Threads -> Locals] /\ Phases'
<1>1. th[t] \in Locals /\ InPhase(th[t])
  BY DEF TypeInv, TypeOK, Phases
<1>2. PICK todo \in SUBSET (Targets \X Specs) :
        th' = [th EXCEPT ![t].pc = [apply |-> "next", uninstall |-> "remove",
                                    edit |-> "edit"][th[t].phase],
                         ![t].todo = todo]
  BY DEF Enter
<1> DEFINE pc == [apply |-> "next", uninstall |-> "remove", edit |-> "edit"][th[t].phase]
           l == [th[t] EXCEPT !.pc = pc, !.todo = todo]
<1>3. th[t].phase \in {"apply", "uninstall", "edit"}
  BY <1>1 DEF Locals, InPhase, At
<1>4. l \in Locals /\ InPhase(l)
  <2>1. pc \in {"next", "remove", "edit"}
    BY <1>3
  <2>2. /\ pc = "next" => th[t].phase = "apply"
        /\ pc = "remove" => th[t].phase = "uninstall"
        /\ pc = "edit" => th[t].phase = "edit"
    BY <1>3
  <2> HIDE DEF pc
  <2>3. l \in Locals
    BY <1>1, <2>1 DEF Locals
  <2>4. InPhase(l)
    BY <1>1, <1>3, <2>1, <2>2 DEF InPhase, Locals, At
  <2> QED  BY <2>3, <2>4
<1> QED
  BY <1>2, <1>4, OneThread

LEMMA TypeLockFile ==
  ASSUME TypeInv, NEW t \in Threads, LockFile(t)
  PROVE  TypeInv'
<1>1. th' \in [Threads -> Locals] /\ Phases'
  BY EnterIsTyped DEF LockFile
<1> QED
  BY <1>1 DEF LockFile, TypeInv, TypeOK, files, ghosts

LEMMA TypeLockFails ==
  ASSUME TypeInv, NEW t \in Threads, LockFails(t)
  PROVE  TypeInv'
<1>1. th' \in [Threads -> Locals] /\ Phases'
  <2>1. CASE LockUnsafe  BY <2>1, EnterIsTyped DEF LockFails
  <2>2. CASE ~LockUnsafe  BY <2>2, RestIsTyped, OneThread DEF LockFails, Refuse
  <2> QED  BY <2>1, <2>2
<1> QED
  BY <1>1, ProcessIsTyped DEF LockFails, Refuse, TypeInv, TypeOK, files, ghosts

LEMMA TypeUnlock ==
  ASSUME TypeInv, NEW t \in Threads, Unlock(t)
  PROVE  TypeInv'
<1>1. th[t] \in Locals /\ InPhase(th[t])
  BY DEF TypeInv, TypeOK, Phases
<1> DEFINE l == IF GoesOnToEdit(t) THEN [th[t] EXCEPT !.phase = "edit", !.pc = "gate"]
                ELSE Rest(t)
<1>2. l \in Locals /\ InPhase(l)
  <2>1. CASE GoesOnToEdit(t)  BY <2>1, <1>1 DEF GoesOnToEdit, Locals, InPhase, Unlock, At
  <2>2. CASE ~GoesOnToEdit(t)  BY <2>2, RestIsTyped
  <2> QED  BY <2>1, <2>2
<1>3. th' \in [Threads -> Locals] /\ Phases'
  BY <1>2, OneThread DEF Unlock
<1> QED
  BY <1>3, ProcessIsTyped DEF Unlock, TypeInv, TypeOK, files, ghosts

LEMMA TypeNextTarget ==
  ASSUME TypeInv, NEW t \in Threads, NextTarget(t)
  PROVE  TypeInv'
<1>1. th[t] \in Locals /\ InPhase(th[t]) /\ data \in Data
  BY DEF TypeInv, TypeOK, Phases
<1>2. PICK w \in th[t].todo :
        th' = [th EXCEPT
          ![t].todo = @ \ {w}, ![t].target = w[1], ![t].spec = w[2], ![t].data = data,
          ![t].pc = IF Skips(t, w[1], [spec |-> w[2], data |-> data])
                    THEN "count" ELSE "engine"]
  BY Zenon DEF NextTarget
<1>3. w[1] \in Targets /\ w[2] \in Specs /\ th[t].todo \ {w} \in SUBSET (Targets \X Specs)
  BY <1>1 DEF Locals
<1> DEFINE pc == IF Skips(t, w[1], [spec |-> w[2], data |-> data]) THEN "count" ELSE "engine"
           l == [th[t] EXCEPT !.todo = th[t].todo \ {w}, !.target = w[1], !.spec = w[2],
                              !.data = data, !.pc = pc]
<1>4. th' = [th EXCEPT ![t] = l]
  BY <1>2
<1>5. pc \in {"count", "engine"}
  OBVIOUS
<1> HIDE DEF pc
<1>6. l \in Locals
  BY <1>1, <1>3, <1>5 DEF Locals
<1>7. th[t].phase = "apply"
  BY <1>1 DEF NextTarget, At, InPhase
<1>8. InPhase(l)
  BY <1>1, <1>3, <1>5, <1>7 DEF InPhase, Locals
<1> HIDE DEF l
<1>9. th' \in [Threads -> Locals] /\ Phases'
  BY <1>4, <1>6, <1>8, OneThread
<1>10. UNCHANGED <<files, rules, data, mem, lock, scheduled, ghosts>>
  BY DEF NextTarget
<1> QED
  BY <1>9, <1>10 DEF TypeInv, TypeOK, files, lock, ghosts

LEMMA TypeFetchFails ==
  ASSUME TypeInv, NEW t \in Threads, FetchFails(t)
  PROVE  TypeInv'
<1>1. th[t] \in Locals /\ InPhase(th[t])
  BY DEF TypeInv, TypeOK, Phases
<1>2. PICK w \in th[t].todo : th' = [th EXCEPT ![t].todo = @ \ {w}]
  BY Zenon DEF FetchFails
<1> DEFINE l == [th[t] EXCEPT !.todo = th[t].todo \ {w}]
<1>3. th' = [th EXCEPT ![t] = l]
  BY <1>2
<1>4. l \in Locals /\ InPhase(l)
  BY <1>1 DEF Locals, InPhase
<1>5. th' \in [Threads -> Locals] /\ Phases'
  BY <1>3, <1>4, OneThread
<1>6. UNCHANGED <<files, rules, data, mem, lock, scheduled, ghosts>>
  BY DEF FetchFails
<1> QED
  BY <1>5, <1>6 DEF TypeInv, TypeOK, files, lock, ghosts

LEMMA TypeAllDone ==
  ASSUME TypeInv, NEW t \in Threads, AllDone(t)
  PROVE  TypeInv'
<1>1. th[t] \in Locals /\ InPhase(th[t])
  BY DEF TypeInv, TypeOK, Phases
<1>2. [th[t] EXCEPT !.pc = "unlock"] \in Locals /\ InPhase([th[t] EXCEPT !.pc = "unlock"])
  BY <1>1 DEF Locals, InPhase, AllDone, At
<1>3. th' \in [Threads -> Locals] /\ Phases'
  BY <1>2, GotoIsTyped DEF AllDone
<1> QED
  BY <1>3 DEF AllDone, TypeInv, TypeOK, files, lock, ghosts

LEMMA TypeEngineApply ==
  ASSUME TypeInv, NEW t \in Threads, EngineApply(t)
  PROVE  TypeInv'
<1>1. th[t] \in Locals /\ InPhase(th[t]) /\ th[t].pc = "engine"
  BY DEF TypeInv, TypeOK, Phases, EngineApply, At
<1>2. \A pc \in {"record", "count"} :
        [th[t] EXCEPT !.pc = pc] \in Locals /\ InPhase([th[t] EXCEPT !.pc = pc])
  BY <1>1 DEF Locals, InPhase
<1>3. th' \in [Threads -> Locals] /\ Phases'
  <2>1. CASE Goto(t, "record")  BY <2>1, <1>2, GotoIsTyped
  <2>2. CASE Goto(t, "count")  BY <2>2, <1>2, GotoIsTyped
  <2> QED  BY <2>1, <2>2 DEF EngineApply
<1>4. /\ rules' \in [Targets -> [Engines -> Data \cup {None}]]
      /\ unsettled' \subseteq Targets /\ crossed' \subseteq Threads
  <2>1. CASE Install(t)
    <3>1. th[t].target \in Targets /\ th[t].data \in Data
      BY <1>1 DEF Locals
    <3>2. HalfDone(th[t].target) \subseteq Threads
      BY DEF HalfDone
    <3> QED
      BY <2>1, <3>1, <3>2 DEF Install, TypeInv, TypeOK
  <2>2. CASE UNCHANGED <<rules, unsettled, crossed>>
    BY <2>2 DEF TypeInv, TypeOK
  <2> QED  BY <2>1, <2>2 DEF EngineApply
<1>5. UNCHANGED <<files, data, mem, lock, scheduled, runs, edits>>
  BY DEF EngineApply
<1> QED
  BY <1>3, <1>4, <1>5 DEF TypeInv, TypeOK, files, lock

\* Storing a fingerprint, or that there is none.
LEMMA SaveStateIsTyped ==
  ASSUME TypeInv, NEW t \in Threads, NEW x \in Targets, NEW fp \in Fingerprint \cup {None},
         SaveState(t, x, fp), th[t].pc \in {"record", "forget"}, fp # None => th[t].phase = "apply"
  PROVE  th' \in [Threads -> Locals] /\ Phases' /\ stateFile' \in States
<1>1. th[t] \in Locals /\ InPhase(th[t])
  BY DEF TypeInv, TypeOK, Phases
<1> DEFINE new == [th[t].store EXCEPT ![x] = fp]
           pc == IF fp = None THEN "unlock" ELSE "count"
           l == [th[t] EXCEPT !.store = new, !.pc = pc]
<1>2. th' = [th EXCEPT ![t] = l] /\ stateFile' = new
  BY DEF SaveState
<1>3. new \in States
  BY <1>1 DEF Locals, States
<1>4. pc \in {"unlock", "count"} /\ (pc = "count" => th[t].phase = "apply")
  OBVIOUS
<1> HIDE DEF new, pc
<1>5. l \in Locals
  BY <1>1, <1>3, <1>4 DEF Locals
<1>6. InPhase(l)
  BY <1>1, <1>4 DEF InPhase, Locals
<1> HIDE DEF l
<1> QED
  BY <1>2, <1>3, <1>5, <1>6, OneThread

LEMMA TypeRecord ==
  ASSUME TypeInv, NEW t \in Threads, Record(t)
  PROVE  TypeInv'
<1>1. th[t] \in Locals /\ InPhase(th[t]) /\ th[t].pc = "record"
  BY DEF TypeInv, TypeOK, Phases, Record, At
<1>2. /\ th[t].target \in Targets /\ th[t].phase = "apply"
      /\ Wants(t) \in Fingerprint \cup {None}
  BY <1>1 DEF Locals, InPhase, Wants, Fingerprint
<1>3. SaveState(t, th[t].target, Wants(t))
  BY DEF Record
<1>4. th' \in [Threads -> Locals] /\ Phases' /\ stateFile' \in States
  BY <1>1, <1>2, <1>3, SaveStateIsTyped
<1>5. unsettled' \subseteq Targets
  BY DEF Record, Overwritten, TypeInv, TypeOK
<1>6. UNCHANGED <<cfgFile, history, rules, data, mem, lock, scheduled, runs, edits, crossed>>
  BY DEF Record
<1> QED
  BY <1>4, <1>5, <1>6 DEF TypeInv, TypeOK, lock

LEMMA TypeForget ==
  ASSUME TypeInv, NEW t \in Threads, Forget(t)
  PROVE  TypeInv'
<1>1. th[t] \in Locals /\ InPhase(th[t]) /\ th[t].pc = "forget"
  BY DEF TypeInv, TypeOK, Phases, Forget, At
<1>2. th[t].target \in Targets /\ th[t].phase = "uninstall"
  BY <1>1 DEF Locals, InPhase
<1>3. th' \in [Threads -> Locals] /\ Phases' /\ stateFile' \in States
  <2>1. CASE Goto(t, "unlock") /\ UNCHANGED stateFile
    <3>1. [th[t] EXCEPT !.pc = "unlock"] \in Locals /\ InPhase([th[t] EXCEPT !.pc = "unlock"])
      BY <1>1, <1>2 DEF Locals, InPhase
    <3> QED
      BY <2>1, <3>1, GotoIsTyped DEF TypeInv, TypeOK
  <2>2. CASE SaveState(t, th[t].target, None)
    BY <2>2, <1>1, <1>2, SaveStateIsTyped
  <2> QED  BY <2>1, <2>2 DEF Forget
<1>4. unsettled' \subseteq Targets
  BY DEF Forget, Overwritten, TypeInv, TypeOK
<1>5. UNCHANGED <<cfgFile, history, rules, data, mem, lock, scheduled, runs, edits, crossed>>
  BY DEF Forget
<1> QED
  BY <1>3, <1>4, <1>5 DEF TypeInv, TypeOK, lock

LEMMA TypeLoadHistory ==
  ASSUME TypeInv, NEW t \in Threads, LoadHistory(t)
  PROVE  TypeInv'
<1>1. th[t] \in Locals /\ InPhase(th[t]) /\ th[t].pc = "count" /\ history \in 0 .. Wrap - 1
  BY DEF TypeInv, TypeOK, Phases, LoadHistory, At
<1> DEFINE l == [th[t] EXCEPT !.seen = history, !.pc = "saveCount"]
<1>2. th' = [th EXCEPT ![t] = l]
  BY DEF LoadHistory, HistorySeen
<1>3. l \in Locals /\ InPhase(l)
  BY <1>1 DEF Locals, InPhase
<1>4. th' \in [Threads -> Locals] /\ Phases'
  BY <1>2, <1>3, OneThread
<1>5. (runs + 1) % Wrap \in 0 .. Wrap - 1
  BY ThreadAssumption DEF TypeInv, TypeOK
<1> QED
  BY <1>4, <1>5 DEF LoadHistory, TypeInv, TypeOK, files, lock

LEMMA TypeSaveHistory ==
  ASSUME TypeInv, NEW t \in Threads, SaveHistory(t)
  PROVE  TypeInv'
<1>1. th[t] \in Locals /\ InPhase(th[t]) /\ th[t].pc = "saveCount"
  BY DEF TypeInv, TypeOK, Phases, SaveHistory, At
<1>2. [th[t] EXCEPT !.pc = "next"] \in Locals /\ InPhase([th[t] EXCEPT !.pc = "next"])
  BY <1>1 DEF Locals, InPhase
<1>3. th' \in [Threads -> Locals] /\ Phases'
  BY <1>2, GotoIsTyped DEF SaveHistory
<1>4. (th[t].seen + 1) % Wrap \in 0 .. Wrap - 1
  BY <1>1, ThreadAssumption DEF Locals
<1> QED
  BY <1>3, <1>4 DEF SaveHistory, TypeInv, TypeOK, lock, ghosts

LEMMA TypeEngineRemove ==
  ASSUME TypeInv, NEW t \in Threads, EngineRemove(t)
  PROVE  TypeInv'
<1>1. th[t] \in Locals /\ InPhase(th[t]) /\ th[t].pc = "remove"
  BY DEF TypeInv, TypeOK, Phases, EngineRemove, At
<1>2. th' \in [Threads -> Locals] /\ Phases'
  <2>1. CASE Goto(t, "forget")
    <3>1. [th[t] EXCEPT !.pc = "forget"] \in Locals /\ InPhase([th[t] EXCEPT !.pc = "forget"])
      BY <1>1 DEF Locals, InPhase
    <3> QED  BY <2>1, <3>1, GotoIsTyped
  <2>2. CASE th' = [th EXCEPT ![t].ok = FALSE, ![t].pc = "unlock"]
    <3> DEFINE l == [th[t] EXCEPT !.ok = FALSE, !.pc = "unlock"]
    <3>1. th' = [th EXCEPT ![t] = l]
      BY <2>2
    <3>2. l \in Locals /\ InPhase(l)
      BY <1>1 DEF Locals, InPhase
    <3> QED  BY <3>1, <3>2, OneThread
  <2> QED  BY <2>1, <2>2 DEF EngineRemove
<1>3. /\ rules' \in [Targets -> [Engines -> Data \cup {None}]]
      /\ unsettled' \subseteq Targets /\ crossed' \subseteq Threads
  <2>1. th[t].target \in Targets
    BY <1>1 DEF Locals
  <2> QED
    BY <2>1 DEF EngineRemove, Detach, TypeInv, TypeOK
<1>4. UNCHANGED <<files, data, mem, lock, scheduled, runs, edits>>
  BY DEF EngineRemove
<1> QED
  BY <1>2, <1>3, <1>4 DEF TypeInv, TypeOK, files, lock

LEMMA EditValueIsTyped ==
  ASSUME TypeInv, NEW t \in Threads
  PROVE  EditValue(t) \in Specs \cup {None} /\ (EditValue(t) = None \/ EditValue(t).valid)
<1>1. th[t] \in Locals /\ InPhase(th[t])
  BY DEF TypeInv, TypeOK, Phases
<1> QED
  BY <1>1 DEF EditValue, Locals, InPhase

LEMMA TypeEdit ==
  ASSUME TypeInv, NEW t \in Threads, Edit(t)
  PROVE  TypeInv'
<1>1. th[t] \in Locals /\ InPhase(th[t]) /\ th[t].pc = "edit"
  BY DEF TypeInv, TypeOK, Phases, Edit, At
<1>2. [th[t] EXCEPT !.pc = "save"] \in Locals /\ InPhase([th[t] EXCEPT !.pc = "save"])
  BY <1>1 DEF Locals, InPhase
<1>3. th' \in [Threads -> Locals] /\ Phases'
  BY <1>2, GotoIsTyped DEF Edit
<1>4. mem' \in [Processes -> Config]
  BY EditValueIsTyped DEF Edit, TypeInv, TypeOK, Config
<1>5. UNCHANGED <<files, rules, data, lock, scheduled, ghosts>>
  BY DEF Edit
<1> QED
  BY <1>3, <1>4, <1>5 DEF TypeInv, TypeOK, files, lock, ghosts

LEMMA TypeSave ==
  ASSUME TypeInv, NEW t \in Threads, Save(t)
  PROVE  TypeInv'
<1>1. th[t] \in Locals /\ InPhase(th[t]) /\ th[t].pc = "save"
  BY DEF TypeInv, TypeOK, Phases, Save, At
<1>2. [th[t] EXCEPT !.pc = "unlock"] \in Locals /\ InPhase([th[t] EXCEPT !.pc = "unlock"])
  BY <1>1 DEF Locals, InPhase
<1>3. th' \in [Threads -> Locals] /\ Phases'
  BY <1>2, GotoIsTyped DEF Save
<1>4. Mine(t) \in Config /\ cfgFile \in Config /\ edits \in Config
  BY ProcessIsTyped DEF Mine, TypeInv, TypeOK
<1>5. [edits EXCEPT ![th[t].target] = EditValue(t)] \in Config
  <2>1. EditValue(t) \in Specs \cup {None}
    BY EditValueIsTyped
  <2> HIDE DEF EditValue
  <2> QED
    BY <1>4, <2>1 DEF Config
<1>6. \/ cfgFile' = Mine(t) /\ edits' = [edits EXCEPT ![th[t].target] = EditValue(t)]
      \/ cfgFile' = cfgFile /\ edits' = edits
  BY Zenon DEF Save
<1>7. cfgFile' \in Config /\ edits' \in Config
  BY <1>4, <1>5, <1>6
<1>8. UNCHANGED <<stateFile, history, rules, data, mem, lock, scheduled, runs, unsettled, crossed>>
  BY DEF Save
<1> QED
  BY <1>3, <1>7, <1>8 DEF TypeInv, TypeOK, lock

LEMMA TypeProviderChanges == TypeInv /\ ProviderChanges => TypeInv'
  BY DEF ProviderChanges, TypeInv, TypeOK, Phases, InPhase, files, lock, ghosts

LEMMA TypeCrash ==
  ASSUME TypeInv, NEW p \in Processes, Crash(p)
  PROVE  TypeInv'
<1> DEFINE dead == {t \in Threads : Process(t) = p}
           l(t) == IF t \notin dead THEN th[t]
                   ELSE IF t = Scheduler THEN Idle(stateFile, TRUE) ELSE Idle(NoState, FALSE)
<1>1. NoState \in States /\ stateFile \in States /\ data \in Data
  BY DEF NoState, States, TypeInv, TypeOK
<1>2. \A t \in Threads : l(t) \in Locals /\ InPhase(l(t))
  <2> TAKE t \in Threads
  <2>1. CASE t \notin dead  BY <2>1 DEF TypeInv, TypeOK, Phases
  <2>2. CASE t \in dead  BY <2>2, <1>1, IdleIsTyped
  <2> QED  BY <2>1, <2>2
<1>3. th' = [t \in Threads |-> l(t)]
  BY DEF Crash
<1>4. th' \in [Threads -> Locals] /\ Phases'
  BY <1>2, <1>3 DEF Phases
<1>5. runs' \in 0 .. Wrap - 1 /\ flock' \in Threads \cup {None}
  BY DEF Crash, TypeInv, TypeOK
<1>6. gate' \in [Processes -> Threads \cup {None}] /\ mem' \in [Processes -> Config]
  BY DEF Crash, TypeInv, TypeOK
<1>7. scheduled' \in BOOLEAN
  BY DEF Crash, TypeInv, TypeOK, Valid
<1>8. UNCHANGED <<files, rules, data, edits, unsettled, crossed>>
  BY DEF Crash
<1> QED
  BY <1>4, <1>5, <1>6, <1>7, <1>8 DEF TypeInv, TypeOK, files

LEMMA TypeStep == TypeInv /\ [Next]_vars => TypeInv'
<1> SUFFICES ASSUME TypeInv, [Next]_vars PROVE TypeInv'
  OBVIOUS
<1>1. CASE Tick  BY <1>1, TypeTick
<1>2. CASE \E t \in Threads : Start(t) \/ LockFails(t)
  BY <1>2, TypeStart, TypeLockFails
<1>3. CASE \E t \in Threads : Work(t)
  BY <1>3, TypeLookup, TypeNewApplier, TypeLockGate, TypeLockFile, TypeUnlock, TypeNextTarget,
     TypeFetchFails, TypeAllDone, TypeEngineApply, TypeRecord, TypeLoadHistory, TypeSaveHistory,
     TypeEngineRemove, TypeForget, TypeEdit, TypeSave
     DEF Work
<1>4. CASE ProviderChanges  BY <1>4, TypeProviderChanges
<1>5. CASE \E p \in Processes : Crash(p)  BY <1>5, TypeCrash
<1>6. CASE UNCHANGED vars
  BY <1>6 DEF vars, files, ghosts, lock, TypeInv, TypeOK, Phases, InPhase
<1> QED
  BY <1>1, <1>2, <1>3, <1>4, <1>5, <1>6 DEF Next

LEMMA Typed == Spec => []TypeInv
  BY TypeInit, TypeStep, PTL DEF Spec

\* The state of every process and of the files they share is well typed.
THEOREM TypeCorrect == Spec => []TypeOK
<1>1. TypeInv => TypeOK
  BY DEF TypeInv
<1> QED
  BY <1>1, Typed, PTL

-----------------------------------------------------------------------------
(* The locks                                                               *)

\* Whoever works under the lock holds the gate of his process, and the file
\* lock too unless it may be done without.
Holds(t) ==
  /\ At(t, "flock") \/ InBody(t) => gate[Process(t)] = t
  /\ InBody(t) => LockUnsafe \/ flock = t

LockInv == \A t \in Threads : Holds(t)

LEMMA LockInit == Init => LockInv
  BY DEF Init, LockInv, Holds, At, InBody, Body, Idle

\* What a step of thread t does to the others' locals: nothing.
LEMMA OthersKeepLocals ==
  ASSUME TypeInv, NEW t \in Threads, Start(t) \/ LockFails(t) \/ Work(t)
  PROVE  \A u \in Threads \ {t} : th'[u] = th[u]
<1> SUFFICES ASSUME NEW u \in Threads \ {t} PROVE th'[u] = th[u]
  OBVIOUS
<1>1. th \in [Threads -> Locals]
  BY DEF TypeInv, TypeOK
<1> USE <1>1 DEF Goto
<1>2. CASE Start(t)  BY <1>2, StartIsTyped
<1>3. CASE LockFails(t)  BY <1>3 DEF LockFails, Enter, Refuse
<1>4. CASE Lookup(t)  BY <1>4 DEF Lookup
<1>5. CASE NewApplier(t)  BY <1>5 DEF NewApplier
<1>6. CASE LockGate(t)  BY <1>6 DEF LockGate
<1>7. CASE LockFile(t)  BY <1>7 DEF LockFile, Enter
<1>8. CASE Unlock(t)  BY <1>8 DEF Unlock
<1>9. CASE NextTarget(t)  BY <1>9 DEF NextTarget
<1>10. CASE FetchFails(t)  BY <1>10 DEF FetchFails
<1>11. CASE AllDone(t)  BY <1>11 DEF AllDone
<1>12. CASE EngineApply(t)  BY <1>12 DEF EngineApply
<1>13. CASE Record(t)  BY <1>13 DEF Record, SaveState
<1>14. CASE LoadHistory(t)  BY <1>14 DEF LoadHistory
<1>15. CASE SaveHistory(t)  BY <1>15 DEF SaveHistory
<1>16. CASE EngineRemove(t)  BY <1>16 DEF EngineRemove
<1>17. CASE Forget(t)  BY <1>17 DEF Forget, SaveState
<1>18. CASE Edit(t)  BY <1>18 DEF Edit
<1>19. CASE Save(t)  BY <1>19 DEF Save
<1> QED
  BY <1>2, <1>3, <1>4, <1>5, <1>6, <1>7, <1>8, <1>9, <1>10, <1>11, <1>12, <1>13, <1>14, <1>15,
     <1>16, <1>17, <1>18, <1>19 DEF Work

\* The steps that neither take nor release a lock.
Quiet(t) ==
  \/ Start(t) \/ Lookup(t) \/ NewApplier(t) \/ NextTarget(t) \/ FetchFails(t) \/ AllDone(t)
  \/ EngineApply(t) \/ Record(t) \/ LoadHistory(t) \/ SaveHistory(t) \/ EngineRemove(t)
  \/ Forget(t) \/ Edit(t) \/ Save(t)

LEMMA QuietKeepsOut ==
  ASSUME TypeInv, NEW t \in Threads, Quiet(t)
  PROVE  UNCHANGED lock /\ th'[t].pc # "flock" /\ (th'[t].pc \in Body => InBody(t))
<1>1. th \in [Threads -> Locals] /\ th[t] \in Locals
  BY DEF TypeInv, TypeOK
<1> USE <1>1 DEF Goto, At, InBody, Body, Locals
<1>2. CASE Start(t)
  <2>1. UNCHANGED lock  BY <1>2 DEF Start
  <2> QED  BY <1>2, <2>1, StartIsTyped
<1>3. CASE Lookup(t)
  <2>1. UNCHANGED lock  BY <1>3 DEF Lookup
  <2>2. th'[t].pc \in {"idle", "gate", "new"}
    BY <1>3 DEF Lookup, Rest, Idle
  <2> QED  BY <2>1, <2>2
<1>4. CASE NewApplier(t)  BY <1>4 DEF NewApplier
<1>5. CASE NextTarget(t)  BY <1>5 DEF NextTarget
<1>6. CASE FetchFails(t)  BY <1>6 DEF FetchFails
<1>7. CASE AllDone(t)  BY <1>7 DEF AllDone
<1>8. CASE EngineApply(t)  BY <1>8 DEF EngineApply
<1>9. CASE Record(t)  BY <1>9 DEF Record, SaveState
<1>10. CASE LoadHistory(t)  BY <1>10 DEF LoadHistory
<1>11. CASE SaveHistory(t)  BY <1>11 DEF SaveHistory
<1>12. CASE EngineRemove(t)  BY <1>12 DEF EngineRemove
<1>13. CASE Forget(t)  BY <1>13 DEF Forget, SaveState
<1>14. CASE Edit(t)  BY <1>14 DEF Edit
<1>15. CASE Save(t)  BY <1>15 DEF Save
<1> QED
  BY <1>2, <1>3, <1>4, <1>5, <1>6, <1>7, <1>8, <1>9, <1>10, <1>11, <1>12, <1>13, <1>14, <1>15
     DEF Quiet

\* The lock after a step of thread t, as the step's own locals and the locks
\* show; the others' locals are as they were.
LEMMA LockThreadStep ==
  ASSUME TypeInv, LockInv, NEW t \in Threads, Start(t) \/ LockFails(t) \/ Work(t)
  PROVE  LockInv'
<1>1. /\ th \in [Threads -> Locals] /\ th[t] \in Locals
      /\ gate \in [Processes -> Threads \cup {None}] /\ flock \in Threads \cup {None}
      /\ None \notin Threads
  BY ThreadAssumption DEF TypeInv, TypeOK, Threads, Daemon
<1>2. \A u \in Threads \ {t} : th'[u] = th[u]
  BY OthersKeepLocals
<1>3. \A u \in Threads : Holds(u)
  BY DEF LockInv
<1>4. SUFFICES \A u \in Threads : Holds(u)'
  BY DEF LockInv
<1>5. CASE Quiet(t)
  <2>1. UNCHANGED lock /\ th'[t].pc # "flock" /\ (th'[t].pc \in Body => InBody(t))
    BY <1>5, QuietKeepsOut
  <2> QED
    BY <2>1, <1>2, <1>3 DEF Holds, At, InBody, lock
<1>6. CASE LockGate(t)
  <2>1. /\ gate[Process(t)] = None /\ gate' = [gate EXCEPT ![Process(t)] = t]
        /\ flock' = flock /\ th'[t].pc = "flock"
    BY <1>6, <1>1 DEF LockGate, Goto, Locals
  <2> QED
    BY <2>1, <1>1, <1>2, <1>3, ProcessIsTyped DEF Holds, At, InBody, Body
<1>7. CASE LockFile(t)
  <2>1. flock = None /\ flock' = t /\ gate' = gate /\ th[t].pc = "flock"
    BY <1>7 DEF LockFile, FileLockFree, At
  <2> QED
    BY <2>1, <1>1, <1>2, <1>3 DEF Holds, At, InBody
<1>8. CASE LockFails(t) /\ LockUnsafe
  <2>1. flock' = flock /\ gate' = gate /\ th[t].pc = "flock"
    BY <1>8 DEF LockFails, At
  <2> QED
    BY <2>1, <1>8, <1>1, <1>2, <1>3 DEF Holds, At, InBody
<1>9. CASE LockFails(t) /\ ~LockUnsafe
  <2>1. /\ gate' = [gate EXCEPT ![Process(t)] = None] /\ flock' = flock
        /\ th[t].pc = "flock" /\ th'[t].pc = "idle"
    BY <1>9, <1>1 DEF LockFails, Refuse, At, Rest, Idle
  <2> QED
    BY <2>1, <1>1, <1>2, <1>3, ProcessIsTyped DEF Holds, At, InBody, Body
<1>10. CASE Unlock(t)
  <2>1. /\ gate' = [gate EXCEPT ![Process(t)] = None]
        /\ flock' = IF flock = t THEN None ELSE flock
        /\ th[t].pc = "unlock" /\ th'[t].pc \in {"idle", "gate"}
    BY <1>10, <1>1 DEF Unlock, At, Rest, Idle, Locals
  <2> QED
    BY <2>1, <1>1, <1>2, <1>3, ProcessIsTyped DEF Holds, At, InBody, Body
<1> QED
  BY <1>5, <1>6, <1>7, <1>8, <1>9, <1>10 DEF Work, Quiet

LEMMA LockStep == TypeInv /\ LockInv /\ [Next]_vars => LockInv'
<1> SUFFICES ASSUME TypeInv, LockInv, [Next]_vars PROVE LockInv'
  OBVIOUS
<1> USE DEF LockInv, Holds, At, InBody
<1>1. CASE Tick
  <2>1. UNCHANGED lock /\ Scheduler \in Threads
    BY <1>1 DEF Tick, Threads, Daemon
  <2>2. th'[Scheduler].pc = "gate" /\ \A u \in Threads \ {Scheduler} : th'[u] = th[u]
    BY <1>1, <2>1 DEF Tick, TypeInv, TypeOK, Locals
  <2> QED  BY <2>1, <2>2 DEF lock, Body
<1>2. CASE \E t \in Threads : Start(t) \/ LockFails(t) \/ Work(t)
  BY <1>2, LockThreadStep
<1>3. CASE ProviderChanges  BY <1>3 DEF ProviderChanges, lock
<1>4. CASE \E p \in Processes : Crash(p)
  <2>1. PICK p \in Processes : Crash(p)
    BY <1>4
  <2> DEFINE dead == {t \in Threads : Process(t) = p}
  <2>2. \A t \in Threads : IF t \in dead THEN th'[t].pc = "idle" ELSE th'[t] = th[t]
    BY <2>1 DEF Crash, Idle
  <2>3. /\ gate' = [gate EXCEPT ![p] = None]
        /\ flock' = IF flock \in dead THEN None ELSE flock
    BY <2>1 DEF Crash
  <2> QED
    BY <2>2, <2>3, ProcessIsTyped DEF TypeInv, TypeOK, Body
<1>5. CASE UNCHANGED vars  BY <1>5 DEF vars, lock
<1> QED
  BY <1>1, <1>2, <1>3, <1>4, <1>5 DEF Next

LEMMA Locked == Spec => [](TypeInv /\ LockInv)
<1>1. Init => TypeInv /\ LockInv
  BY TypeInit, LockInit
<1>2. TypeInv /\ LockInv /\ [Next]_vars => (TypeInv /\ LockInv)'
  BY TypeStep, LockStep
<1> QED
  BY <1>1, <1>2, PTL DEF Spec

LEMMA LockInvExcludes == ~LockUnsafe /\ LockInv => MutualExclusion
  BY DEF LockInv, Holds, MutualExclusion

\* Without lock_unsafe, the engine operations and the writes of state, history
\* and configuration of different threads and processes never overlap,
\* whoever crashes and whatever file lock cannot be taken.
THEOREM LocksExclude == ASSUME ~LockUnsafe PROVE Spec => []MutualExclusion
  BY Locked, LockInvExcludes, PTL

\* With lock_unsafe and no file lock, the threads of one process still exclude
\* each other.
GateExclusion ==
  \A t, u \in Threads : InBody(t) /\ InBody(u) /\ Process(t) = Process(u) => t = u

\* The gate alone excludes the threads of one process, lock_unsafe or not.
THEOREM GateExcludes == Spec => []GateExclusion
<1>1. LockInv => GateExclusion
  BY DEF LockInv, Holds, GateExclusion
<1> QED
  BY <1>1, Locked, PTL

-----------------------------------------------------------------------------
(* The history                                                             *)

\* Who is about to write the history has read what the file holds, and his is
\* the one run that the file does not count yet.
Counted(t) == At(t, "saveCount") => th[t].seen = history /\ runs = (history + 1) % Wrap
HistoryInv == HistoryComplete /\ \A t \in Threads : Counted(t)

\* The other steps of a thread touch neither the file nor the count of runs,
\* and do not lead to the write of the history.
LEMMA OtherStepsDoNotCount ==
  ASSUME TypeInv, NEW t \in Threads, Start(t) \/ LockFails(t) \/ Work(t),
         ~LoadHistory(t), ~SaveHistory(t)
  PROVE  ~At(t, "saveCount") /\ th'[t].pc # "saveCount" /\ UNCHANGED <<history, runs>>
<1>1. th \in [Threads -> Locals] /\ th[t] \in Locals /\ InPhase(th[t])
  BY DEF TypeInv, TypeOK, Phases
<1> USE <1>1 DEF Goto, At, Locals, files, ghosts
<1>2. CASE Start(t)
  <2>1. UNCHANGED <<history, runs>> /\ th[t].pc = "idle"
    BY <1>2 DEF Start
  <2> QED  BY <1>2, <2>1, StartIsTyped
<1>3. CASE LockFails(t)
  <2>1. UNCHANGED <<history, runs>> /\ th[t].pc = "flock"
    BY <1>3 DEF LockFails
  <2>2. th'[t].pc # "saveCount"
    <3>1. CASE Refuse(t)  BY <3>1 DEF Refuse, Rest, Idle
    <3>2. CASE Enter(t)
      <4>1. th'[t].pc = [apply |-> "next", uninstall |-> "remove", edit |-> "edit"][th[t].phase]
        BY <3>2 DEF Enter
      <4> QED  BY <4>1, <2>1 DEF InPhase
    <3> QED  BY <1>3, <3>1, <3>2 DEF LockFails
  <2> QED  BY <2>1, <2>2
<1>4. CASE Lookup(t)  BY <1>4 DEF Lookup, Rest, Idle
<1>5. CASE NewApplier(t)  BY <1>5 DEF NewApplier
<1>6. CASE LockGate(t)  BY <1>6 DEF LockGate
<1>7. CASE LockFile(t)
  <2>1. UNCHANGED <<history, runs>> /\ th[t].pc = "flock"
    BY <1>7 DEF LockFile
  <2>2. th'[t].pc = [apply |-> "next", uninstall |-> "remove", edit |-> "edit"][th[t].phase]
    BY <1>7 DEF LockFile, Enter
  <2> QED  BY <2>1, <2>2 DEF InPhase
<1>8. CASE Unlock(t)  BY <1>8 DEF Unlock, Rest, Idle
<1>9. CASE NextTarget(t)  BY <1>9 DEF NextTarget
<1>10. CASE FetchFails(t)  BY <1>10 DEF FetchFails
<1>11. CASE AllDone(t)  BY <1>11 DEF AllDone
<1>12. CASE EngineApply(t)  BY <1>12 DEF EngineApply
<1>13. CASE Record(t)  BY <1>13 DEF Record, SaveState
<1>14. CASE EngineRemove(t)  BY <1>14 DEF EngineRemove
<1>15. CASE Forget(t)  BY <1>15 DEF Forget, SaveState
<1>16. CASE Edit(t)  BY <1>16 DEF Edit
<1>17. CASE Save(t)  BY <1>17 DEF Save
<1> QED
  BY <1>2, <1>3, <1>4, <1>5, <1>6, <1>7, <1>8, <1>9, <1>10, <1>11, <1>12, <1>13, <1>14, <1>15,
     <1>16, <1>17 DEF Work

LEMMA HistoryThreadStep ==
  ASSUME TypeInv, MutualExclusion, HistoryInv,
         NEW t \in Threads, Start(t) \/ LockFails(t) \/ Work(t)
  PROVE  HistoryInv'
<1>1. th \in [Threads -> Locals] /\ th[t] \in Locals
  BY DEF TypeInv, TypeOK
<1>2. \A u \in Threads \ {t} : th'[u] = th[u]
  BY OthersKeepLocals
<1>3. CASE LoadHistory(t)
  <2>1. \A u \in Threads : ~At(u, "saveCount")
    BY <1>3 DEF LoadHistory, MutualExclusion, InBody, Body, At
  <2>2. history = runs
    BY <2>1 DEF HistoryInv, HistoryComplete
  <2>3. /\ th'[t].seen = history /\ th'[t].pc = "saveCount"
        /\ runs' = (history + 1) % Wrap /\ history' = history
    BY <1>3, <1>1, <2>2 DEF LoadHistory, HistorySeen, files, Locals
  <2> QED
    BY <2>1, <2>3, <1>2 DEF HistoryInv, HistoryComplete, Counted, At
<1>4. CASE SaveHistory(t)
  <2>1. \A u \in Threads \ {t} : ~At(u, "saveCount")
    BY <1>4 DEF SaveHistory, MutualExclusion, InBody, Body, At
  <2>2. history' = runs /\ runs' = runs /\ th'[t].pc = "next"
    BY <1>4, <1>1 DEF SaveHistory, HistoryInv, Counted, Goto, ghosts, Locals
  <2> QED
    BY <2>1, <2>2, <1>2 DEF HistoryInv, HistoryComplete, Counted, At
<1>5. CASE ~LoadHistory(t) /\ ~SaveHistory(t)
  <2>1. ~At(t, "saveCount") /\ th'[t].pc # "saveCount" /\ UNCHANGED <<history, runs>>
    BY <1>5, OtherStepsDoNotCount
  <2> QED
    BY <2>1, <1>2 DEF HistoryInv, HistoryComplete, Counted, At
<1> QED
  BY <1>3, <1>4, <1>5

LEMMA HistoryStep == TypeInv /\ MutualExclusion /\ HistoryInv /\ [Next]_vars => HistoryInv'
<1> SUFFICES ASSUME TypeInv, MutualExclusion, HistoryInv, [Next]_vars PROVE HistoryInv'
  OBVIOUS
<1> USE DEF HistoryInv, HistoryComplete, Counted, At
<1>1. CASE Tick
  <2>1. UNCHANGED <<history, runs>> /\ Scheduler \in Threads /\ th[Scheduler].pc = "idle"
    BY <1>1 DEF Tick, files, ghosts, Threads, Daemon
  <2>2. th'[Scheduler].pc = "gate" /\ \A u \in Threads \ {Scheduler} : th'[u] = th[u]
    BY <1>1, <2>1 DEF Tick, TypeInv, TypeOK, Locals
  <2> QED  BY <2>1, <2>2
<1>2. CASE \E t \in Threads : Start(t) \/ LockFails(t) \/ Work(t)
  BY <1>2, HistoryThreadStep
<1>3. CASE ProviderChanges  BY <1>3 DEF ProviderChanges, files, ghosts
<1>4. CASE \E p \in Processes : Crash(p)
  <2>1. PICK p \in Processes : Crash(p)
    BY <1>4
  <2> DEFINE dead == {t \in Threads : Process(t) = p}
  <2>2. \A t \in Threads : IF t \in dead THEN th'[t].pc = "idle" ELSE th'[t] = th[t]
    BY <2>1 DEF Crash, Idle
  <2>3. /\ runs' = IF \E t \in dead : th[t].pc = "saveCount" THEN history ELSE runs
        /\ history' = history
    BY <2>1 DEF Crash, files
  <2>4. CASE \E t \in dead : th[t].pc = "saveCount"
    <3>1. \A u \in Threads \ dead : th[u].pc # "saveCount"
      BY <2>4 DEF MutualExclusion, InBody, Body
    <3> QED  BY <2>2, <2>3, <2>4, <3>1
  <2>5. CASE ~\E t \in dead : th[t].pc = "saveCount"
    <3>1. \A u \in Threads : th[u].pc = "saveCount" => th'[u] = th[u]
      BY <2>2, <2>5
    <3> QED  BY <2>2, <2>3, <2>5, <3>1
  <2> QED  BY <2>4, <2>5
<1>5. CASE UNCHANGED vars  BY <1>5 DEF vars, files, ghosts
<1> QED
  BY <1>1, <1>2, <1>3, <1>4, <1>5 DEF Next

\* Without lock_unsafe no recorded run is lost, however many processes record
\* runs and wherever they crash.
THEOREM HistoryIsComplete == ASSUME ~LockUnsafe PROVE Spec => []HistoryComplete
<1>1. Init => HistoryInv
  BY DEF Init, HistoryInv, HistoryComplete, Counted, At, Idle
<1>2. HistoryInv => HistoryComplete
  BY DEF HistoryInv
<1> QED
  BY <1>1, <1>2, HistoryStep, Locked, LockInvExcludes, PTL DEF Spec

-----------------------------------------------------------------------------
(* Repair mode                                                             *)

\* Beyond its look at the configuration, a command that enforces has a valid
\* one, and it stays valid.
Enforces(t) == th[t].pc \notin {"idle", "lookup"} /\ th[t].cmd \notin {"put", "drop"}
ValidInv ==
  /\ scheduled => Valid(mem[Scheduler])
  /\ \A t \in Threads : Enforces(t) => Valid(Mine(t))

LEMMA ValidInit == Init => ValidInv
<1> SUFFICES ASSUME Init PROVE ValidInv
  OBVIOUS
<1>1. \A t \in Threads : ~Enforces(t)
  BY DEF Init, Enforces, Idle
<1>2. mem[Scheduler] = cfgFile
  BY DEF Init, Processes, Process, Threads, Daemon
<1> QED
  BY <1>1, <1>2 DEF Init, ValidInv

\* The commands that go on as what they are.
LEMMA CommandsGoOn ==
  ASSUME TypeInv, NEW t \in Threads, LockFails(t) \/ Work(t), ~Lookup(t), Enforces(t)'
  PROVE  Enforces(t)
<1>1. th \in [Threads -> Locals] /\ th[t] \in Locals
  BY DEF TypeInv, TypeOK
<1> USE <1>1 DEF Goto, At, Locals, Enforces
<1>2. CASE LockFails(t)  BY <1>2 DEF LockFails, Enter, Refuse, Rest, Idle
<1>3. CASE NewApplier(t)  BY <1>3 DEF NewApplier
<1>4. CASE LockGate(t)  BY <1>4 DEF LockGate
<1>5. CASE LockFile(t)  BY <1>5 DEF LockFile, Enter
<1>6. CASE Unlock(t)  BY <1>6 DEF Unlock, Rest, Idle
<1>7. CASE NextTarget(t)  BY <1>7 DEF NextTarget
<1>8. CASE FetchFails(t)  BY <1>8 DEF FetchFails
<1>9. CASE AllDone(t)  BY <1>9 DEF AllDone
<1>10. CASE EngineApply(t)  BY <1>10 DEF EngineApply
<1>11. CASE Record(t)  BY <1>11 DEF Record, SaveState
<1>12. CASE LoadHistory(t)  BY <1>12 DEF LoadHistory
<1>13. CASE SaveHistory(t)  BY <1>13 DEF SaveHistory
<1>14. CASE EngineRemove(t)  BY <1>14 DEF EngineRemove
<1>15. CASE Forget(t)  BY <1>15 DEF Forget, SaveState
<1>16. CASE Edit(t)  BY <1>16 DEF Edit
<1>17. CASE Save(t)  BY <1>17 DEF Save
<1> QED
  BY <1>2, <1>3, <1>4, <1>5, <1>6, <1>7, <1>8, <1>9, <1>10, <1>11, <1>12, <1>13, <1>14, <1>15,
     <1>16, <1>17 DEF Work

\* An edit keeps a valid configuration valid, and other steps than the look of
\* a CLI at the file keep the configuration.
LEMMA ValidityStays ==
  ASSUME TypeInv, NEW t \in Threads, Start(t) \/ LockFails(t) \/ Work(t),
         ~(Lookup(t) /\ t \in Clis), NEW p \in Processes, Valid(mem[p])
  PROVE  Valid(mem'[p])
<1>1. CASE Edit(t)
  <2> DEFINE q == Process(t)  x == th[t].target  v == EditValue(t)
  <2>1. mem' = [mem EXCEPT ![q][x] = v] /\ mem \in [Processes -> Config]
    BY <1>1 DEF Edit, TypeInv, TypeOK
  <2>2. v = None \/ v.valid
    BY EditValueIsTyped
  <2>3. \A y \in Targets : mem'[p][y] = mem[p][y] \/ mem'[p][y] = v
    BY <2>1 DEF Config
  <2> QED
    BY <2>2, <2>3 DEF Valid
<1>2. CASE ~Edit(t)
  <2>1. UNCHANGED mem
    BY <1>2 DEF Work, Start, LockFails, Lookup, NewApplier, LockGate, LockFile, Unlock, NextTarget,
       FetchFails, AllDone, EngineApply, Record, LoadHistory, SaveHistory, EngineRemove, Forget, Save
  <2> QED
    BY <2>1
<1> QED
  BY <1>1, <1>2

LEMMA ValidThreadStep ==
  ASSUME TypeInv, ValidInv, NEW t \in Threads, Start(t) \/ LockFails(t) \/ Work(t)
  PROVE  ValidInv'
<1>1. /\ th \in [Threads -> Locals] /\ th[t] \in Locals /\ mem \in [Processes -> Config]
      /\ \A u \in Threads \ {t} : th'[u] = th[u]
      /\ Scheduler \in Processes
  BY OthersKeepLocals DEF TypeInv, TypeOK, Processes, Process, Threads, Daemon
<1>2. scheduled' = scheduled
  BY DEF Work, Start, LockFails, Lookup, NewApplier, LockGate, LockFile, Unlock, NextTarget,
     FetchFails, AllDone, EngineApply, Record, LoadHistory, SaveHistory, EngineRemove, Forget, Edit, Save
<1>3. CASE Lookup(t) /\ t \in Clis
  <2>1. Process(t) = t /\ \A u \in Threads \ {t} : Process(u) # t
    BY <1>3, ThreadAssumption DEF Process, Threads, Daemon
  <2>2. mem' = [mem EXCEPT ![t] = cfgFile] /\ Scheduler # t
    BY <1>3, ThreadAssumption DEF Lookup
  <2>3. scheduled' => Valid(mem'[Scheduler])
    BY <2>2, <1>1, <1>2 DEF ValidInv
  <2>4. ASSUME NEW u \in Threads \ {t}, Enforces(u)' PROVE Valid(mem'[Process(u)])
    BY <2>1, <2>2, <2>4, <1>1, ProcessIsTyped DEF ValidInv, Enforces, Mine
  <2>5. ASSUME Enforces(t)' PROVE Valid(mem'[Process(t)])
    <3>1. CASE Refused(t, mem'[Process(t)])
      BY <1>3, <1>1, <2>5, <3>1 DEF Lookup, Rest, Idle, Enforces
    <3>2. CASE ~Refused(t, mem'[Process(t)])
      <4>1. th'[t].cmd = th[t].cmd
        BY <1>3, <1>1, <3>2 DEF Lookup, Locals
      <4> QED
        BY <4>1, <2>5, <3>2 DEF Refused, Enforces
    <3> QED  BY <3>1, <3>2
  <2> QED
    BY <2>3, <2>4, <2>5 DEF ValidInv, Mine
<1>4. CASE ~(Lookup(t) /\ t \in Clis)
  <2>1. \A p \in Processes : Valid(mem[p]) => Valid(mem'[p])
    BY <1>4, ValidityStays
  <2>2. scheduled' => Valid(mem'[Scheduler])
    BY <2>1, <1>1, <1>2 DEF ValidInv
  <2>3. ASSUME NEW u \in Threads \ {t}, Enforces(u)' PROVE Valid(mem'[Process(u)])
    BY <2>1, <2>3, <1>1, ProcessIsTyped DEF ValidInv, Enforces, Mine
  <2>4. ASSUME Enforces(t)' PROVE Valid(mem'[Process(t)])
    <3>1. CASE Start(t)  BY <3>1, <1>1, <2>4, StartIsTyped DEF Enforces
    <3>2. CASE Lookup(t)
      <4>1. CASE Refused(t, mem'[Process(t)])
        BY <3>2, <1>1, <2>4, <4>1 DEF Lookup, Rest, Idle, Enforces
      <4>2. CASE ~Refused(t, mem'[Process(t)])
        <5>1. th'[t].cmd = th[t].cmd
          BY <3>2, <1>1, <4>2 DEF Lookup, Locals
        <5> QED
          BY <5>1, <2>4, <4>2 DEF Refused, Enforces
      <4> QED  BY <4>1, <4>2
    <3>3. CASE ~Start(t) /\ ~Lookup(t)
      <4>1. Enforces(t)
        BY <3>3, <2>4, CommandsGoOn
      <4> QED
        BY <4>1, <2>1, ProcessIsTyped DEF ValidInv, Mine
    <3> QED  BY <3>1, <3>2, <3>3
  <2> QED
    BY <2>2, <2>3, <2>4 DEF ValidInv, Mine
<1> QED
  BY <1>3, <1>4

LEMMA ValidStep == TypeInv /\ ValidInv /\ [Next]_vars => ValidInv'
<1> SUFFICES ASSUME TypeInv, ValidInv, [Next]_vars PROVE ValidInv'
  OBVIOUS
<1>1. CASE Tick
  <2>1. /\ UNCHANGED <<mem, scheduled>> /\ scheduled /\ Process(Scheduler) = Scheduler
        /\ \A u \in Threads \ {Scheduler} : th'[u] = th[u]
    BY <1>1 DEF Tick, Process, Daemon, TypeInv, TypeOK
  <2> QED
    BY <2>1 DEF ValidInv, Enforces, Mine
<1>2. CASE \E t \in Threads : Start(t) \/ LockFails(t) \/ Work(t)
  BY <1>2, ValidThreadStep
<1>3. CASE ProviderChanges
  BY <1>3 DEF ProviderChanges, ValidInv, Enforces, Mine
<1>4. CASE \E p \in Processes : Crash(p)
  <2>1. PICK p \in Processes : Crash(p)
    BY <1>4
  <2> DEFINE dead == {t \in Threads : Process(t) = p}
  <2>2. \A t \in Threads : IF t \in dead THEN th'[t].pc = "idle" ELSE th'[t] = th[t]
    BY <2>1 DEF Crash, Idle
  <2>3. /\ mem' = [mem EXCEPT ![p] = cfgFile]
        /\ scheduled' = IF p = Scheduler THEN Valid(cfgFile) ELSE scheduled
    BY <2>1 DEF Crash
  <2>4. mem \in [Processes -> Config] /\ Scheduler \in Processes
    BY DEF TypeInv, TypeOK, Processes, Process, Threads, Daemon
  <2>5. scheduled' => Valid(mem'[Scheduler])
    BY <2>3, <2>4 DEF ValidInv
  <2>6. \A t \in Threads : Enforces(t)' => Valid(Mine(t))'
    BY <2>2, <2>3, <2>4, ProcessIsTyped DEF ValidInv, Enforces, Mine
  <2> QED
    BY <2>5, <2>6 DEF ValidInv
<1>5. CASE UNCHANGED vars
  BY <1>5 DEF vars, ValidInv, Enforces, Mine
<1> QED
  BY <1>1, <1>2, <1>3, <1>4, <1>5 DEF Next

LEMMA EnforcersAreValid ==
  TypeInv /\ ValidInv => \A t \in Threads : At(t, "engine") \/ At(t, "remove") => Valid(Mine(t))
<1> SUFFICES ASSUME TypeInv, ValidInv, NEW t \in Threads, At(t, "engine") \/ At(t, "remove")
             PROVE  Valid(Mine(t))
  OBVIOUS
<1>1. Enforces(t)
  BY DEF At, Enforces, TypeInv, Phases, InPhase
<1> QED
  BY <1>1 DEF ValidInv

\* Rules are installed or removed only by processes whose configuration is
\* valid, whatever is edited, saved or loaded by whom.
THEOREM NothingInvalidIsEnforced == Spec => EnforcesOnlyValid
<1>1. TypeInv /\ ValidInv /\ [Next]_vars => (TypeInv /\ ValidInv)'
  BY TypeStep, ValidStep
<1>2. TypeInv /\ ValidInv /\ [Next]_vars =>
        [\A t \in Threads : At(t, "engine") \/ At(t, "remove") => Valid(Mine(t))]_rules
  BY EnforcersAreValid
<1> QED
  BY <1>1, <1>2, TypeInit, ValidInit, PTL DEF Spec, EnforcesOnlyValid

-----------------------------------------------------------------------------
(* Edits and deletes                                                       *)

\* What the CLIs may run leaves config.json alone.
ClisDoNotEdit == CliCommands \cap {"put", "drop", "delete"} = {}

\* The daemon's copy is what config.json holds, but for the edit that is about
\* to be saved; no CLI is about to save.
EditsInv ==
  /\ cfgFile = edits
  /\ \A t \in Clis : th[t].pc # "idle" => th[t].cmd \notin {"put", "drop", "delete"}
  /\ (\A t \in Daemon : ~At(t, "save")) => mem[Scheduler] = cfgFile
  /\ \A t \in Daemon :
       At(t, "save") => mem[Scheduler] = [cfgFile EXCEPT ![th[t].target] = EditValue(t)]

\* The steps that do not touch what the edits are about.
LEMMA OtherStepsDoNotEdit ==
  ASSUME TypeInv, NEW t \in Threads, Start(t) \/ LockFails(t) \/ Work(t),
         ~Edit(t), ~Save(t)
  PROVE  /\ UNCHANGED <<cfgFile, edits>> /\ (~(Lookup(t) /\ t \in Clis) => UNCHANGED mem)
         /\ ~At(t, "save") /\ th'[t].pc # "save"
<1>1. th \in [Threads -> Locals] /\ th[t] \in Locals /\ InPhase(th[t])
  BY DEF TypeInv, TypeOK, Phases
<1> USE <1>1 DEF Goto, At, Locals, files, ghosts
<1>2. CASE Start(t)
  <2>1. UNCHANGED <<cfgFile, edits, mem>> /\ th[t].pc = "idle"
    BY <1>2 DEF Start
  <2> QED  BY <1>2, <2>1, StartIsTyped
<1>3. CASE LockFails(t)
  <2>1. UNCHANGED <<cfgFile, edits, mem>> /\ th[t].pc = "flock"
    BY <1>3 DEF LockFails
  <2>2. th'[t].pc # "save"
    <3>1. CASE Refuse(t)  BY <3>1 DEF Refuse, Rest, Idle
    <3>2. CASE Enter(t)
      <4>1. th'[t].pc = [apply |-> "next", uninstall |-> "remove", edit |-> "edit"][th[t].phase]
        BY <3>2 DEF Enter
      <4> QED  BY <4>1, <2>1 DEF InPhase
    <3> QED  BY <1>3, <3>1, <3>2 DEF LockFails
  <2> QED  BY <2>1, <2>2
<1>4. CASE Lookup(t)  BY <1>4 DEF Lookup, Rest, Idle
<1>5. CASE NewApplier(t)  BY <1>5 DEF NewApplier
<1>6. CASE LockGate(t)  BY <1>6 DEF LockGate
<1>7. CASE LockFile(t)
  <2>1. UNCHANGED <<cfgFile, edits, mem>> /\ th[t].pc = "flock"
    BY <1>7 DEF LockFile
  <2>2. th'[t].pc = [apply |-> "next", uninstall |-> "remove", edit |-> "edit"][th[t].phase]
    BY <1>7 DEF LockFile, Enter
  <2> QED  BY <2>1, <2>2 DEF InPhase
<1>8. CASE Unlock(t)  BY <1>8 DEF Unlock, Rest, Idle
<1>9. CASE NextTarget(t)  BY <1>9 DEF NextTarget
<1>10. CASE FetchFails(t)  BY <1>10 DEF FetchFails
<1>11. CASE AllDone(t)  BY <1>11 DEF AllDone
<1>12. CASE EngineApply(t)  BY <1>12 DEF EngineApply
<1>13. CASE Record(t)  BY <1>13 DEF Record, SaveState
<1>14. CASE LoadHistory(t)  BY <1>14 DEF LoadHistory
<1>15. CASE SaveHistory(t)  BY <1>15 DEF SaveHistory
<1>16. CASE EngineRemove(t)  BY <1>16 DEF EngineRemove
<1>17. CASE Forget(t)  BY <1>17 DEF Forget, SaveState
<1> QED
  BY <1>2, <1>3, <1>4, <1>5, <1>6, <1>7, <1>8, <1>9, <1>10, <1>11, <1>12, <1>13, <1>14, <1>15,
     <1>16, <1>17 DEF Work

\* A CLI that may not edit never becomes one that does.
LEMMA ClisStayOut ==
  ASSUME TypeInv, ClisDoNotEdit, NEW t \in Clis, Start(t) \/ LockFails(t) \/ Work(t),
         th[t].pc # "idle" => th[t].cmd \notin {"put", "drop", "delete"},
         th'[t].pc # "idle"
  PROVE  th'[t].cmd \notin {"put", "drop", "delete"}
<1>1. t \in Threads /\ th \in [Threads -> Locals] /\ th[t] \in Locals
  BY DEF TypeInv, TypeOK, Threads
<1>2. CASE Start(t)
  <2>1. PICK c \in IF t \in Clis THEN CliCommands ELSE WebCommands, x \in Targets,
             s \in {v \in Specs : v.valid}, f \in BOOLEAN :
          /\ ~f => c \in {"apply", "applyOne"} /\ t \in Clis
          /\ th' = [th EXCEPT ![t].pc = "lookup", ![t].cmd = c, ![t].target = x,
                              ![t].spec = IF c = "put" THEN s ELSE None, ![t].force = f,
                              ![t].phase = IF c \in {"put", "drop"} THEN "edit"
                                           ELSE IF c \in {"apply", "applyOne"} THEN "apply"
                                           ELSE "uninstall"]
    BY <1>2, Zenon DEF Start
  <2>2. c \in CliCommands /\ th'[t].cmd = c
    BY <2>1, <1>1 DEF Locals
  <2> QED
    BY <2>2 DEF ClisDoNotEdit
<1> USE <1>1 DEF Goto, At, Locals
<1>3. CASE LockFails(t)  BY <1>3 DEF LockFails, Enter, Refuse, Rest, Idle
<1>4. CASE Lookup(t)  BY <1>4 DEF Lookup, Rest, Idle
<1>5. CASE NewApplier(t)  BY <1>5 DEF NewApplier
<1>6. CASE LockGate(t)  BY <1>6 DEF LockGate
<1>7. CASE LockFile(t)  BY <1>7 DEF LockFile, Enter
<1>8. CASE Unlock(t)  BY <1>8 DEF Unlock, Rest, Idle
<1>9. CASE NextTarget(t)  BY <1>9 DEF NextTarget
<1>10. CASE FetchFails(t)  BY <1>10 DEF FetchFails
<1>11. CASE AllDone(t)  BY <1>11 DEF AllDone
<1>12. CASE EngineApply(t)  BY <1>12 DEF EngineApply
<1>13. CASE Record(t)  BY <1>13 DEF Record, SaveState
<1>14. CASE LoadHistory(t)  BY <1>14 DEF LoadHistory
<1>15. CASE SaveHistory(t)  BY <1>15 DEF SaveHistory
<1>16. CASE EngineRemove(t)  BY <1>16 DEF EngineRemove
<1>17. CASE Forget(t)  BY <1>17 DEF Forget, SaveState
<1>18. CASE Edit(t)  BY <1>18 DEF Edit
<1>19. CASE Save(t)  BY <1>19 DEF Save
<1> QED
  BY <1>2, <1>3, <1>4, <1>5, <1>6, <1>7, <1>8, <1>9, <1>10, <1>11, <1>12, <1>13, <1>14, <1>15,
     <1>16, <1>17, <1>18, <1>19 DEF Work

LEMMA EditsThreadStep ==
  ASSUME TypeInv, GateExclusion, EditsInv, ClisDoNotEdit, "save" \notin Faults,
         NEW t \in Threads, Start(t) \/ LockFails(t) \/ Work(t)
  PROVE  EditsInv'
<1>1. /\ th \in [Threads -> Locals] /\ th[t] \in Locals /\ InPhase(th[t])
      /\ mem \in [Processes -> Config] /\ cfgFile \in Config
      /\ Scheduler \in Processes /\ Daemon \subseteq Threads /\ Clis \subseteq Threads
      /\ \A u \in Daemon : Process(u) = Scheduler
      /\ Daemon \cap Clis = {}
  BY ThreadAssumption DEF TypeInv, TypeOK, Phases, Processes, Process, Threads, Daemon
<1>2. \A u \in Threads \ {t} : th'[u] = th[u]
  BY OthersKeepLocals
<1>3. \A u \in Clis : th'[u].pc # "idle" => th'[u].cmd \notin {"put", "drop", "delete"}
  BY <1>2, ClisStayOut DEF EditsInv, Threads
<1>4. CASE t \in Daemon /\ Edit(t)
  <2> DEFINE x == th[t].target  v == EditValue(t)
  <2>1. \A u \in Daemon : ~At(u, "save")
    BY <1>1, <1>4 DEF GateExclusion, InBody, Body, At, Edit
  <2>2. mem[Scheduler] = cfgFile
    BY <2>1 DEF EditsInv
  <2>3. /\ mem' = [mem EXCEPT ![Scheduler][x] = v] /\ UNCHANGED <<cfgFile, edits>>
        /\ th'[t] = [th[t] EXCEPT !.pc = "save"]
    BY <1>1, <1>4 DEF Edit, Goto, files, ghosts
  <2>4. mem'[Scheduler] = [cfgFile EXCEPT ![x] = v]
    BY <2>2, <2>3, <1>1
  <2>5. th'[t].target = x /\ EditValue(t)' = v /\ th'[t].pc = "save"
    BY <2>3, <1>1 DEF EditValue, Locals
  <2>6. \A u \in Daemon : th'[u].pc = "save" => u = t
    BY <2>1, <1>1, <1>2 DEF At
  <2> QED
    BY <2>3, <2>4, <2>5, <2>6, <1>3, <1>4 DEF EditsInv, At
<1>5. CASE t \in Daemon /\ Save(t)
  <2> DEFINE x == th[t].target  v == EditValue(t)
  <2>1. \A u \in Daemon \ {t} : ~At(u, "save")
    BY <1>1, <1>5 DEF GateExclusion, InBody, Body, At, Save
  <2>2. mem[Scheduler] = [cfgFile EXCEPT ![x] = v]
    BY <1>5 DEF EditsInv, Save
  <2>3. /\ cfgFile' = mem[Scheduler] /\ edits' = [edits EXCEPT ![x] = v] /\ mem' = mem
        /\ th'[t].pc = "unlock"
    BY <1>1, <1>5 DEF Save, Mine, Goto, Locals
  <2>4. \A u \in Daemon : th'[u].pc # "save"
    BY <2>1, <2>3, <1>1, <1>2 DEF At
  <2> QED
    BY <2>2, <2>3, <2>4, <1>3 DEF EditsInv, At
<1>6. CASE ~Edit(t) /\ ~Save(t)
  <2>1. /\ UNCHANGED <<cfgFile, edits>> /\ (~(Lookup(t) /\ t \in Clis) => UNCHANGED mem)
        /\ ~At(t, "save") /\ th'[t].pc # "save"
    BY <1>6, OtherStepsDoNotEdit
  <2>2. mem'[Scheduler] = mem[Scheduler]
    BY <2>1, <1>1, ThreadAssumption DEF Lookup
  <2>3. \A u \in Daemon : /\ th'[u].pc = "save" <=> th[u].pc = "save"
                          /\ th'[u].pc = "save" => th'[u] = th[u]
    BY <2>1, <1>1, <1>2 DEF At
  <2>4. \A u \in Daemon : th'[u].pc = "save" => EditValue(u)' = EditValue(u)
    BY <2>3 DEF EditValue
  <2> QED
    BY <2>1, <2>2, <2>3, <2>4, <1>3 DEF EditsInv, At
<1>7. t \in Clis => ~Edit(t) /\ ~Save(t)
  BY <1>1 DEF EditsInv, InPhase, Edit, Save, At
<1> QED
  BY <1>4, <1>5, <1>6, <1>7 DEF Threads

LEMMA EditsStep ==
  ASSUME TypeInv, GateExclusion, EditsInv, ClisDoNotEdit, "save" \notin Faults, [Next]_vars
  PROVE  EditsInv'
<1>1. CASE Tick
  <2>1. /\ UNCHANGED <<cfgFile, edits, mem>> /\ Scheduler \in Daemon /\ Scheduler \notin Clis
        /\ Daemon \subseteq Threads /\ Clis \subseteq Threads
        /\ th[Scheduler].pc = "idle" /\ th'[Scheduler].pc = "gate"
        /\ \A u \in Threads \ {Scheduler} : th'[u] = th[u]
    BY <1>1, ThreadAssumption
       DEF Tick, At, files, ghosts, Threads, Daemon, TypeInv, TypeOK, Locals
  <2>2. \A u \in Daemon : th'[u].pc = "save" => th'[u] = th[u] /\ EditValue(u)' = EditValue(u)
    BY <2>1 DEF EditValue
  <2>3. \A u \in Daemon : th[u].pc = "save" => th'[u].pc = "save"
    BY <2>1
  <2> QED
    BY <2>1, <2>2, <2>3 DEF EditsInv, At
<1>2. CASE \E t \in Threads : Start(t) \/ LockFails(t) \/ Work(t)
  BY <1>2, EditsThreadStep
<1>3. CASE ProviderChanges
  BY <1>3 DEF ProviderChanges, EditsInv, EditValue, At, files, ghosts
<1>4. CASE \E p \in Processes : Crash(p)
  <2>1. PICK p \in Processes : Crash(p)
    BY <1>4
  <2>2. \A t \in Threads : IF Process(t) = p THEN th'[t].pc = "idle" ELSE th'[t] = th[t]
    BY <2>1 DEF Crash, Idle
  <2>3. /\ mem' = [mem EXCEPT ![p] = cfgFile] /\ UNCHANGED <<cfgFile, edits>>
        /\ mem \in [Processes -> Config] /\ Scheduler \in Processes
        /\ Daemon \subseteq Threads /\ Clis \subseteq Threads
        /\ \A u \in Daemon : Process(u) = Scheduler
    BY <2>1 DEF Crash, files, TypeInv, TypeOK, Processes, Process, Threads, Daemon
  <2>4. \A u \in Clis : th'[u].pc # "idle" => th'[u].cmd \notin {"put", "drop", "delete"}
    BY <2>2, <2>3 DEF EditsInv
  <2>5. CASE p = Scheduler
    BY <2>2, <2>3, <2>4, <2>5 DEF EditsInv, At
  <2>6. CASE p # Scheduler
    <3>1. \A u \in Daemon : th'[u] = th[u] /\ EditValue(u)' = EditValue(u)
      BY <2>2, <2>3, <2>6 DEF EditValue
    <3> QED
      BY <2>3, <2>4, <2>6, <3>1 DEF EditsInv, At
  <2> QED  BY <2>5, <2>6
<1>5. CASE UNCHANGED vars
  BY <1>5 DEF vars, EditsInv, EditValue, At, files, ghosts
<1> QED
  BY <1>1, <1>2, <1>3, <1>4, <1>5 DEF Next

\* As long as config.json can be written and only the web API edits it, it
\* holds what all acknowledged edits add up to: however many requests edit at
\* once, no edit is undone by another, by a crash or by CLI commands.
THEOREM EditsAddUp ==
  ASSUME ClisDoNotEdit, "save" \notin Faults
  PROVE  Spec => []NoLostEdit
<1>1. Init => EditsInv
  <2> SUFFICES ASSUME Init PROVE EditsInv
    OBVIOUS
  <2>1. \A t \in Threads : th[t].pc = "idle"
    BY DEF Init, Idle
  <2>2. mem[Scheduler] = cfgFile /\ edits = cfgFile
    BY DEF Init, Processes, Process, Threads, Daemon
  <2> QED
    BY <2>1, <2>2 DEF EditsInv, At, Threads, Daemon
<1>2. TypeInv /\ GateExclusion /\ EditsInv /\ [Next]_vars => EditsInv'
  BY EditsStep
<1>3. EditsInv => NoLostEdit
  BY DEF EditsInv, NoLostEdit
<1> QED
  BY <1>1, <1>2, <1>3, Typed, GateExcludes, PTL DEF Spec

-----------------------------------------------------------------------------
\* A delete that has removed the target's rules.
Removed(t) ==
  /\ th[t].cmd = "delete"
  /\ th[t].phase = "edit" \/ th[t].pc = "forget" \/ (th[t].pc = "unlock" /\ th[t].ok)

\* It leaves none of the target's engine, unless the target was applied since.
Gone(t) == t \in crossed \/ rules[th[t].target][th[t].spec.engine] = None
DeletesInv == \A t \in Threads : Removed(t) => Gone(t)

\* A delete comes to have removed the rules only by the step that removes them.
LEMMA RemovedGoesOn ==
  ASSUME TypeInv, NEW t \in Threads, Start(t) \/ LockFails(t) \/ Work(t),
         ~EngineRemove(t), Removed(t)'
  PROVE  /\ Removed(t) /\ th'[t].target = th[t].target /\ th'[t].spec = th[t].spec
         /\ ~EngineApply(t)
<1>1. th \in [Threads -> Locals] /\ th[t] \in Locals /\ InPhase(th[t])
  BY DEF TypeInv, TypeOK, Phases
<1> USE <1>1 DEF Goto, At, Locals, Removed, InPhase
<1>2. CASE Start(t)  BY <1>2, StartIsTyped
<1>3. CASE LockFails(t)
  <2>1. CASE Refuse(t)  BY <2>1 DEF Refuse, Rest, Idle
  <2>2. CASE Enter(t)  BY <1>3, <2>2 DEF LockFails, Enter, EngineApply
  <2> QED  BY <1>3, <2>1, <2>2 DEF LockFails
<1>4. CASE Lookup(t)  BY <1>4 DEF Lookup, Rest, Idle, EngineApply
<1>5. CASE NewApplier(t)  BY <1>5 DEF NewApplier, EngineApply
<1>6. CASE LockGate(t)  BY <1>6 DEF LockGate, EngineApply
<1>7. CASE LockFile(t)  BY <1>7 DEF LockFile, Enter, EngineApply
<1>8. CASE Unlock(t)  BY <1>8 DEF Unlock, Rest, Idle, GoesOnToEdit, EngineApply
<1>9. CASE NextTarget(t)  BY <1>9 DEF NextTarget
<1>10. CASE FetchFails(t)  BY <1>10 DEF FetchFails
<1>11. CASE AllDone(t)  BY <1>11 DEF AllDone
<1>12. CASE EngineApply(t)  BY <1>12 DEF EngineApply
<1>13. CASE Record(t)  BY <1>13 DEF Record, SaveState
<1>14. CASE LoadHistory(t)  BY <1>14 DEF LoadHistory
<1>15. CASE SaveHistory(t)  BY <1>15 DEF SaveHistory
<1>16. CASE Forget(t)  BY <1>16 DEF Forget, SaveState, EngineApply
<1>17. CASE Edit(t)  BY <1>17 DEF Edit, EngineApply
<1>18. CASE Save(t)  BY <1>18 DEF Save, EngineApply
<1> QED
  BY <1>2, <1>3, <1>4, <1>5, <1>6, <1>7, <1>8, <1>9, <1>10, <1>11, <1>12, <1>13, <1>14, <1>15,
     <1>16, <1>17, <1>18 DEF Work

LEMMA RulesStay ==
  ASSUME NEW t \in Threads, Start(t) \/ LockFails(t) \/ Work(t),
         ~EngineApply(t), ~EngineRemove(t)
  PROVE  UNCHANGED <<rules, crossed>>
  BY DEF Work, Start, LockFails, Lookup, NewApplier, LockGate, LockFile, Unlock, NextTarget,
     FetchFails, AllDone, Record, LoadHistory, SaveHistory, Forget, Edit, Save, ghosts

LEMMA DeletesThreadStep ==
  ASSUME TypeInv, MutualExclusion, DeletesInv,
         NEW t \in Threads, Start(t) \/ LockFails(t) \/ Work(t)
  PROVE  DeletesInv'
<1>1. /\ \A u \in Threads : th[u] \in Locals /\ InPhase(th[u])
      /\ \A u \in Threads \ {t} : th'[u] = th[u]
      /\ rules \in [Targets -> [Engines -> Data \cup {None}]]
      /\ \A s \in Specs : s.engine \in Engines
  BY OthersKeepLocals DEF TypeInv, TypeOK, Phases, Engines
<1>2. \A u \in Threads : Removed(u) => th[u].target \in Targets /\ th[u].spec \in Specs
  BY <1>1 DEF Removed, InPhase, Locals
<1>3. \A u \in Threads \ {t} : Removed(u)' => Removed(u)
  BY <1>1 DEF Removed
<1>4. CASE EngineApply(t)
  <2>1. ~EngineRemove(t)
    BY <1>4 DEF EngineApply, EngineRemove, At
  <2>2. ~Removed(t)'
    BY <1>4, <2>1, RemovedGoesOn DEF Work
  <2>3. ASSUME NEW u \in Threads \ {t}, Removed(u) PROVE Gone(u)'
    <3>1. th[u].phase = "edit"
      BY <1>4, <2>3 DEF EngineApply, At, Removed, MutualExclusion, InBody, Body
    <3>2. CASE UNCHANGED <<rules, crossed>>
      BY <3>2, <2>3, <1>1 DEF DeletesInv, Gone
    <3>3. CASE Install(t)
      <4>1. CASE th[u].target = th[t].target
        BY <4>1, <3>1, <3>3, <2>3, <1>1 DEF Install, HalfDone, Removed, Gone
      <4>2. CASE th[u].target # th[t].target
        BY <4>2, <3>3, <2>3, <1>1, <1>2 DEF Install, DeletesInv, Gone
      <4> QED  BY <4>1, <4>2
    <3> QED  BY <1>4, <3>2, <3>3 DEF EngineApply
  <2> QED
    BY <2>2, <2>3, <1>3 DEF DeletesInv
<1>5. CASE EngineRemove(t)
  <2>1. ASSUME NEW u \in Threads \ {t}, Removed(u) PROVE Gone(u)'
    <3>1. u \in crossed => u \in crossed'
      BY <1>5 DEF EngineRemove
    <3>2. \A x \in Targets, e \in Engines : rules[x][e] = None => rules'[x][e] = None
      BY <1>5, <1>1 DEF EngineRemove, Detach
    <3> QED
      BY <2>1, <3>1, <3>2, <1>1, <1>2 DEF DeletesInv, Gone
  <2>2. ASSUME Removed(t)' PROVE Gone(t)'
    <3>1. th[t].pc = "remove" /\ th[t].phase = "uninstall" /\ th \in [Threads -> Locals]
      BY <1>5, <1>1 DEF EngineRemove, At, InPhase, TypeInv, TypeOK
    <3>2. /\ rules' = [rules EXCEPT ![th[t].target][th[t].spec.engine] = None]
          /\ th' = [th EXCEPT ![t].pc = "forget"]
      BY <1>5, <1>1, <2>2, <3>1 DEF EngineRemove, Detach, Removed, Goto, Locals
    <3>3. th'[t].cmd = th[t].cmd /\ th'[t].target = th[t].target /\ th'[t].spec = th[t].spec
      BY <3>1, <3>2, <1>1 DEF Locals
    <3>4. th[t].spec \in Specs /\ th[t].target \in Targets
      BY <3>1, <3>3, <2>2, <1>1 DEF Removed, InPhase, Locals
    <3> QED
      BY <3>2, <3>3, <3>4, <1>1 DEF Gone
  <2> QED
    BY <2>1, <2>2, <1>3 DEF DeletesInv
<1>6. CASE ~EngineApply(t) /\ ~EngineRemove(t)
  <2>1. UNCHANGED <<rules, crossed>>
    BY <1>6, RulesStay
  <2>2. Removed(t)' => Removed(t) /\ th'[t].target = th[t].target /\ th'[t].spec = th[t].spec
    BY <1>6, RemovedGoesOn
  <2> QED
    BY <2>1, <2>2, <1>1, <1>3 DEF DeletesInv, Gone
<1> QED
  BY <1>4, <1>5, <1>6

LEMMA DeletesStep ==
  ASSUME TypeInv, MutualExclusion, DeletesInv, [Next]_vars
  PROVE  DeletesInv'
<1>1. CASE Tick
  <2>1. UNCHANGED <<rules, crossed>> /\ th'[Scheduler].cmd = "apply" /\ Scheduler \in Threads
    BY <1>1 DEF Tick, ghosts, Threads, Daemon, TypeInv, TypeOK, Locals
  <2>2. \A u \in Threads \ {Scheduler} : th'[u] = th[u]
    BY <1>1, <2>1 DEF Tick, TypeInv, TypeOK
  <2> QED  BY <2>1, <2>2 DEF DeletesInv, Removed, Gone
<1>2. CASE \E t \in Threads : Start(t) \/ LockFails(t) \/ Work(t)
  BY <1>2, DeletesThreadStep
<1>3. CASE ProviderChanges
  BY <1>3 DEF ProviderChanges, DeletesInv, Removed, Gone, ghosts
<1>4. CASE \E p \in Processes : Crash(p)
  <2>1. PICK p \in Processes : Crash(p)
    BY <1>4
  <2>2. \A t \in Threads : IF Process(t) = p THEN th'[t].cmd = "none" ELSE th'[t] = th[t]
    BY <2>1 DEF Crash, Idle
  <2>3. UNCHANGED <<rules, crossed>>
    BY <2>1 DEF Crash
  <2> QED
    BY <2>2, <2>3 DEF DeletesInv, Removed, Gone
<1>5. CASE UNCHANGED vars
  BY <1>5 DEF vars, DeletesInv, Removed, Gone, ghosts
<1> QED
  BY <1>1, <1>2, <1>3, <1>4, <1>5 DEF Next

LEMMA SavesAreCovered ==
  TypeInv /\ DeletesInv =>
    \A t \in Threads : At(t, "save") /\ th[t].cmd = "delete" => Gone(t)
  BY DEF TypeInv, Phases, InPhase, DeletesInv, Removed, At

\* A delete takes the entry out of config.json only when no rules of the
\* target's engine are left, unless the target was applied between the two
\* halves of the delete: under every fault, and with any number of requests
\* and processes, without lock_unsafe.
THEOREM DeletesLeaveNothing == ASSUME ~LockUnsafe PROVE Spec => DeleteLeavesNothing
<1>1. Init => DeletesInv
  BY DEF Init, DeletesInv, Removed, Idle
<1>2. TypeInv /\ MutualExclusion /\ DeletesInv /\ [Next]_vars => DeletesInv'
  BY DeletesStep
<1>3. TypeInv /\ DeletesInv /\ [Next]_vars =>
        [\A t \in Threads : At(t, "save") /\ th[t].cmd = "delete" /\ cfgFile' # cfgFile =>
           LET d == th[t] IN t \in crossed \/ rules[d.target][d.spec.engine] = None]_vars
  BY SavesAreCovered DEF Gone
<1> QED
  BY <1>1, <1>2, <1>3, Locked, LockInvExcludes, PTL DEF Spec, DeleteLeavesNothing

-----------------------------------------------------------------------------
(* What the scheduler skips                                                *)

\* What the scheduler's copy of the state says of a settled target is what
\* state.json says, and is in force.
Settled(x) ==
  LET fp == th[Scheduler].store[x]
  IN stateFile[x] = fp /\ rules[x][fp.spec.engine] = fp.data

\* A thread between its engine operation and the record of it.
Changing(t) == th[t].pc \in {"record", "forget"}

SettledInv ==
  /\ \A x \in Targets \ unsettled : Settled(x)
  /\ \A t \in Threads : Changing(t) => th[t].target \in unsettled
  /\ At(Scheduler, "record") =>
       rules[th[Scheduler].target][th[Scheduler].spec.engine] = th[Scheduler].data

\* A step that changes no rules and records nothing; the scheduler may load
\* the state again.
LEMMA NothingRecorded ==
  ASSUME SettledInv, UNCHANGED <<rules, stateFile, unsettled>>,
         th'[Scheduler].store \in {th[Scheduler].store, stateFile},
         \A u \in Threads : Changing(u)' => th'[u] = th[u]
  PROVE  SettledInv'
<1>1. Scheduler \in Threads
  BY DEF Threads, Daemon
<1>2. \A x \in Targets \ unsettled : Settled(x)'
  BY DEF SettledInv, Settled
<1>3. \A u \in Threads : Changing(u)' => th'[u].target \in unsettled'
  BY DEF SettledInv, Changing
<1>4. At(Scheduler, "record")' => th'[Scheduler] = th[Scheduler]
  BY <1>1 DEF At, Changing
<1> QED
  BY <1>2, <1>3, <1>4 DEF SettledInv, At

LEMMA RecordsNothing ==
  ASSUME TypeInv, NEW t \in Threads, Start(t) \/ LockFails(t) \/ Work(t),
         ~EngineApply(t), ~EngineRemove(t), ~Record(t), ~Forget(t)
  PROVE  /\ UNCHANGED <<rules, stateFile, unsettled>>
         /\ ~Changing(t)'
         /\ th'[Scheduler].store \in {th[Scheduler].store, stateFile}
<1>1. th \in [Threads -> Locals] /\ \A u \in Threads : th[u] \in Locals /\ InPhase(th[u])
  BY DEF TypeInv, TypeOK, Phases
<1>2. UNCHANGED <<rules, stateFile, unsettled>>
  BY DEF Work, Start, LockFails, Lookup, NewApplier, LockGate, LockFile, Unlock, NextTarget,
     FetchFails, AllDone, LoadHistory, SaveHistory, Edit, Save, ghosts, files
<1>3. Scheduler \in Threads
  BY DEF Threads, Daemon
<1>4. t # Scheduler => th'[Scheduler] = th[Scheduler]
  BY <1>3, OthersKeepLocals
<1>5. ~Changing(t)' /\ (t = Scheduler => th'[t].store \in {th[t].store, stateFile})
  <2> USE <1>1 DEF Goto, At, Locals, Changing
  <2>1. CASE Start(t)
    <3>1. th'[t].pc = "lookup"  BY <2>1, StartIsTyped
    <3>2. t # Scheduler  BY <2>1 DEF Start
    <3> QED  BY <3>1, <3>2
  <2>2. Rest(t).pc = "idle" /\ (t = Scheduler => Rest(t).store = th[t].store)
    BY DEF Rest, Idle
  <2>3. CASE At(t, "flock") /\ Enter(t)
    <3>1. th[t].phase \in {"apply", "uninstall", "edit"}
      BY <2>3 DEF InPhase
    <3>2. th'[t].pc \in {"next", "remove", "edit"}
      BY <2>3, <3>1 DEF Enter
    <3>3. th'[t].store = th[t].store
      BY <2>3 DEF Enter
    <3> QED  BY <3>2, <3>3
  <2>4. CASE Refuse(t)  BY <2>2, <2>4 DEF Refuse
  <2>5. CASE Lookup(t)  BY <2>2, <2>5 DEF Lookup
  <2>6. CASE NewApplier(t)  BY <2>6 DEF NewApplier
  <2>7. CASE LockGate(t)  BY <2>7 DEF LockGate
  <2>8. CASE Unlock(t)  BY <2>2, <2>8 DEF Unlock
  <2>9. CASE NextTarget(t)  BY <2>9 DEF NextTarget
  <2>10. CASE FetchFails(t)  BY <2>10 DEF FetchFails
  <2>11. CASE AllDone(t)  BY <2>11 DEF AllDone
  <2>12. CASE LoadHistory(t)  BY <2>12 DEF LoadHistory
  <2>13. CASE SaveHistory(t)  BY <2>13 DEF SaveHistory
  <2>14. CASE Edit(t)  BY <2>14 DEF Edit
  <2>15. CASE Save(t)  BY <2>15 DEF Save
  <2>16. LockFails(t) \/ LockFile(t) => (At(t, "flock") /\ Enter(t)) \/ Refuse(t)
    BY DEF LockFails, LockFile
  <2> QED
    BY <2>1, <2>3, <2>4, <2>5, <2>6, <2>7, <2>8, <2>9, <2>10, <2>11, <2>12, <2>13, <2>14, <2>15,
       <2>16 DEF Work
<1> QED
  BY <1>2, <1>4, <1>5

LEMMA SettledEngineApply ==
  ASSUME TypeInv, MutualExclusion, SettledInv, NEW t \in Threads, EngineApply(t)
  PROVE  SettledInv'
<1>1. /\ th \in [Threads -> Locals] /\ th[t] \in Locals /\ InPhase(th[t])
      /\ th[t].pc = "engine" /\ Scheduler \in Threads
      /\ rules \in [Targets -> [Engines -> Data \cup {None}]]
      /\ stateFile' = stateFile
  BY DEF TypeInv, TypeOK, Phases, EngineApply, At, files, Threads, Daemon
<1>2. th[t].target \in Targets /\ th[t].spec.engine \in Engines
  BY <1>1 DEF InPhase, Locals, Engines
<1>3. PICK pc \in {"record", "count"} : th' = [th EXCEPT ![t].pc = pc]
  BY DEF EngineApply, Goto
<1>4. /\ \A u \in Threads \ {t} : th'[u] = th[u]
      /\ th'[t] = [th[t] EXCEPT !.pc = pc]
  BY <1>1, <1>3
<1>5. /\ th'[t].target = th[t].target /\ th'[t].spec = th[t].spec /\ th'[t].data = th[t].data
      /\ th'[t].store = th[t].store
  BY <1>1, <1>4 DEF Locals
<1>6. th'[Scheduler].store = th[Scheduler].store
  BY <1>1, <1>4, <1>5
<1>7. CASE Install(t)
  <2>1. /\ unsettled' = unsettled \cup {th[t].target}
        /\ rules' = [rules EXCEPT ![th[t].target][th[t].spec.engine] = th[t].data]
    BY <1>7 DEF Install
  <2>2. ASSUME NEW x \in Targets \ unsettled' PROVE Settled(x)'
    BY <2>1, <1>1, <1>6 DEF SettledInv, Settled
  <2>3. ASSUME NEW u \in Threads, Changing(u)' PROVE th'[u].target \in unsettled'
    BY <2>1, <2>3, <1>4, <1>5 DEF SettledInv, Changing
  <2>4. ASSUME At(Scheduler, "record")'
        PROVE  rules'[th'[Scheduler].target][th'[Scheduler].spec.engine] = th'[Scheduler].data
    <3>1. CASE t = Scheduler
      BY <3>1, <2>1, <1>1, <1>2, <1>5
    <3>2. CASE t # Scheduler
      <4>1. At(Scheduler, "record")
        BY <3>2, <2>4, <1>1, <1>4 DEF At
      <4> QED
        BY <3>2, <4>1, <1>1 DEF At, MutualExclusion, InBody, Body
    <3> QED  BY <3>1, <3>2
  <2> QED  BY <2>2, <2>3, <2>4 DEF SettledInv
<1>8. CASE UNCHANGED <<rules, unsettled, crossed>> /\ Goto(t, "count")
  <2>1. th'[t].pc = "count"
    BY <1>1, <1>8 DEF Goto, Locals
  <2> QED
    BY <2>1, <1>1, <1>4, <1>6, <1>8, NothingRecorded DEF Changing
<1> QED
  BY <1>7, <1>8 DEF EngineApply

LEMMA SettledEngineRemove ==
  ASSUME TypeInv, MutualExclusion, SettledInv, NEW t \in Threads, EngineRemove(t)
  PROVE  SettledInv'
<1>1. /\ th \in [Threads -> Locals] /\ th[t] \in Locals
      /\ th[t].pc = "remove" /\ Scheduler \in Threads
      /\ rules \in [Targets -> [Engines -> Data \cup {None}]]
      /\ stateFile' = stateFile
  BY DEF TypeInv, TypeOK, EngineRemove, At, files, Threads, Daemon
<1>2. PICK pc \in {"forget", "unlock"}, ok \in BOOLEAN :
        th' = [th EXCEPT ![t].ok = ok, ![t].pc = pc]
  <2>1. th[t] = [th[t] EXCEPT !.ok = th[t].ok] /\ th[t].ok \in BOOLEAN
    BY <1>1 DEF Locals
  <2>2. Goto(t, "forget") => th' = [th EXCEPT ![t].ok = th[t].ok, ![t].pc = "forget"]
    BY <2>1, <1>1 DEF Goto
  <2> QED
    BY <2>1, <2>2 DEF EngineRemove
<1>3. /\ \A u \in Threads \ {t} : th'[u] = th[u]
      /\ th'[t] = [th[t] EXCEPT !.ok = ok, !.pc = pc]
  BY <1>1, <1>2
<1>4. th'[t].target = th[t].target /\ th'[t].store = th[t].store /\ th'[t].pc = pc
  BY <1>1, <1>3 DEF Locals
<1>5. th'[Scheduler].store = th[Scheduler].store
  BY <1>1, <1>3, <1>4
<1>6. CASE /\ rules' = [rules EXCEPT ![th[t].target][th[t].spec.engine] = None]
           /\ unsettled' = unsettled \cup {th[t].target}
  <2>1. ASSUME NEW x \in Targets \ unsettled' PROVE Settled(x)'
    BY <1>6, <1>1, <1>5 DEF SettledInv, Settled
  <2>2. ASSUME NEW u \in Threads, Changing(u)' PROVE th'[u].target \in unsettled'
    BY <2>2, <1>3, <1>4, <1>6 DEF SettledInv, Changing
  <2>3. ~At(Scheduler, "record")'
    <3>1. At(Scheduler, "record")' => t # Scheduler /\ At(Scheduler, "record")
      BY <1>1, <1>3, <1>4 DEF At
    <3> QED
      BY <3>1, <1>1 DEF At, MutualExclusion, InBody, Body
  <2> QED  BY <2>1, <2>2, <2>3 DEF SettledInv
<1>7. CASE UNCHANGED <<rules, unsettled>> /\ th' = [th EXCEPT ![t].ok = FALSE, ![t].pc = "unlock"]
  <2>1. th'[t].pc = "unlock"
    BY <1>1, <1>7 DEF Locals
  <2> QED
    BY <2>1, <1>1, <1>3, <1>5, <1>7, NothingRecorded DEF Changing
<1> QED
  BY <1>6, <1>7 DEF EngineRemove, Detach

\* Writing the whole state leaves settled what agrees with the file, and
\* settles at most what the scheduler has just installed.
LEMMA SavedStateSettles ==
  ASSUME TypeInv, MutualExclusion, SettledInv, NEW t \in Threads, Changing(t), NEW fp,
         SaveState(t, th[t].target, fp), UNCHANGED rules,
         unsettled \cup Overwritten(t) \subseteq unsettled' \cup {th[t].target},
         \/ th[t].target \in unsettled'
         \/ t = Scheduler /\ rules[th[t].target][fp.spec.engine] = fp.data
  PROVE  SettledInv'
<1> DEFINE x == th[t].target
           new == [th[t].store EXCEPT ![x] = fp]
           pc == IF fp = None THEN "unlock" ELSE "count"
<1>1. /\ th \in [Threads -> Locals] /\ th[t] \in Locals /\ Scheduler \in Threads
      /\ x \in Targets /\ th[t].store \in [Targets -> Fingerprint \cup {None}]
  BY DEF TypeInv, TypeOK, Locals, States, Threads, Daemon
<1>2. stateFile' = new /\ th' = [th EXCEPT ![t] = [@ EXCEPT !.store = new, !.pc = pc]]
  BY DEF SaveState
<1>3. new[x] = fp /\ \A y \in Targets \ {x} : new[y] = th[t].store[y]
  BY <1>1
<1>4. pc \in {"unlock", "count"}
  OBVIOUS
<1> HIDE DEF new, pc
<1>5. /\ \A u \in Threads \ {t} : th'[u] = th[u]
      /\ th'[t].store = new /\ th'[t].pc = pc
  BY <1>1, <1>2 DEF Locals
<1>6. \A u \in Threads : ~Changing(u)'
  BY <1>4, <1>5 DEF Changing, MutualExclusion, InBody, Body
<1>7. ~At(Scheduler, "record")'
  BY <1>1, <1>6 DEF At, Changing
<1>8. ASSUME NEW y \in Targets \ unsettled' PROVE Settled(y)'
  <2>1. CASE y = x
    <3>1. t = Scheduler /\ rules'[x][fp.spec.engine] = fp.data
      BY <1>8, <2>1
    <3> QED
      BY <3>1, <2>1, <1>2, <1>3, <1>5 DEF Settled
  <2>2. CASE y # x
    <3>1. y \notin unsettled /\ th[t].store[y] = stateFile[y]
      BY <1>8, <2>2 DEF Overwritten
    <3>2. stateFile'[y] = stateFile[y] /\ th'[Scheduler].store[y] = th[Scheduler].store[y]
      BY <3>1, <2>2, <1>1, <1>2, <1>3, <1>5, <1>8 DEF SettledInv, Settled
    <3> QED
      BY <3>1, <3>2, <1>8 DEF SettledInv, Settled
  <2> QED  BY <2>1, <2>2
<1> QED
  BY <1>6, <1>7, <1>8 DEF SettledInv

LEMMA SettledRecord ==
  ASSUME TypeInv, MutualExclusion, SettledInv, NEW t \in Threads, Record(t)
  PROVE  SettledInv'
<1>1. Changing(t) /\ SaveState(t, th[t].target, Wants(t)) /\ UNCHANGED rules
  BY DEF Record, Changing, At
<1>2. /\ unsettled' = (unsettled \cup Overwritten(t))
                        \ (IF t = Scheduler THEN {th[t].target} ELSE {})
      /\ th[t].target \in unsettled
  BY <1>1 DEF Record, SettledInv
<1>3. t = Scheduler => rules[th[t].target][Wants(t).spec.engine] = Wants(t).data
  BY DEF Record, SettledInv, Wants
<1> QED
  BY <1>1, <1>2, <1>3, SavedStateSettles

LEMMA SettledForget ==
  ASSUME TypeInv, MutualExclusion, SettledInv, NEW t \in Threads, Forget(t)
  PROVE  SettledInv'
<1>1. /\ th \in [Threads -> Locals] /\ th[t] \in Locals
      /\ Changing(t) /\ UNCHANGED rules /\ Scheduler \in Threads
  BY DEF Forget, Changing, At, TypeInv, TypeOK, Threads, Daemon
<1>2. CASE Goto(t, "unlock") /\ UNCHANGED <<stateFile, unsettled>>
  <2>1. /\ \A u \in Threads \ {t} : th'[u] = th[u]
        /\ th'[t].pc = "unlock" /\ th'[t].store = th[t].store
    BY <1>1, <1>2 DEF Goto, Locals
  <2> QED
    BY <2>1, <1>1, <1>2, NothingRecorded DEF Changing
<1>3. CASE SaveState(t, th[t].target, None) /\ unsettled' = unsettled \cup Overwritten(t)
  BY <1>1, <1>3, SavedStateSettles DEF SettledInv
<1> QED
  BY <1>2, <1>3 DEF Forget

LEMMA SettledThreadStep ==
  ASSUME TypeInv, MutualExclusion, SettledInv,
         NEW t \in Threads, Start(t) \/ LockFails(t) \/ Work(t)
  PROVE  SettledInv'
<1>1. CASE ~EngineApply(t) /\ ~EngineRemove(t) /\ ~Record(t) /\ ~Forget(t)
  <2>1. /\ UNCHANGED <<rules, stateFile, unsettled>> /\ ~Changing(t)'
        /\ th'[Scheduler].store \in {th[Scheduler].store, stateFile}
    BY <1>1, RecordsNothing
  <2>2. \A u \in Threads : Changing(u)' => th'[u] = th[u]
    BY <2>1, OthersKeepLocals
  <2> QED
    BY <2>1, <2>2, NothingRecorded
<1> QED
  BY <1>1, SettledEngineApply, SettledEngineRemove, SettledRecord, SettledForget

LEMMA SettledStep ==
  ASSUME TypeInv, MutualExclusion, SettledInv, [Next]_vars
  PROVE  SettledInv'
<1>1. Scheduler \in Threads /\ th \in [Threads -> Locals] /\ th[Scheduler] \in Locals
  BY DEF Threads, Daemon, TypeInv, TypeOK
<1>2. CASE Tick
  <2>1. /\ \A u \in Threads \ {Scheduler} : th'[u] = th[u]
        /\ th'[Scheduler].pc = "gate" /\ th'[Scheduler].store = th[Scheduler].store
        /\ UNCHANGED <<rules, stateFile, unsettled>>
    BY <1>1, <1>2 DEF Tick, Locals, files, ghosts
  <2> QED
    BY <2>1, NothingRecorded DEF Changing
<1>3. CASE \E t \in Threads : Start(t) \/ LockFails(t) \/ Work(t)
  BY <1>3, SettledThreadStep
<1>4. CASE ProviderChanges
  BY <1>4, NothingRecorded DEF ProviderChanges, files, ghosts
<1>5. CASE \E p \in Processes : Crash(p)
  <2>1. PICK p \in Processes : Crash(p)
    BY <1>5
  <2>2. \A u \in Threads : IF Process(u) = p THEN th'[u].pc = "idle" ELSE th'[u] = th[u]
    BY <2>1 DEF Crash, Idle
  <2>3. th'[Scheduler].store \in {th[Scheduler].store, stateFile}
    BY <2>1, <1>1 DEF Crash, Idle
  <2>4. UNCHANGED <<rules, stateFile, unsettled>>
    BY <2>1 DEF Crash, files
  <2> QED
    BY <2>2, <2>3, <2>4, NothingRecorded DEF Changing
<1>6. CASE UNCHANGED vars
  BY <1>6, NothingRecorded DEF vars, files, ghosts
<1> QED
  BY <1>2, <1>3, <1>4, <1>5, <1>6 DEF Next

\* What a step of the scheduler skips is settled, or is in nobody's care.
SkipsSettled ==
  At(Scheduler, "next") /\ th'[Scheduler].pc = "count" =>
    LET s == th'[Scheduler]
    IN s.target \in unsettled \/ rules[s.target][s.spec.engine] = s.data

LEMMA NextTargetSkipsSettled ==
  ASSUME TypeInv, SettledInv, NextTarget(Scheduler)
  PROVE  SkipsSettled
<1>1. Scheduler \in Threads /\ th \in [Threads -> Locals] /\ th[Scheduler] \in Locals
  BY DEF Threads, Daemon, TypeInv, TypeOK
<1>2. PICK w \in th[Scheduler].todo :
        th' = [th EXCEPT
          ![Scheduler].todo = @ \ {w}, ![Scheduler].target = w[1], ![Scheduler].spec = w[2],
          ![Scheduler].data = data,
          ![Scheduler].pc = IF Skips(Scheduler, w[1], [spec |-> w[2], data |-> data])
                            THEN "count" ELSE "engine"]
  BY Zenon DEF NextTarget
<1>3. /\ th'[Scheduler].target = w[1] /\ th'[Scheduler].spec = w[2]
      /\ th'[Scheduler].data = data
      /\ th'[Scheduler].pc = "count" => Skips(Scheduler, w[1], [spec |-> w[2], data |-> data])
  BY <1>1, <1>2 DEF Locals
<1>4. w[1] \in Targets
  BY <1>1 DEF Locals
<1>5. Skips(Scheduler, w[1], [spec |-> w[2], data |-> data]) =>
        w[1] \in unsettled \/ rules[w[1]][w[2].engine] = data
  BY <1>4 DEF Skips, SettledInv, Settled
<1> QED
  BY <1>3, <1>5 DEF SkipsSettled

LEMMA SkipsAreSettled ==
  ASSUME TypeInv, SettledInv, Next
  PROVE  SkipsSettled
<1>1. Scheduler \in Threads /\ th \in [Threads -> Locals] /\ th[Scheduler] \in Locals
  BY DEF Threads, Daemon, TypeInv, TypeOK
<1> SUFFICES ASSUME th[Scheduler].pc = "next", th'[Scheduler].pc = "count"
             PROVE  NextTarget(Scheduler)
  BY NextTargetSkipsSettled DEF SkipsSettled, At
<1>2. th'[Scheduler] # th[Scheduler]
  OBVIOUS
<1>3. ~Tick /\ ~ProviderChanges
  BY <1>2 DEF Tick, ProviderChanges, At
<1>4. ~\E p \in Processes : Crash(p)
  BY <1>1, <1>2 DEF Crash, Idle
<1>5. PICK t \in Threads : Start(t) \/ LockFails(t) \/ Work(t)
  BY <1>3, <1>4 DEF Next
<1>6. t = Scheduler
  BY <1>1, <1>2, <1>5, OthersKeepLocals
<1>7. ~FetchFails(t) /\ ~AllDone(t)
  BY <1>1, <1>6 DEF FetchFails, AllDone, Goto, Locals
<1> QED
  BY <1>5, <1>6, <1>7 DEF Work, Start, LockFails, Lookup, NewApplier, LockGate, LockFile, Unlock,
     EngineApply, Record, LoadHistory, SaveHistory, EngineRemove, Forget, Edit, Save, At

\* What the scheduler skips is in force, also after a crash and a restart,
\* unless somebody has changed the target's rules or put back an older entry of
\* it since the scheduler recorded them: with any number of targets, requests
\* and processes, and under every fault, without lock_unsafe.
THEOREM SettledSkipsAreSound == ASSUME ~LockUnsafe PROVE Spec => SettledSkipIsSound
<1>1. Init => SettledInv
  BY DEF Init, SettledInv, Changing, At, Idle, Threads, Daemon
<1>2. TypeInv /\ MutualExclusion /\ SettledInv /\ [Next]_vars => SettledInv'
  BY SettledStep
<1>3. TypeInv /\ SettledInv /\ [Next]_vars =>
        [At(Scheduler, "next") /\ th'[Scheduler].pc = "count" =>
           LET s == th'[Scheduler]
           IN s.target \in unsettled \/ rules[s.target][s.spec.engine] = s.data]_vars
  BY SkipsAreSettled DEF SkipsSettled
<1> QED
  BY <1>1, <1>2, <1>3, Locked, LockInvExcludes, PTL DEF Spec, SettledSkipIsSound
=============================================================================
