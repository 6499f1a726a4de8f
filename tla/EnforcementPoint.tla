-------------------------- MODULE EnforcementPoint --------------------------
(***************************************************************************)
(* What an engine promises to its caller, abstractly: the server enforces  *)
(* one policy at a time; an operation switches it to the wanted policy in  *)
(* one step or leaves it alone, and its report tells which.                *)
(* The contract of Engine.Apply and Engine.Remove, internal/engine/        *)
(* engine.go; SafeApply is shown to implement it.                          *)
(***************************************************************************)
CONSTANTS Policies, Off

VARIABLES
  enforced,  \* the policy the server enforces
  wanted,    \* the policy of the last request
  phase,     \* "idle", "asked": requested, "done": in force, not yet reported
  report     \* "none", "ok" or "failed"

vars == <<enforced, wanted, phase, report>>

Init == /\ enforced = Off
        /\ wanted = Off
        /\ phase = "idle"
        /\ report = "none"

Ask == /\ phase = "idle"
       /\ wanted' \in Policies \cup {Off}
       /\ phase' = "asked"
       /\ report' = "none"
       /\ UNCHANGED enforced

\* The policy changes, at the same time as the report or before it.
Switch == /\ phase = "asked"
          /\ enforced' = wanted
          /\ \/ phase' = "done" /\ UNCHANGED report
             \/ phase' = "idle" /\ report' = "ok"
          /\ UNCHANGED wanted

\* Success is reported only for the policy in force.
Acknowledge == /\ phase \in {"asked", "done"}
               /\ enforced = wanted
               /\ phase' = "idle"
               /\ report' = "ok"
               /\ UNCHANGED <<enforced, wanted>>

\* A failure is reported only if the request had no effect.
Fail == /\ phase = "asked"
        /\ phase' = "idle"
        /\ report' = "failed"
        /\ UNCHANGED <<enforced, wanted>>

\* A dry run reports, and does nothing else.
Preview == /\ phase = "idle"
           /\ report' \in {"none", "failed"}
           /\ UNCHANGED <<enforced, wanted, phase>>

Next == Ask \/ Switch \/ Acknowledge \/ Fail \/ Preview

Spec == Init /\ [][Next]_vars
=============================================================================
