--------------------------------- MODULE Timer ---------------------------------
(***************************************************************************)
(* The scheduler's clock (internal/scheduler/scheduler.go): a run when the *)
(* daemon starts, and then one at the update hour of every day, computed   *)
(* by untilNext in the machine's local time.  Time counts in hours, and    *)
(* the zone may change its offset once.                                    *)
(***************************************************************************)
EXTENDS Integers, FiniteSets

CONSTANTS
  UpdateHours, \* the update_hour settings to look at
  Zones,       \* [at, before, after]: the offset changes at an instant
  Starts,      \* instants at which the daemon may be started
  MaxRun,      \* bound on the hours that a run takes
  Horizon      \* bound on the clock

TimerAssumption ==
  /\ UpdateHours \subseteq 0 .. 23 /\ Starts \subseteq 0 .. Horizon
  /\ Zones \subseteq [at : Nat, before : Int, after : Int]
  /\ MaxRun \in Nat /\ Horizon \in Nat

VARIABLES
  now,       \* the instant
  hour, zone,
  running,   \* a run is in progress
  since,     \* the instant when the run, or the sleep, began
  wake       \* the instant when the timer fires

timerVars == <<now, hour, zone, running, since, wake>>

Offset(t) == IF t < zone.at THEN zone.before ELSE zone.after
Local(t) == t + Offset(t)
Midnight(t) == (Local(t) \div 24) * 24

TimerTypeOK ==
  /\ now \in 0 .. Horizon /\ since \in 0 .. Horizon
  /\ hour \in UpdateHours /\ zone \in Zones
  /\ running \in BOOLEAN /\ wake \in Nat

TimerInit ==
  /\ now \in Starts /\ since = now
  /\ hour \in UpdateHours /\ zone \in Zones
  /\ running = TRUE /\ wake = now

\* time.Date: the instants with this local time.  One that a change of the
\* offset skips is taken with either offset.
Instants(local) ==
  LET either == {local - zone.before, local - zone.after}
      exact == {t \in either : Local(t) = local}
  IN IF exact = {} THEN either ELSE exact

\* Mutant: the update hour itself still counts as ahead.
UntilNextOrNow(t) ==
  {IF i >= t THEN i ELSE i + 24 : i \in Instants(Midnight(t) + hour)}

\* Mutant: always tomorrow.
UntilTomorrow(t) == {i + 24 : i \in Instants(Midnight(t) + hour)}

\* Today's update hour if it is ahead, otherwise 24 hours later.
UntilNext(t) ==
  {IF i > t THEN i ELSE i + 24 : i \in Instants(Midnight(t) + hour)}

\* A run ends; the daemon sleeps until the next one.
Sleep ==
  /\ running /\ running' = FALSE
  /\ since' = now
  /\ wake' \in UntilNext(now)
  /\ UNCHANGED <<now, hour, zone>>

Fire ==
  /\ ~running /\ now = wake /\ running' = TRUE
  /\ since' = now
  /\ UNCHANGED <<now, hour, zone, wake>>

Pass ==
  /\ now < Horizon /\ now' = now + 1
  /\ IF running THEN now - since < MaxRun ELSE now < wake
  /\ UNCHANGED <<hour, zone, running, since, wake>>

TimerNext == Sleep \/ Fire \/ Pass

TimerSpec == TimerInit /\ [][TimerNext]_timerVars

-----------------------------------------------------------------------------
(* Properties                                                              *)

\* "daily at cfg.UpdateHour": the daemon sleeps until the first instant with
\* that local hour, unless the zone's offset changes on the day when it goes
\* to sleep or on the next.
SleepsToTheHour ==
  ~running /\ zone.at - (Midnight(since) - Offset(since)) \notin 0 .. 48 =>
    /\ Local(wake) % 24 = hour
    /\ \A t \in since + 1 .. wake - 1 : Local(t) % 24 # hour

\* At a change of the offset too, the daemon does not run twice without a
\* pause and does not wait for long: it sleeps for at least one hour and for
\* no more than a day and the hour of the change (with hour 23, the run of a
\* day of 23 hours slips to 00:00).  Not with an update hour of 0 on a day of
\* 25 hours.
SleepsADayAtMost ==
  ~running /\ ~(hour = 0 /\ zone.at \in since - 24 .. since /\ zone.after < zone.before) =>
    wake - since \in 1 .. 25

\* "strictly future": the next run is later than now.
StrictlyFuture == ~running => wake > since
=============================================================================
