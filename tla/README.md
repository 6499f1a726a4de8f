# Verification of ip-watch

ip-watch fetches the address ranges of service providers and keeps the servers
of one machine (nginx, caddy, apache, haproxy, nftables, iptables, ufw; native or
in docker containers) restricted to them. This directory holds TLA+ models of the
parts that change state, the TLC configurations that check them, and proofs that
TLAPS checks. Paths below are relative to the repository.

Contents: [the system](#the-system) · [modules](#modules) · [runs](#runs) ·
[bounds](#bounds) · [fairness](#fairness) · [what is proved](#what-is-proved) ·
[disagreements](#disagreements-between-code-and-documentation) ·
[what is not modelled](#what-is-not-modelled) · [plan](#plan)

## The system

| component | source | state it keeps | operations |
|---|---|---|---|
| safe apply of config engines | `internal/engine/configapply.go` | managed file, engine's configuration file, what the server loaded | `applyConfig`, `removeConfig`, `dryRunConfig` |
| block editing | `internal/engine/blockedit.go`, `internal/nginx/inject.go` | none | `stripManaged`, `injectAfterHeader`, `Inject`, `Strip` |
| engine adapters | `internal/engine/{nginx,caddy,apache,haproxy}.go` | none | detect, plan, check, reload |
| transports | `internal/transport`, `internal/docker` | none | read, write, stat, remove, run |
| nftables engine | `internal/engine/firewall.go` | kernel table, `<id>.nft`, staging file | Apply, Remove |
| iptables engine | `internal/engine/{iptables,scriptfw}.go` | ipsets, chains, jumps | Apply, Remove, as shell scripts |
| ufw engine | `internal/engine/ufw.go` | numbered rules | Apply, Remove, as shell scripts |
| applier and locks | `internal/applier/applier.go` | gate (mutex), `.lock` | ApplyAll, Apply, Remove, GuardConfig |
| state store | `internal/state/state.go` | `state.json`, one map per Applier | Load, Get, Record, Forget |
| history | `internal/history/history.go` | `history.json` | Record |
| configuration | `internal/config` | `config.json`, one copy per process | Load, Validate, Upsert/Remove, Save |
| scheduler | `internal/scheduler/scheduler.go` | its one Applier, the timer | forced first run, daily runs |
| web server | `internal/web/web.go` | the daemon's configuration | handlers that apply, uninstall, delete, edit |
| command line | `cmd/ip-watch/main.go` | a process of its own per command | serve, apply, add, remove, rm |
| fetcher | `internal/fetcher/fetcher.go` | none | fetch, merge, hash |
| provider catalog | `internal/provider/provider.go` | a cached list | List |
| notifications | `internal/notify` | none | one request |

**How they interact.** `serve` starts one daemon process: the scheduler goroutine
with an Applier it keeps, and the web handlers, which make an Applier per request.
All of them share one `*config.Config` and one mutex, the *gate*. A CLI command is
another process with a configuration and an Applier of its own. What changes
servers or files runs under the gate and then under an advisory lock on `.lock`.
The Applier takes a target's settings from the configuration, the ranges from the
fetcher, decides from `state.json` whether anything is to be done, calls the
engine, and records the result in `state.json` and `history.json`. A configuration
engine edits its block in a file it shares with the operator and with other targets,
stages two files, runs the server's own checker, reloads, and undoes the files if
either fails; a firewall engine loads a ruleset or runs a script.

**What is hard.** Several threads of several processes; copies of state made
before a lock is taken, or kept for the life of the daemon; sequences of file
operations, commands and reloads that can fail, be cancelled, or die at every
step, on a server that others reload too; an undo that may itself fail; "nothing
to do" decided from a note about the past; text and rules shared with others and
found again by their look; data that is published while it is read; local time.
`PROJECT.json` lists each such hazard at its line and the properties aimed at it.

**What makes each component correct.**

- *Safe apply*: a change reaches the server only if its checker accepts it; the
  marked block never refers to a file that is gone; a failure leaves both files
  as they were; success means the policy is in force; repeating converges.
- *Block editing*: the operator's lines survive every sequence of applies and
  removals by any targets; each block stands once, where its selector says; an
  unchanged apply changes no line.
- *nftables*: a failed load leaves the old table or the new one; a no-op is true;
  a forced apply re-asserts.
- *iptables*: scripts are not atomic, so the next one must converge from whatever
  the last one left; a set that rules use is never partly filled; a removal
  detaches everything.
- *ufw*: a list shared with other targets and the operator converges to the
  target's rules, and theirs are spared; an allow list restricts.
- *Applier, state, history, configuration*: critical sections do not overlap; a
  skipped target is in force; no recorded run and no acknowledged edit is lost;
  no rules of a deleted target; nothing enforced from an invalid configuration;
  everybody who asks for the lock is served or refused.
- *Fetcher, catalog, scheduler*: no partial list is enforced; equal ranges have
  equal hashes; a cached list is of bounded age and survives failures; a run every
  day at its hour.

## Modules

| module | models | composed with |
|---|---|---|
| `EnforcementPoint` | the contract of an engine: an atomic switch of policy and a truthful report | implemented by `SafeApply` |
| `SafeApply` | one target of a configuration engine, call by call | its operations are single steps in `Applier` |
| `BlockEdit`, `NginxEdit` | the edits of the configuration files, on lines of words | used by `ConfFile` |
| `ConfFile` | one configuration file that several targets share | one edit is one value in `SafeApply` |
| `Nftables`, `IPTables`, `UFW` | the firewall engines, call by call or command by command | their operations are single steps in `Applier` |
| `Applier` | threads, processes, locks, and the shared files | a fetch is one step; `Fetcher` has its calls |
| `Fetcher` | one fetch of several providers while the source publishes | |
| `Catalog` | the cache of the list of providers under concurrent requests | |
| `Timer` | when the scheduler runs | |
| `MCApplier`, `MCConfFile`, `MCFirewalls`, `MCUpstream` | instances for TLC | `MCFirewalls` extends the three firewalls, `MCUpstream` composes the last three |
| `SafeApplyProofs`, `ConfFileProofs`, `IPTablesProofs`, `UFWProofs`, `ApplierProofs`, `FetcherProofs` | theorems of one component | extend it |
| `FirewallsProofs`, `UpstreamProofs` | theorems of `Nftables`, of `Catalog` and `Timer`, and of the compositions | extend `MCFirewalls`, `MCUpstream` |

**SafeApply.** `managed` and `conf` are the two files, `live` what the server last
loaded. A configuration file is a block (or none) and the operator's own part;
`Inject` and `Strip` change the block only. `pc` names the next call of
`applyConfig` or `removeConfig`, so every file operation, check and reload is an
action and everything in the environment can come between two of them. `job` holds
the input and the locals (`prior`, `orig`). `Change`, `Put`, `Checks` and `Reloads`
give the ways a call can end: done, failed, torn half way, or done and reported as
failed (a reload; on docker, whose answer can get lost, a file operation too). On the docker transport file operations obey the request's context; on the
local one only commands do (`FilesDead`, `internal/docker/transport.go`). `before`
and `faults` are history variables, and so is `doubt`: `"files"` once a file
operation failed or was answered wrongly, `"server"` once the server may run
something that no operation put there. Properties that need trust in the past ask
for its absence instead of a bound on the faults.

**EnforcementPoint.** `wanted`, `enforced`, a phase and the report. `Switch` puts
the wanted policy into force in one step; `Fail` is only possible when it had no
effect. `SafeApply!EP` is the refinement mapping.

**BlockEdit, NginxEdit, ConfFile.** A file is a sequence of lines, a line its words
and whether it is indented: all that the matchers of the code look at. `Strip` is
`stripManaged`; `InjectAfterHeader`, `CaddyInject`, `ApacheInject` and
`HaproxyInject` are the plans' functions with the matchers of each engine.
`NginxEdit` scans one sequence of tokens over comments and quotes, counts braces and
chooses a server by its `server_name`. `ConfFile` keeps the operator's file (`own`),
the file as it is, each target's settings, and what is installed; any target is
applied or removed in any order, and `LoseMarker` is an operator who deletes a closing
marker. What the properties expect of a file is not computed by the code's own
matchers: a layout carries, from how it was put together, where each selector's
block opens (`opens`).

**Nftables.** `kernel`, `file` and `staged` are the table, the rules file and the
staging file. `noted` is a history variable: the rules file was written after the
last change of the table. `DropTables` is a reboot or a flush.

**IPTables.** `ApplyScript(p)` and `RemoveScript` render the commands that the Go
code renders; one command is one step on sets, chains and jumps. `Tolerated` are the
commands followed by `|| true`; another one that fails ends the script. `ignored` is
a history variable: a script went on after a command failed that could have
succeeded.

**UFW.** `rules` is the numbered list of the machine, with the operator's rules in it.
`Find` and `Delete` are the halves of the delete loop: `num` is the shell's `n`, and
between them the operator may renumber the list. `Hits` says which tags a grep for a
target's tag finds. `Added` is what ufw does with a second rule for a source: it
replaces the first, tag included. `blind` (the loop was told "no rules" while there were
some) and `meddled` (what the operator changed since it was read) are history variables.

**Applier.** `cfgFile`, `stateFile`, `history` are the files; `mem` each process's
configuration; `gate` and `flock` the locks; `th` each thread's program counter and
locals, among them the copy of the state map its Applier loaded (`store`). The steps
of a command follow the code: look up the target (a CLI from its own load of the
file, a handler from the shared copy), load the state, take the gate, take the file
lock, then per target decide, call the engine, record, count. A read and the write
that depends on it are separate steps where other processes could come between
them. The ghosts `runs` and `edits` say what the recorded runs and acknowledged
edits add up to; `unsettled`, whose rules changed since the scheduler recorded them or whose
entry in the state somebody has put back to an older one (`Overwritten`: every record
writes the whole map as its Applier loaded it); and `crossed`, which delete had its target
applied between its halves.

**Fetcher.** `unread` are the lists still to be requested, one action each, with
`Publish` in between; `Parse`, `Refuse`, `Merge` and `WithExtra` are the functions of
the same purpose, on lines that are ranges or bad. `outcome` holds what the hash
covers, so that equal hashes are equal outcomes. `served` is the history of what was
there during the fetch.

**Catalog.** `List` with the mutex held twice and the fetch in between: `Serve` is the
source's answer, `Store` the second critical section, so that answers overtake one
another. A version of the list is a number; `replaced` says when the source stopped
serving it.

**Timer.** Time counts in hours; a zone has an offset before and after one instant.
`UntilNext` is `untilNext`; `Instants` is what `time.Date` may return for a local time
that a change skips or repeats.

## Runs

Passing:

| run | asks | shows |
|---|---|---|
| `SafeApplyAllFaults` | `TypeOK`, `ForwardReloadsAccepted`, `IncludeNeverDangles`, `RemoveSuccessUndoes` | every fault at once, on docker, with an operator who edits, deletes and reloads: no change reaches the server unchecked; the block never dangles and a removal leaves nothing, until files or server are in doubt |
| `SafeApplyRollback` | `ReloadsAccepted`, `FailureRestoresFiles`, `ApplySuccessEnforces`, `RepeatedApplyConverges`, `ImplementsEnforcementPoint` | with reliable file operations the sequence is an atomic switch that reports the truth and converges |
| `ConfFileEdits` | `TypeOK`, `OwnLinesKept`, `BlocksInPlace`, `RangesTrusted`, `ReapplyIsNoop`, `RefusalsJustified` | two targets in one file of any of the four engines, with look-alikes of blocks in it |
| `Firewalls` | `FirewallsTypeOK`, `NoFalseNoop`, `AllOrNothing`, `ForcedReasserts`, `SetsAreWhole`, `ApplyConverges`, `RemoveDetaches`, `UfwConverges`, `UfwRestricts`, `UfwSparesOthers` | the three firewalls, each with every fault: lost tables, half-run scripts, failing commands, an operator at work |
| `ApplierLock` | `MutualExclusion`, `HistoryComplete`, `EnforcesOnlyValid` | scheduler, handler and CLI; valid and invalid settings; crashes; failing engines, fetches, saves and lock file |
| `ApplierDaemon` | `TypeOK`, `SettledSkipIsSound`, `DeleteLeavesNothing` | one daemon with its scheduler and a handler that applies and deletes two targets, a provider whose data goes forth and back, crashes |
| `ApplierRequests` | `RequestsEnd`, `NoLostEdit` | two handlers that edit two targets and a CLI that uninstalls: all are served or refused, and the edits add up |
| `Upstream` | `UpstreamTypeOK`, `NeverPartial`, `SameRangesSameHash`, `BoundedStaleness`, `LastGoodServed`, `SleepsToTheHour`, `SleepsADayAtMost` | a source that publishes during a fetch, requests that overtake one another, changes of the zone's offset |

Violated, each a disagreement between code and documentation (below):
`SafeApplyCrashNoop`, `ApplierStaleSkip`, `ConfFileCaddy`, `TimerMidnight`.

In `Firewalls` and `Upstream` the initial state chooses the component that the
behaviour is about and the others stand still, so one run holds independent state
spaces side by side.

Every property of a passing run has a mutant: a definition of the module with a
plausible slip (named `...ByMarker`, `...Forgotten`, `...InPlace` and so on, next to
the definition it replaces) under which TLC finds the property violated.

### Which faults each claim allows

The claims hold under different faults, and the difference is the result.

- `ForwardReloadsAccepted` needs nothing.
- `IncludeNeverDangles` needs file operations that told the truth so far.
- `RemoveSuccessUndoes` needs the same, local files (or a context that lasts), and that
  nobody else reloaded or deleted: a reload by somebody else while a change is staged
  makes it live, and the rollback of a failed check restores the files without a reload.
- `FailureRestoresFiles` needs local files (or a context that lasts) and reliable file
  operations; crashes and other reloads do not matter. `ReloadsAccepted` needs, besides,
  that nothing crashes; `ApplySuccessEnforces`, `RepeatedApplyConverges` and
  `ImplementsEnforcementPoint`, besides, that no reload takes effect and is reported as
  failed and that the operator only edits.
- `SettledSkipIsSound` needs that nobody else changed the target's rules or put back an older
  entry of it with a record of his own.
  `NoLostEdit` needs that no CLI process edits and that saves succeed.
  `DeleteLeavesNothing` allows everything but an apply between its halves, and speaks of
  the engine that the delete was asked for.
- `NoFalseNoop` is stated for tables that did not change without a note in the rules
  file; `RemoveDetaches` for scripts that did not go on after an ignored failure.
- `UfwConverges` needs a ufw that lists its rules and an operator who leaves the target's
  alone, `UfwRestricts` defaults that stay as they were read, `UfwSparesOthers` numbers that
  stay, tags that do not begin with one another, and sources that are not shared.
- `OwnLinesKept` and the other properties of `ConfFile` need their closing markers;
  `BlocksInPlace` also that caddy's first block is a site when no selector is given. What
  `AppliedBlockStands` says follows from `BlocksInPlace` where that holds; `ConfFileCaddy` is
  the case where it does not.
- `SleepsToTheHour` needs that the offset does not change on the day when the daemon goes
  to sleep or the next; `SleepsADayAtMost` only excludes update hour 0 on a day of 25 hours.

## Bounds

Each bound is a constant of the configuration or of the MC module.

- *SafeApply*: two payloads, one refused by the checker (three in `SafeApplyRollback`,
  so that a policy can replace another); one block; three operator's
  parts (good, refused by the checker, without a place for the block);
  `MaxFaults` 2 or 3: one to fail the operation, one to fail its undo and one to fail the
  next operation. Update, no-op, first install and removal all occur, and an earlier
  payload can be told from the wanted one.
- *ConfFile*: every file of one or two parts out of those that the engine's matcher
  must tell apart (blocks with the name, with another name, with both; comments,
  strings and directives that look like a block; for caddy three kinds of global options).
  Two targets, each with any of the settings in `AllSettings` (no selector or one of two;
  `real_ip` where it changes the file, but not with caddy's empty selector, which is
  `ConfFileCaddy`), one or two versions. An edit looks at one key, one selector and the first
  match, so two targets and two parts give every order of "mine, other, operator's". `MaxLines` bounds apache's files only, which grow by blank lines.
- *Nftables*: two good rulesets and a bad one, three faults: enough to lose a load,
  its note and the next attempt.
- *IPTables*: lists that overlap, so that a partly filled set and a set left over
  from another list are none of the lists; up to two faults; at most two jumps
  (`MaxJumps`). Allow mode is met with a full and with an empty family; `Steady` keeps
  each family in deny mode non-empty (see the disagreements for the other case).
- *UFW*: two targets of which one's tag begins with the other's, one allow list and one
  deny list that share a source, at most one rule of the operator at the start and two
  faults or commands of his: enough for a rule of every owner before, between and after.
- *Applier*: two targets where the state maps of two Appliers, or edits, can overwrite each
  other, otherwise one; one engine (the theorems are about any number); two data values where
  data goes forth and back; a scheduler, one or two handlers, one CLI. `Ticking = FALSE` leaves out scheduled runs. Two contenders in one
  process and one in another exercise gate and file lock separately. The history
  counter is kept modulo `Wrap = 2`: a lost run changes its parity (`Wrap = 1` where the history
  is not asked about). Where `HistoryComplete` is checked at most one run can be lost between two steps, so
  parity is enough.
- *Fetcher*: two providers, files with one or two lines, bad and repeated ones, in both
  orders, and missing ones; two publications, one per provider or two of one.
- *Catalog*: two requests, a TTL of two and a fetch of one unit of time, two
  replacements: a slow answer overtaken by a newer one, and an entry that ages past its
  TTL. *Timer*: a start in any hour of two days, the update hours at and near midnight and
  at noon, zones that change in spring, in autumn, and not at all, on both sides of UTC,
  for four days.
- Deadlock is checked in every run but `Upstream` and `TimerMidnight`, where the bounded
  clocks come to their end; elsewhere the system can always start another operation.

## Fairness

- `SafeApply!FairSpec`: weak fairness of starting an apply and of the running
  operation's next call. The scheduler asks every day, and every call of the sequence
  returns or is ended. Faults are bounded, so convergence is claimed for finitely many
  failures, once one policy is asked for on a configuration that can hold it
  (`Settled`).
- `Applier!FairSpec`: weak fairness of a running command's next step; strong fairness
  of taking a lock, as Go's mutex hands over to a starving waiter and the kernel
  queues lock waiters. No fairness is assumed of failures (`LockFails` is outside
  `Work`), crashes, ticks or user commands. It is an assumption that an engine
  command returns: the CLI and the scheduler run under a background context without
  a time limit of their own.

## What is proved

For every value of the constants that satisfies the modules' assumptions, so for any
number of payloads, faults, threads, processes, targets, requests and hours:

| module | theorem | states | if, besides |
|---|---|---|---|
| `SafeApplyProofs` | `TypeCorrect` | `TypeOK` | |
| | `ChangesAreChecked` | `ForwardReloadsAccepted` | |
| | `IncludeIsSafe` | `IncludeNeverDangles` | |
| | `RemovalsUndo` | `RemoveSuccessUndoes` | |
| | `FailuresRestore` | `FailureRestoresFiles` | `Reliable` |
| | `PriorIsKnownGood` | `ReloadsAccepted` | `Reliable`, `NoCrash` |
| | `SuccessIsEnforced` | `ApplySuccessEnforces` | `Switching` |
| | `SequenceIsASwitch` | `ImplementsEnforcementPoint` | `Switching` |
| `ConfFileProofs` | `OwnLinesStay` | `OwnLinesKept` | |
| | `ReapplyStaysNoop` | `ReapplyIsNoop` | the engine is not caddy, or the target is without `real_ip` |
| `FirewallsProofs` | `NftTypeCorrect` | `Nftables!TypeOK` | |
| | `ForcedApplyReasserts` | `ForcedReasserts` | |
| | `NoopIsTrue` | `NoFalseNoop` | |
| | `KernelIsAllOrNothing` | `AllOrNothing` | |
| | `FirewallsTypeCorrect` | `FirewallsTypeOK` of the composition | |
| `IPTablesProofs` | `IptTypeCorrect` | `IptTypeOK` | |
| | `IptSetsAreWhole` | `SetsAreWhole` | |
| | `IptRemoveDetaches` | `RemoveDetaches` | |
| | `IptEmittedConverges` | `ApplyConverges`, per family the script emits commands for | |
| | `IptApplyConverges` | `ApplyConverges` | every policy's script reaches both families |
| `UFWProofs` | `UfwTypeCorrect` | `UfwTypeOK` | |
| | `UfwScriptsConverge` | `UfwConverges` | |
| | `UfwAllowRestricts` | `UfwRestricts` | |
| | `UfwSparesTheOthers` | `UfwSparesOthers` | |
| `ApplierProofs` | `TypeCorrect` | `TypeOK` | |
| | `LocksExclude` | `MutualExclusion` | the file lock is used |
| | `GateExcludes` | the same within one process | |
| | `HistoryIsComplete` | `HistoryComplete` | the file lock is used |
| | `NothingInvalidIsEnforced` | `EnforcesOnlyValid` | |
| | `EditsAddUp` | `NoLostEdit` | no CLI edits, saves succeed |
| | `DeletesLeaveNothing` | `DeleteLeavesNothing` | the file lock is used |
| | `SettledSkipsAreSound` | `SettledSkipIsSound` | the file lock is used |
| `FetcherProofs` | `WholeFilesOnly` | `NeverPartial` | |
| | `HashOfTheRanges` | `SameRangesSameHash` | |
| `UpstreamProofs` | `AnswersAreRecent` | `BoundedStaleness` | |
| | `ListIsNeverLost` | `LastGoodServed` | |
| | `RunsAtTheHour` | `SleepsToTheHour` | offsets change by an hour at most |
| | `SleepIsBounded` | `SleepsADayAtMost` | the same |
| | `UpstreamTypeCorrect` | `UpstreamTypeOK` of the composition | the same |

`Reliable`: a local transport on which no write fails or tears and no stat or read lies.
`Switching`: `Reliable`, no crash, no reload that takes effect and is reported as failed,
and an operator who edits only. The same conditions as in the runs, where dropping one
gives a counterexample (next section).

Each proof is three facts (initially, inductive, implies the property) with one case
per action. What had to be added to the property, and why:

- *Types.* `SafeApply!TypeOK` is not inductive: `WriteConf` reads `job.orig`, which must be
  a file by then (`OrigRead`). `Applier!TypeOK` needs `Phases`: which steps belong to
  which half of which command, as a delete goes through two.
- *`IncludeIsSafe`.* `IncludeInv` adds, per program counter, what the locals know of the
  files: the managed file exists while a change is staged (`Staged`), an absent prior
  means that no block referred to it (`PriorSeen`, `FreshConf`), the configuration is
  restored before the managed file (`ConfRestored`), the block is out before the managed
  file goes (`StrippedOut`, `DropSafe`), and an undo of a removal finds the file still
  there (`Undoable`).
- *`RemovalsUndo`.* While there is no doubt, a server that enforces a policy has its
  managed file (`LiveHasFile`): this is why a removal that finds neither file nor block
  may answer "already removed"; `NothingBefore` and `LetGo` say it in the middle of one.
- *`FailuresRestore`.* `UndoInv`: what the operation found is what its locals hold
  (`PriorKnown`, `OrigKnown`), and each file is either untouched, staged, or restored
  (`Untouched`, `ManagedKept`, `ConfKept`, `StagedOnly`).
- *`PriorIsKnownGood`.* `GoodInv`: a block that an operation finds refers to a managed file
  with ranges the checker accepts (`FoundGood`), the operator's part that a failed reload puts
  back was accepted by the check before it (`RestGood`), and the managed file only goes when no
  block refers to it (`Unreferenced`).
- *`SuccessIsEnforced`, `SequenceIsASwitch`.* `LiveInv`: between operations the server
  runs what the files say, and during one what they said when it began, up to the reload
  (`LiveKnown`, `OpKnown`). The refinement is a step simulation: the reload is `Switch`, nothing
  to do is `Acknowledge`, a reported failure `Fail`, a dry run `Preview`, and the steps in between stutter.
- *`ConfFile`.* `FileInv`: while no operator has broken a block, every key has one whole block or
  none, no two blocks cross (`Nested`), what is outside of them is the operator's text, and a target
  that is not installed has none. Without `Nested` a removal could take a line of somebody else's.
  An edit is a block cut out (`StripBlock`: from its opening marker to its closing one, and nothing
  else) and a block put in (`PutEdits`, wherever the engine's matcher says), and both keep the
  operator's lines (`CutOwn`, `BlockEdits`); one lemma per engine says that its edit is of this kind
  (`NginxEdits` ... `HaproxyEdits`). `ReapplyIsNoop` follows as every engine looks for the place in
  the file without its block (`HeaderAgain`, `AppendAgain`). The functions that scan lines and
  tokens are defined by recursion; what is needed of them is proved from the least place where it
  would fail (`Least`, `LinesGrow`, `BlocksAre`) instead of by induction.
- *`Nftables`.* `HandedOn`: what is staged is what was asked for until the load, and what is
  loaded until it is noted. `NoteHolds`: a note written after the last change of the table is
  the table. `KernelKept`: before the load the table is the one the operation found.
- *`IPTables`.* What holds of a half-run script depends on the commands that are left, so the
  invariant is about those. `ScriptInv`: they are commands of the running job, and those of one
  family stand in the order of `Place`, whatever the other family's are doing. `FamilyInv` says
  what each command that is no longer ahead has achieved (`Filled`, `Chained`, `Detached`): from the
  flush to the swap the temporary set is the list less the ranges still to add, and the other set is
  the list from then on; the chain has its rule once `append` is behind. `Whole` is what rules can
  refer to. The scripts' sequences are looked at as sets of commands (`Runs`), as the order of the
  `add` commands is of no matter.
- *The hypothesis of `IptApplyConverges`.* A deny list that is empty in a family emits nothing for
  it (`iptables.go:78`), and the earlier chain stays: a disagreement of its own (below).
  `IptEmittedConverges` has no hypothesis and says it of the families that get commands.
- *`UFW`.* The numbered list is looked at as the set of its rules: no two have the same source, so
  deleting takes one out, and a rule of the script replaces the one of its source
  (`RemoveAtTakesOne`, `AddedPutsOne`, `PrependPutsOne`). `AddedInv`: when the loop ended with its eyes
  open there was no rule of the target, and since then there are those of the policy less the ones
  still to add; the operator changes no rule of a target (`OperatorSparesTargets`). `NumberInv`: the
  number read is one of the target's until the operator changes the numbering. `DefaultsInv`: the
  default policy is as it was confirmed until he changes that.
- *`LocksExclude`.* `LockInv`: a thread past the gate owns its process's gate and, past the file
  lock, that lock too, through every unlock, refusal and crash.
- *`HistoryIsComplete`* and *`DeletesLeaveNothing`* rest on it: what a thread has read inside
  its critical section is still so when it writes.
- *`SettledSkipsAreSound`.* `SettledInv`: of a settled target the scheduler's copy of the state
  says what `state.json` says, and that is in force; a thread between its engine operation and the
  record of it works on an unsettled target; what the scheduler is about to record is in force.
  The agreement of copy and file is what carries it through a crash, after which the scheduler
  works with the file, and what a record by another Applier breaks for the entries it overwrites.
- *`EditsAddUp`.* `EditsInv`: outside a critical section memory, file and ghost agree, and a
  thread between edit and save has exactly its edit more.
- *`WholeFilesOnly`.* `AskInv`: the requests still to come are the rest of the job's, two per
  provider. `GotInv`: every request answered has left one good list, parsed from a file that was
  served since the fetch began; what the source serves now is among those. A file is requested
  once, so no list mixes two publications.
- *`HashOfTheRanges`.* `OrderInv`: a list that repeats nothing is `Ordered` of its ranges, whether
  it was parsed or merged. `Ordered` is defined by rank (the k-th line is the least that k lines do
  not exceed), so the lemmas on it (`KthExists`, `SameOrder`, `OrderOfDistinct`) need no induction
  over lists: counting the lines up to a line, and the least element of a set of numbers, are enough.
- *`Catalog`.* `FetchInv`: what a fetch brought was served since it began, a timeout ago at
  most; `CacheInv`: what is cached was served a timeout before it was stored at most, also
  when the slower answer came last.
- *`Timer`.* `SleepInv`: the timer is what `untilNext` made of the moment of going to sleep. The
  rest is arithmetic about days (`NextInstant`, `ADayAtMost`, `ToTheHour`).
- *The compositions.* `EnginesAreRun` and `PartsAreRun`: a behaviour of the composed specification
  that a run explores is one of every component, as the others stand still. So each theorem about
  a component is one about the run, and the composed types are the types of the parts.

Only model-checked: liveness (`RequestsEnd`, `RepeatedApplyConverges`), which rests on fairness
and ENABLED, out of the prover's reach; and of `ConfFile` what is inside the blocks and where they
stand (`BlocksInPlace`, `RangesTrusted`, `RefusalsJustified`, `ReapplyIsNoop` for caddy with
`real_ip`): the first takes the blocks out one after the other with a fold, and the others are about
two blocks of a target in one file, where with an empty selector one may come to stand in the other.
Its `TypeOK` holds the bound on the length of files, which is one of the runs.

The assumptions on the constants are what the code gives: lists of ranges and of the operator's
own addresses are finite, there is something to fetch, the daemon starts within the horizon, the
values that stand for "none" are no values of the domain, every target's tag contains itself, and
the operator's file has none of the marker lines that ip-watch writes when it first edits it.

## Disagreements between code and documentation

Four runs exhibit them; `PROJECT.json` quotes the lines.

- **`SafeApplyCrashNoop`**: `applyConfig` does not look at `Force`. After a crash
  between staging and reload the files are as wanted, so later applies are no-ops and
  the server keeps the old policy until somebody reloads it.
- **`ApplierStaleSkip`**: the scheduler's Applier compares with the state it loaded
  when the daemon started. After a web or CLI apply put other ranges into force, and
  the provider's list went back, the daily run skips what is not in force.
- **`ConfFileCaddy`**: with `real_ip` and without a selector the first apply puts its import into
  the first site and writes a marked global options block on top. The next one takes that block
  for the first site (`caddySiteMatcher` accepts every block at the left margin) and moves the import
  into it; then `caddyEnsureTrustedProxies` strips the block, import included, and writes a fresh one.
  The file has no import any more, caddy accepts it, the apply reports success, and further
  applies are "already up to date": the policy is gone without a message.
- **`TimerMidnight`**: with update hour 0, in the last hour of a day of 25 hours, the next run
  is not ahead of now, and the scheduler runs without a pause until midnight.

The same models show these when a configuration is changed (change the constant named
and check the property named):

| change | violates | what happens |
|---|---|---|
| `SafeApplyRollback`: add `"torn"` to `Faults` | `FailureRestoresFiles` | a write that fails half way is returned without an undo of that file |
| `SafeApplyRollback`: `Transport = "docker"` | `FailureRestoresFiles` | when the request's context ends, the restoring writes fail too and their errors are dropped |
| the same, and `Faults = {"lostWrite"}` | `FailureRestoresFiles` | a write that docker did and reported as failed is not undone; if it was the configuration's, only the managed file is undone, and the block refers to nothing |
| `SafeApplyRollback`: add `"crash"` | `ReloadsAccepted` | the "known good" files restored after a failed reload may be what a crash left staged |
| `SafeApplyRollback`: add `"lostReload"` | `RepeatedApplyConverges` | a reload that took effect and was reported as failed leaves the server on a policy that no later apply replaces |
| `ApplierRequests`: `CliCommands = {"put"}` | `NoLostEdit` | a CLI process loads `config.json` before it takes the lock and writes its whole copy back; the daemon never reloads the file |
| `ApplierRequests`: `Faults = {"save"}` | `NoLostEdit` | the daemon's copy keeps an edit whose save failed; a later save writes it out |
| `MCFirewalls`: in `Steady`, deny policies `{n1}/{n2}` and `{n1}/{}` | `ApplyConverges` | in deny mode a family whose list became empty emits no command; the earlier chain and set stay in force and the run reports success (`iptables.go:78`; `README.md:114-115` of the repository: "re-running converges to the desired state") |

A condition in a property stands for a counterexample without it: `blind`, `meddled`, shared
sources and overlapping tags in `UFW`; `ignored` in `IPTables`; `unsettled` and `crossed` in
`Applier`; `damaged` and `FirstBlockIsSite` in `ConfFile`; repeated lines in `SameRangesSameHash`.
What they mean for the program:

- *ufw.* A target's rules are found by a grep for its tag, which also finds the tags that begin
  with it. A disabled ufw lists no rules: a removal reports success and leaves them, and they are
  back when ufw is enabled. The number is read in one command and used in another. Two owners
  of a rule for one source share it: the last one's tag stays, and its removal takes the range
  from the other. Deny rules are appended after an operator's rule that allows the same sources.
- *iptables.* `|| true` hides failures that leave a second jump or a set in place. The removal does
  not destroy the temporary set that a killed script left.
- *Applier.* `Record` and `Forget` write the whole state map as it was once loaded. Within the daemon:
  a handler loads the state, the scheduler records newer ranges for one target, the handler's
  record of another puts the older entry back; the daemon restarts, the fetch or the engine fails
  in its forced first run, and the next run takes the older ranges, should the provider serve them again, for
  those in force. This takes two targets. With a second process: a scheduler's next record brings back the entry of a target that another process uninstalled, and an
  apply by a CLI process with `-skip-unchanged` then skips it. A delete removes the rules of the
  engine that the target has now, not of one it had before.
- *Configuration files.* A lost closing marker takes the rest of the file with it.
  For caddy, `real_ip` turned off leaves the global block until the uninstall. For apache, each
  append without a selector leaves a blank line. With every engine the block written last stands
  first (for appended ones: last), so two targets in one block that are applied in turn exchange places
  each time: a repeated run over the pair is never a no-op, although a repeated apply of one is
  (`ReapplyIsNoop`).
- *haproxy.* With two targets in one frontend the block written last stands first: with `real_ip`
  its `set-src` comes before the other's deny, against the comment at `haproxy.go:75`.
- *Fetcher.* A 404 is an empty list for IPv4 too, although the comment says "missing v6 file ok"; in allow
  mode that family is closed until the next run. The lines of a single provider are not
  deduplicated, so a repeated line changes the hash.
- *Scheduler.* The update hour is local time (`config.go:21`), the repository's README calls it UTC.

## What is not modelled

- `SafeApply`: backup copies, which nothing reads; the drop-in variant of the plan, which
  no engine uses; edits by the operator while an operation runs.
- `ConfFile`: indentation beyond "indented or not", line ends, the selectors' case; for nginx,
  `server` as a part of a word (`$server`) and directives that begin with `server_name`, both of
  which the code takes for the keyword; a file of several targets whose settings change between
  applies; how haproxy evaluates the order of its lines.
- `Applier`: a dry run (it takes the gate and tries the file lock, goes on without the
  latter, and changes nothing); `remove` of all targets is modelled one target at a time; settings other than targets; overrides from the environment
  (which an edit saves to `config.json`); a state file that cannot be read (the Applier then has
  no store, and change detection is off) or written; a history that cannot be written; the cap on
  recent runs; a staged script that runs on after the daemon's death; a handler that encodes the
  configuration while another edits it.
- `Nftables`: a table that is lost while an operation runs (`DropTables` needs an idle engine).
- `UFW`: an operator who replaces or deletes a target's rule; `Operator` changes his own rules,
  the defaults and whether ufw is enabled.
- `IPTables`, `UFW`: ports and protocols; names made from target ids, where `sanitize` makes one of `a-b` and `a.b`.
- `Fetcher`: sizes, redirects and time limits of a request, each of which is `RequestFails`.
- `Timer`: minutes; zones that change twice within the horizon.
- The text of rulesets and managed files, and the HTTP exchange with the docker daemon.
- Container discovery, notifications, authentication, the user interface, packaging: no state
  of the program, or static.

External code is modelled by how `internal/` uses it: the servers' checkers and reload
commands (`Accepted`, `Enforced`), `ipset`, `iptables` and `ufw` (one action per command), the
kernel's release of file locks when a process dies, truncation by `os.WriteFile`, `time.Date`,
and the data source.

## Plan

In place: the engines, the edits of the configuration files, the applier with its locks and
files, fetcher, catalog and timer; the theorems above. What is left, in order:

1. Settings of a target that change between applies in `ConfFile`, with the order in which haproxy
   evaluates the lines of two targets.
2. The state map of several processes (`state.go:62`) with a CLI that skips, names
   made from target ids, the list of recent runs.
