------------------------------- MODULE ConfFile -------------------------------
(***************************************************************************)
(* One configuration file that several targets share, as the edits of      *)
(* BlockEdit and NginxEdit change it: every apply and removal of any       *)
(* target, in any order.  How an edit gets to the disk and into the server *)
(* is module SafeApply, where one target's edit is one value.              *)
(***************************************************************************)
EXTENDS NginxEdit

CONSTANTS
  Words,      \* what lines are made of
  Targets,    \* target ids; also the keys of their blocks
  GlobalKey,  \* per target, the key of its block in caddy's global options
  Layouts,    \* operators' files: [engine, lines, opens]
  Settings,   \* per engine, what a target may set: [selector, realIp]
  Versions,   \* per engine, what can change from apply to apply in the file:
              \* haproxy's mode, the ranges that caddy trusts
  None,       \* not installed
  MaxLines    \* no file gets longer; for apache, a bound

Lines == [indented : BOOLEAN, words : Seq(Words)]

\* The words that we write, besides keys and versions.
ASSUME WordAssumption ==
  {"#", ">>>", "<<<", "{", "}", ";", "include", "import", "servers", "trusted_proxies",
   "acl", "deny-if", "forwardfor", "set-src", "Include"} \subseteq Words

\* The keys of all blocks are different.
Keys == Targets \cup {GlobalKey[t] : t \in Targets}

ASSUME KeyAssumption ==
  /\ Targets \subseteq Words /\ GlobalKey \in [Targets -> Words \ Targets]
  /\ \A t, u \in Targets : GlobalKey[t] = GlobalKey[u] => t = u

\* An operator's file has none of our markers.  opens says, from how the file
\* was made up, after which line the block of a selector opens: 0 if there is
\* none.
ASSUME LayoutAssumption ==
  /\ MaxLines \in Nat
  /\ \A layout \in Layouts :
       /\ layout.engine \in {"nginx", "caddy", "apache", "haproxy"}
       /\ layout.lines \in Seq(Lines)
       /\ \A k \in Keys, i \in DOMAIN layout.lines :
            layout.lines[i].words \notin {BeginMark(k), EndMark(k)}
       /\ Versions[layout.engine] \subseteq Words /\ None \notin Versions[layout.engine]
       /\ \A s \in Settings[layout.engine] :
            s.realIp \in BOOLEAN /\ layout.opens[s.selector] \in 0 .. Len(layout.lines)

VARIABLES
  own,        \* the operator's file
  file,       \* the file with the blocks of the targets
  settings,   \* per target
  installed,  \* per target, the version of its last successful apply
  last,       \* the last operation
  damaged     \* an operator has deleted a closing marker

vars == <<own, file, settings, installed, last, damaged>>

TypeOK ==
  /\ own \in Layouts
  /\ Len(file) <= MaxLines
  /\ settings \in [Targets -> Settings[own.engine]]
  /\ installed \in [Targets -> Versions[own.engine] \cup {None}]
  /\ last.op \in {"none", "apply", "refuse", "remove", "edit"}
  /\ damaged \in BOOLEAN

-----------------------------------------------------------------------------
\* The inject function of each engine's plan.
Inject(f, t, v) ==
  LET s == settings[t]
  IN CASE own.engine = "nginx" -> NginxInject(f, t, s.selector)
       [] own.engine = "caddy" -> CaddyInject(f, t, GlobalKey[t], s.selector, s.realIp, v)
       [] own.engine = "apache" -> ApacheInject(f, t, s.selector)
       [] own.engine = "haproxy" -> HaproxyInject(f, t, s.selector, v, s.realIp)

\* Mutant: a removal forgets the block in caddy's global options.
WithoutConfBlock(f, t) == Strip(f, t)

\* removeConfig: the block, and caddy's in the global options.
Without(f, t) ==
  IF own.engine = "caddy" THEN Strip(Strip(f, t), GlobalKey[t]) ELSE Strip(f, t)

Init ==
  /\ own \in Layouts
  /\ settings \in [Targets -> Settings[own.engine]]
  /\ file = own.lines
  /\ installed = [t \in Targets |-> None]
  /\ last = [op |-> "none"]
  /\ damaged = FALSE

\* apache's appended blocks leave blank lines behind, without end.
Install(t, v) ==
  LET new == Inject(file, t, v)
  IN /\ own.engine = "apache" => Len(new) <= MaxLines
     /\ IF new = NoBlockFound
        THEN /\ last' = [op |-> "refuse", target |-> t, version |-> v]
             /\ UNCHANGED <<file, installed>>
        ELSE /\ last' = [op |-> "apply", target |-> t, version |-> v]
             /\ file' = new
             /\ installed' = [installed EXCEPT ![t] = v]
  /\ UNCHANGED <<own, settings, damaged>>

Uninstall(t) ==
  /\ file' = Without(file, t)
  /\ installed' = [installed EXCEPT ![t] = None]
  /\ last' = [op |-> "remove", target |-> t]
  /\ UNCHANGED <<own, settings, damaged>>

\* The operator deletes a line that he should have left alone.
LoseMarker(t) ==
  LET marks == {i \in DOMAIN file : file[i].words = EndMark(t)}
  IN /\ marks # {} /\ ~damaged
     /\ file' = LinesAt(file, DOMAIN file \ marks)
  /\ damaged' = TRUE
  /\ last' = [op |-> "edit"]
  /\ UNCHANGED <<own, settings, installed>>

Next == \E t \in Targets :
          \/ \E v \in Versions[own.engine] : Install(t, v)
          \/ Uninstall(t)
          \/ LoseMarker(t)

Spec == Init /\ [][Next]_vars

-----------------------------------------------------------------------------
(* Properties                                                              *)

Text(f) == LinesAt(f, {i \in DOMAIN f : f[i] # Blank})

\* The lines that say something and are in no block of ours.
OwnAt(f) ==
  {i \in DOMAIN f :
     /\ f[i] # Blank
     /\ \A k \in Keys, b \in 1 .. i, e \in i .. Len(f) :
          ~(f[b].words = BeginMark(k) /\ f[e].words = EndMark(k))}

\* Whatever was applied and removed, in any order, the operator's own lines
\* are all there and in their order, and no others are left once no target is
\* installed; apache's blank lines aside.
OwnLinesKept ==
  ~damaged =>
    /\ LinesAt(file, OwnAt(file)) = Text(own.lines)
    /\ (\A t \in Targets : installed[t] = None) => Text(file) = Text(own.lines)

WithoutAll(f, S) == FoldSet(LAMBDA t, g : Without(g, t), f, S)

\* With an empty selector caddy's first block is taken for a site: it must not
\* be the global options, the operator's or those of a target with real_ip.
FirstBlockIsSite ==
  own.engine = "caddy" /\ (\E t \in Targets : settings[t].selector = "") =>
    ~CaddyHasGlobalBlock(own.lines) /\ \A t \in Targets : ~settings[t].realIp

\* What the reader of the file should find for a target on its own.
Block(t, v) ==
  CASE own.engine = "nginx" -> Marked(t, <<Line(FALSE, <<"include", t, ";">>)>>, TRUE)
    [] own.engine = "caddy" -> Marked(t, <<Line(FALSE, <<"import", t>>)>>, TRUE)
    [] own.engine = "apache" -> Marked(t, Include(t), settings[t].selector # "")
    [] own.engine = "haproxy" -> Marked(t, HaproxyPayload(t, v, settings[t].realIp), TRUE)

\* The block of an installed target stands once, up to date, directly inside
\* the block that its selector names (at the end of an apache file without
\* one), whatever the other targets do in the same file; a target that is not
\* installed has none.
BlocksInPlace ==
  ~damaged /\ FirstBlockIsSite =>
    \A t \in Targets :
      LET alone == Text(Strip(WithoutAll(file, Targets \ {t}), GlobalKey[t]))
          at == IF own.engine = "apache" /\ settings[t].selector = "" THEN Len(own.lines)
                ELSE own.opens[settings[t].selector]
      IN alone = IF installed[t] = None THEN own.lines
                 ELSE InsertAfter(own.lines, at, Block(t, installed[t]))

\* caddy trusts the ranges of a target with real_ip, and those of the last
\* apply only.
RangesTrusted ==
  own.engine = "caddy" /\ ~damaged =>
    \A t \in Targets :
      {file[i].words[2] : i \in {j \in DOMAIN file :
         /\ file[j].words # <<>> /\ file[j].words[1] = "trusted_proxies"
         /\ \E b \in 1 .. j - 1, e \in j + 1 .. Len(file) :
              file[b].words = BeginMark(GlobalKey[t]) /\ file[e].words = EndMark(GlobalKey[t])}}
      = IF settings[t].realIp /\ installed[t] # None THEN {installed[t]} ELSE {}

\* "Re-applies are idempotent": applying the same again changes no line, so
\* that an unchanged apply is recognised as nothing to do.
ReapplyIsNoop ==
  last.op = "apply" /\ ~damaged => Inject(file, last.target, last.version) = file

\* "The prior managed block is stripped and rewritten, never duplicated": a
\* successful apply leaves exactly one block of its target in the file, also
\* when it follows other applies.
AppliedBlockStands ==
  last.op = "apply" /\ ~damaged =>
    \E i \in DOMAIN file : {j \in DOMAIN file : file[j].words = BeginMark(last.target)} = {i}

\* An apply is refused only if there is no block to edit, or if caddy's
\* global options already say what servers trust.
RefusalsJustified ==
  [][last'.op = "refuse" =>
       \/ own.opens[settings[last'.target].selector] = 0
       \/ own.engine = "caddy" /\ settings[last'.target].realIp
            /\ \/ CaddyHasServers(own.lines)
               \/ \E u \in Targets \ {last'.target} : settings[u].realIp /\ installed[u] # None
       \/ damaged]_vars
=============================================================================
