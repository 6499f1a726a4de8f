------------------------------ MODULE MCUpstream ------------------------------
(***************************************************************************)
(* Small instances of what decides when and with which data the scheduler  *)
(* applies: Fetcher, Catalog and Timer.  A behaviour is one of one of them.*)
(* Two providers publish files with bad and repeated lines, in another     *)
(* order, and without one or both files; two requests share the catalog;   *)
(* the zone has no change, one in spring or one in autumn.                 *)
(***************************************************************************)
EXTENDS Fetcher, Catalog, Timer

CONSTANTS pa, pb

Pair(v4, v6) == [f \in Families |-> IF f = "v4" THEN v4 ELSE v6]

SomeVersions ==
  {Pair(<<1, 2>>, <<3>>), Pair(<<2, 1>>, <<3>>), Pair(<<2, 2>>, <<3, 4>>), Pair(<<2, Bad>>, <<3>>),
   Pair(<<1, 4>>, Missing), Pair(Missing, <<3>>), Pair(Missing, Missing)}

SomeJobs ==
  {[providers |-> <<pa>>, extra |-> Pair({}, {}), allowMalformed |-> FALSE],
   [providers |-> <<pa>>, extra |-> Pair({4}, {}), allowMalformed |-> TRUE],
   [providers |-> <<pa, pb>>, extra |-> Pair({}, {4}), allowMalformed |-> FALSE],
   [providers |-> <<pa, pb>>, extra |-> Pair({}, {}), allowMalformed |-> TRUE]}

NoChange == [at |-> 500, before |-> 0, after |-> 0]
SomeZones ==
  {NoChange, [at |-> 49, before |-> 1, after |-> 2], [at |-> 49, before |-> 2, after |-> 1],
   [at |-> 55, before |-> -5, after |-> -4]}
TwoDays == 0 .. 47

ASSUME PartsAssumption == CatalogAssumption /\ TimerAssumption

VARIABLE part

UpstreamInit ==
  /\ part \in {"fetcher", "catalog", "timer"}
  /\ Init /\ CatalogInit /\ TimerInit
  /\ part # "fetcher" => \A p \in Providers : source[p] = Pair(Missing, Missing)
  /\ part # "timer" => now = 0 /\ hour = 0 /\ zone = NoChange

UpstreamNext ==
  /\ \/ part = "fetcher" /\ Next /\ UNCHANGED <<catalogVars, timerVars>>
     \/ part = "catalog" /\ CatalogNext /\ UNCHANGED <<fetchVars, timerVars>>
     \/ part = "timer" /\ TimerNext /\ UNCHANGED <<fetchVars, catalogVars>>
  /\ UNCHANGED part

UpstreamSpec == UpstreamInit /\ [][UpstreamNext]_<<part, fetchVars, catalogVars, timerVars>>

\* The state of each part is well typed.
UpstreamTypeOK == TypeOK /\ CatalogTypeOK /\ TimerTypeOK
=============================================================================
