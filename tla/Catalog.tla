-------------------------------- MODULE Catalog --------------------------------
(***************************************************************************)
(* The cache of the list of providers (internal/provider/provider.go).     *)
(* List looks into the cache under a mutex, fetches summary.json without   *)
(* it, and takes it again to store; concurrent web requests find the cache *)
(* expired together and fetch it each for themselves.                      *)
(***************************************************************************)
EXTENDS Integers, FiniteSets

CONSTANTS
  Requests,   \* the concurrent web requests
  None,       \* nothing cached
  Failed,     \* the answer of a request that got no list
  TTL,        \* how long the cache is fresh
  Timeout,    \* the longest a fetch takes
  MaxTime,    \* bound on the clock
  MaxVersion  \* bound on the number of versions published

CatalogAssumption ==
  /\ {TTL, Timeout, MaxTime, MaxVersion} \subseteq Nat /\ TTL > 0
  /\ {None, Failed} \cap 0 .. MaxVersion = {}

VARIABLES
  clock,
  version,   \* of the summary that the source serves now
  replaced,  \* history: when a version was replaced
  cached, cachedAt,
  req        \* each request's step, locals and answer

catalogVars == <<clock, version, replaced, cached, cachedAt, req>>

Seen == 0 .. MaxVersion
CatalogTypeOK ==
  /\ clock \in 0 .. MaxTime /\ cachedAt \in 0 .. MaxTime
  /\ version \in Seen
  /\ replaced \in [Seen -> 0 .. MaxTime]
  /\ cached \in Seen \cup {None}
  /\ req \in [Requests -> [pc : {"idle", "fetch", "store", "fallback"}, since : 0 .. MaxTime,
                           fresh : Seen \cup {None}, answer : Seen \cup {None, Failed}]]

CatalogInit ==
  /\ clock = 0 /\ version = 0
  /\ replaced = [v \in Seen |-> 0]
  /\ cached = None /\ cachedAt = 0
  /\ req = [r \in Requests |-> [pc |-> "idle", since |-> 0, fresh |-> None, answer |-> None]]

Answer(r, a) == req' = [req EXCEPT ![r] = [pc |-> "idle", since |-> 0, fresh |-> None, answer |-> a]]

Fresh == cached # None /\ clock - cachedAt < TTL

List(r) ==
  /\ req[r].pc = "idle"
  /\ IF Fresh THEN Answer(r, cached)
     ELSE req' = [req EXCEPT ![r].pc = "fetch", ![r].since = clock]
  /\ UNCHANGED <<clock, version, replaced, cached, cachedAt>>

\* The source answers; the answer is on its way.
Serve(r) ==
  /\ req[r].pc = "fetch"
  /\ req' = [req EXCEPT ![r].pc = "store", ![r].fresh = version]
  /\ UNCHANGED <<clock, version, replaced, cached, cachedAt>>

FetchFails(r) ==
  /\ req[r].pc \in {"fetch", "store"}
  /\ req' = [req EXCEPT ![r].pc = "fallback"]
  /\ UNCHANGED <<clock, version, replaced, cached, cachedAt>>

\* Mutant: a failed fetch drops the old list.
FallbackDropping(r) ==
  /\ req[r].pc = "fallback"
  /\ cached' = None
  /\ Answer(r, IF cached = None THEN Failed ELSE cached)
  /\ UNCHANGED <<clock, version, replaced, cachedAt>>

\* Mutant: the old list counts as fresh again.
FallbackRenewing(r) ==
  /\ req[r].pc = "fallback"
  /\ cachedAt' = clock
  /\ Answer(r, IF cached = None THEN Failed ELSE cached)
  /\ UNCHANGED <<clock, version, replaced, cached>>

\* The last good list, if there is one.
Fallback(r) ==
  /\ req[r].pc = "fallback"
  /\ Answer(r, IF cached = None THEN Failed ELSE cached)
  /\ UNCHANGED <<clock, version, replaced, cached, cachedAt>>

Store(r) ==
  /\ req[r].pc = "store"
  /\ cached' = req[r].fresh /\ cachedAt' = clock
  /\ Answer(r, req[r].fresh)
  /\ UNCHANGED <<clock, version, replaced>>

PublishSummary ==
  /\ version < MaxVersion
  /\ version' = version + 1
  /\ replaced' = [replaced EXCEPT ![version] = clock]
  /\ UNCHANGED <<clock, cached, cachedAt, req>>

\* A fetch ends before its timeout.
Tick ==
  /\ clock < MaxTime
  /\ \A r \in Requests : req[r].pc \in {"fetch", "store"} => clock - req[r].since < Timeout
  /\ clock' = clock + 1
  /\ UNCHANGED <<version, replaced, cached, cachedAt, req>>

CatalogNext == \/ \E r \in Requests : List(r) \/ Serve(r) \/ FetchFails(r) \/ Fallback(r) \/ Store(r)
        \/ PublishSummary \/ Tick

CatalogSpec == CatalogInit /\ [][CatalogNext]_catalogVars

-----------------------------------------------------------------------------
(* Properties                                                              *)

\* A request that does not fall back answers with a list that the source
\* served within the last TTL and one fetch, also when a slow fetch with an
\* older list overwrites a newer one.
BoundedStaleness ==
  [][\A r \in Requests :
       req'[r].pc = "idle" /\ req[r].pc # "fallback" /\ req'[r] # req[r] =>
         LET a == req'[r].answer
         IN a = version \/ replaced[a] > clock - TTL - Timeout]_catalogVars

\* "upstream down: last-good": once a request has had an answer, no later one
\* fails, whatever becomes of the fetches that are under way.
LastGoodServed ==
  [][\A r \in Requests :
       (\E s \in Requests : req[s].answer \in Seen) /\ req'[r].answer = Failed =>
         req[r].answer = Failed]_catalogVars
=============================================================================
