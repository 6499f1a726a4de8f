-------------------------------- MODULE Fetcher --------------------------------
(***************************************************************************)
(* How ip-watch gets the ranges of a target (internal/fetcher/fetcher.go): *)
(* FetchMerged reads two lists per provider, one request after the other,  *)
(* merges them, and WithExtra adds the operator's own addresses.  The data *)
(* source publishes new files between any two of the requests.             *)
(***************************************************************************)
EXTENDS Naturals, FiniteSets, SequencesExt, Functions

CONSTANTS
  Providers, \* provider names
  Nets,      \* CIDR ranges, numbered in their sort order
  Bad,       \* a line that is not a CIDR range
  Missing,   \* a file that the source does not have
  Versions,  \* what a provider may publish: a file per family
  Jobs,      \* what may be asked for: [providers, extra, allowMalformed]
  MaxPublish \* bound on the number of publications

Families == {"v4", "v6"}

\* A file is a sequence of lines; comments and blank lines are left out.
Files == Seq(Nets \cup {Bad}) \cup {Missing}

ASSUME FetcherAssumption ==
  /\ Nets \subseteq Nat /\ Bad \notin Nets
  /\ \A v \in Versions : DOMAIN v = Families /\ \A f \in Families : v[f] \in Files
  /\ Jobs # {}
  /\ \A j \in Jobs : /\ j.providers \in Seq(Providers) /\ j.providers # <<>>
                     /\ j.extra \in [Families -> SUBSET Nets]
                     /\ \A f \in Families : IsFiniteSet(j.extra[f])
                     /\ j.allowMalformed \in BOOLEAN
  /\ MaxPublish \in Nat

VARIABLES
  source,    \* per provider and family, the file served now
  job,       \* what is fetched
  unread,    \* the lists still to request, as <<provider, family>>
  got,       \* the lists read so far
  outcome,   \* the CIDRs of the last fetch; the hash stands for label and lists
  published, \* number of publications
  served     \* history: the files served since the fetch began

fetchVars == <<source, job, unread, got, outcome, published, served>>

Fetching == unread # <<>>
Lists == [Families -> Seq(Nets)]
NoLists == [f \in Families |-> <<>>]
Error == [ok |-> FALSE, label |-> <<>>, lists |-> NoLists]

TypeOK ==
  /\ source \in [Providers -> Versions]
  /\ job \in Jobs
  /\ unread \in Seq(Providers \X Families)
  /\ got \in Seq(Lists)
  /\ outcome \in [ok : BOOLEAN, label : Seq(Providers), lists : Lists]
  /\ published \in 0 .. MaxPublish
  /\ served \in [Providers -> SUBSET Versions]

Init ==
  /\ source \in [Providers -> Versions]
  /\ job = CHOOSE j \in Jobs : TRUE
  /\ unread = <<>> /\ got = <<>>
  /\ outcome = Error
  /\ published = 0
  /\ served = [p \in Providers |-> {}]

-----------------------------------------------------------------------------
(* One list                                                                *)

\* The lines of f, a function, in ascending order, each as often as f has it:
\* the k-th is the least one that k lines do not exceed.
UpTo(f, n) == Cardinality({i \in DOMAIN f : f[i] <= n})
IsKth(f, k, n) == k <= UpTo(f, n) /\ \A m \in Range(f) : k <= UpTo(f, m) => n <= m
Ascending(f) == [k \in 1 .. Cardinality(DOMAIN f) |-> CHOOSE n \in Range(f) : IsKth(f, k, n)]
Ordered(S) == Ascending([n \in S |-> n])

\* Mutant: the lines stay in the order of the file.
ParseUnsorted(file) == IF file = Missing THEN <<>> ELSE SelectSeq(file, LAMBDA l : l \in Nets)

\* Mutant: what the lines say is not looked at.
ParseBlindly(file) == IF file = Missing THEN <<>> ELSE file

\* A missing file is an empty list, of either family.
Parse(file) ==
  IF file = Missing THEN <<>>
  ELSE Ascending(Restrict(file, {i \in DOMAIN file : file[i] \in Nets}))

\* A list with a bad line is refused as a whole, unless the setting says so.
Refuse(file) == file # Missing /\ Bad \in Range(file) /\ ~job.allowMalformed

-----------------------------------------------------------------------------
(* Merging                                                                 *)

\* One provider's lists are taken as they are, repeated lines included.
Merge(all) ==
  IF Len(all) = 1 THEN all[1]
  ELSE [f \in Families |-> Ordered(UNION {Range(all[i][f]) : i \in DOMAIN all})]

WithExtra(lists) ==
  IF \A f \in Families : job.extra[f] = {} THEN lists
  ELSE [f \in Families |-> Ordered(Range(lists[f]) \cup job.extra[f])]

End(result) ==
  /\ outcome' = result
  /\ unread' = <<>> /\ got' = <<>>
  /\ served' = [p \in Providers |-> {}]

\* The n-th request of a job: a provider's v4 list, then its v6 list.
Asked(j, n) == <<j.providers[(n + 1) \div 2], IF n % 2 = 1 THEN "v4" ELSE "v6">>
Begin ==
  /\ ~Fetching
  /\ \E j \in Jobs :
       /\ job' = j
       /\ unread' = [n \in 1 .. 2 * Len(j.providers) |-> Asked(j, n)]
  /\ served' = [p \in Providers |-> {source[p]}]
  /\ UNCHANGED <<source, got, outcome, published>>

\* fetchList, and what Fetch and FetchMerged make of the list: got holds one
\* pair of lists per provider, the last one perhaps without its v6 list yet.
ReadList ==
  /\ Fetching
  /\ LET p == Head(unread)[1]
         f == Head(unread)[2]
         file == source[p][f]
         all == IF f = "v4" THEN Append(got, [NoLists EXCEPT !.v4 = Parse(file)])
                ELSE [got EXCEPT ![Len(got)].v6 = Parse(file)]
     IN IF Refuse(file) \/ (f = "v6" /\ Last(all) = NoLists) THEN End(Error)
        ELSE IF Len(unread) = 1
        THEN End([ok |-> TRUE, label |-> job.providers, lists |-> WithExtra(Merge(all))])
        ELSE /\ got' = all /\ unread' = Tail(unread)
             /\ UNCHANGED <<outcome, served>>
  /\ UNCHANGED <<source, job, published>>

\* Mutant: a request that fails counts as a missing file.
RequestFailsAsMissing ==
  /\ Fetching /\ Len(unread) > 1
  /\ got' = IF Head(unread)[2] = "v4" THEN Append(got, NoLists) ELSE got
  /\ unread' = Tail(unread)
  /\ UNCHANGED <<source, job, outcome, published, served>>

\* The request fails, is cut off, or has another status than 200 and 404.
RequestFails ==
  /\ Fetching
  /\ End(Error)
  /\ UNCHANGED <<source, job, published>>

\* The source publishes other files of a provider.
Publish ==
  /\ published < MaxPublish /\ published' = published + 1
  /\ \E p \in Providers, v \in Versions :
       /\ source' = [source EXCEPT ![p] = v]
       /\ served' = IF Fetching THEN [served EXCEPT ![p] = @ \cup {v}] ELSE served
  /\ UNCHANGED <<job, unread, got, outcome>>

Next == Begin \/ ReadList \/ RequestFails \/ Publish

Spec == Init /\ [][Next]_fetchVars

-----------------------------------------------------------------------------
(* Properties                                                              *)

\* "fail closed: partial list -> bad rules": whatever fails, and whatever is
\* published meanwhile, the ranges of a fetch that succeeds are, per family,
\* one whole and good file of each provider that was served during the fetch,
\* and the operator's own addresses; nothing is missing and nothing is added.
NeverPartial ==
  [][outcome'.ok /\ outcome' # outcome =>
       \A f \in Families :
         \E file \in [DOMAIN job.providers -> {v[f] : v \in Versions}] :
           /\ \A i \in DOMAIN file :
                /\ file[i] \in {v[f] : v \in served[job.providers[i]]}
                /\ ~(file[i] # Missing /\ Bad \in Range(file[i]) /\ ~job.allowMalformed)
           /\ Range(outcome'.lists[f]) =
                job.extra[f] \cup (UNION {Range(Parse(file[i])) : i \in DOMAIN file})]_fetchVars

Repeats(list) == Cardinality(Range(list)) < Len(list)

\* The scheduled run compares hashes: two fetches of the same providers that
\* find the same ranges have the same hash, in whatever order and of however
\* many files the source served them; unless a single file repeats a line.
SameRangesSameHash ==
  [][/\ outcome.ok /\ outcome'.ok /\ outcome.label = outcome'.label
     /\ \A f \in Families : /\ Range(outcome.lists[f]) = Range(outcome'.lists[f])
                            /\ ~Repeats(outcome.lists[f]) /\ ~Repeats(outcome'.lists[f])
     => UNCHANGED outcome]_fetchVars
=============================================================================
