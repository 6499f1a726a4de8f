----------------------------- MODULE UpstreamProofs -----------------------------
(***************************************************************************)
(* The catalog and the timer, and the specification that has them and the  *)
(* fetcher as its parts.  How old the list of providers can be, and that a *)
(* list once got stays, for any number of concurrent requests and any TTL  *)
(* and timeout.  When the scheduler runs, for every update hour, every     *)
(* zone whose offset changes by an hour at most, and every time at which a *)
(* run ends.                                                               *)
(***************************************************************************)
EXTENDS MCUpstream, FetcherProofs

-----------------------------------------------------------------------------
(* The catalog                                                             *)

\* A fetch that is under way began at most a timeout ago, and what it brings
\* was served since.
FetchInv ==
  \A r \in Requests : req[r].pc \in {"fetch", "store"} =>
    /\ req[r].since <= clock /\ clock - req[r].since <= Timeout
    /\ req[r].pc = "store" =>
         /\ req[r].fresh \in Seen
         /\ req[r].fresh = version \/ replaced[req[r].fresh] >= req[r].since

\* What is cached was served at most a timeout before it was stored.
CacheInv ==
  /\ cachedAt <= clock
  /\ cached # None => cached = version \/ replaced[cached] >= cachedAt - Timeout

\* Whoever had a list got it from the cache or put it there.
AnswerInv == (\E r \in Requests : req[r].answer \in Seen) => cached # None

CatalogInv == CatalogTypeOK /\ FetchInv /\ CacheInv /\ AnswerInv

Values == [pc : {"idle", "fetch", "store", "fallback"}, since : 0 .. MaxTime,
           fresh : Seen \cup {None}, answer : Seen \cup {None, Failed}]

LEMMA CatalogStarts == CatalogAssumption /\ CatalogInit => CatalogInv
  BY DEF CatalogAssumption, CatalogInit, CatalogInv, CatalogTypeOK, FetchInv, CacheInv, AnswerInv,
         Seen

\* A step of request r that leaves clock and versions alone.
LEMMA RequestStep ==
  ASSUME CatalogAssumption, CatalogInv, NEW r \in Requests,
         List(r) \/ Serve(r) \/ FetchFails(r) \/ Fallback(r) \/ Store(r)
  PROVE  CatalogInv'
<1>1. /\ {TTL, Timeout, MaxTime, MaxVersion} \subseteq Nat
      /\ None \notin Seen /\ Failed \notin Seen
  BY DEF CatalogAssumption, Seen
<1>2. /\ clock \in 0 .. MaxTime /\ cachedAt \in 0 .. MaxTime /\ version \in Seen
      /\ replaced \in [Seen -> 0 .. MaxTime] /\ cached \in Seen \cup {None}
      /\ req \in [Requests -> Values] /\ req[r] \in Values
      /\ FetchInv /\ CacheInv /\ AnswerInv
  BY DEF CatalogInv, CatalogTypeOK, Values
<1>3. UNCHANGED <<clock, version, replaced>>
  BY DEF List, Serve, FetchFails, Fallback, Store
<1>4. /\ cached' \in Seen \cup {None} /\ cachedAt' \in 0 .. MaxTime
      /\ CacheInv'
  <2>1. CASE Store(r)
    <3>1. /\ cached' = req[r].fresh /\ cachedAt' = clock /\ req[r].pc = "store"
      BY <2>1 DEF Store
    <3>2. /\ req[r].fresh \in Seen
          /\ req[r].fresh = version \/ replaced[req[r].fresh] >= req[r].since
          /\ clock - req[r].since <= Timeout
      BY <3>1, <1>2 DEF FetchInv
    <3>3. req[r].since \in 0 .. MaxTime /\ replaced[req[r].fresh] \in 0 .. MaxTime
      BY <3>2, <1>2 DEF Values
    <3> QED
      BY <3>1, <3>2, <3>3, <1>1, <1>2, <1>3 DEF CacheInv
  <2>2. CASE UNCHANGED <<cached, cachedAt>>
    BY <2>2, <1>2, <1>3 DEF CacheInv
  <2> QED  BY <2>1, <2>2 DEF List, Serve, FetchFails, Fallback, Store
<1>5. PICK l \in Values :
        /\ req' = [req EXCEPT ![r] = l]
        /\ l.pc \in {"fetch", "store"} =>
             /\ l.since = clock \/ (req[r].pc = "fetch" /\ l.since = req[r].since)
             /\ l.pc = "store" => l.fresh = version
        /\ l.answer \in Seen => cached' # None
  <2> DEFINE done(a) == [pc |-> "idle", since |-> 0, fresh |-> None, answer |-> a]
  <2>1. CASE List(r) /\ Fresh
    <3>1. cached \in Seen /\ req' = [req EXCEPT ![r] = done(cached)] /\ cached' = cached
      BY <2>1, <1>2 DEF List, Fresh, Answer
    <3>2. done(cached) \in Values
      BY <3>1, <1>1 DEF Values
    <3> QED  BY <3>1, <3>2, <1>1
  <2>2. CASE List(r) /\ ~Fresh
    <3> DEFINE l == [req[r] EXCEPT !.pc = "fetch", !.since = clock]
    <3>1. req' = [req EXCEPT ![r] = l] /\ cached' = cached
      BY <2>2 DEF List
    <3>2. l \in Values /\ l.pc = "fetch" /\ l.since = clock /\ l.answer = req[r].answer
      BY <1>2 DEF Values
    <3>3. l.answer \in Seen => cached # None
      BY <3>2, <1>2 DEF AnswerInv
    <3> QED  BY <3>1, <3>2, <3>3
  <2>3. CASE Serve(r)
    <3> DEFINE l == [req[r] EXCEPT !.pc = "store", !.fresh = version]
    <3>1. req' = [req EXCEPT ![r] = l] /\ cached' = cached /\ req[r].pc = "fetch"
      BY <2>3 DEF Serve
    <3>2. /\ l \in Values /\ l.pc = "store" /\ l.fresh = version /\ l.since = req[r].since
          /\ l.answer = req[r].answer
      BY <1>2 DEF Values
    <3>3. l.answer \in Seen => cached # None
      BY <3>2, <1>2 DEF AnswerInv
    <3> QED  BY <3>1, <3>2, <3>3
  <2>4. CASE FetchFails(r)
    <3> DEFINE l == [req[r] EXCEPT !.pc = "fallback"]
    <3>1. req' = [req EXCEPT ![r] = l] /\ cached' = cached
      BY <2>4 DEF FetchFails
    <3>2. l \in Values /\ l.pc = "fallback" /\ l.answer = req[r].answer
      BY <1>2 DEF Values
    <3>3. l.answer \in Seen => cached # None
      BY <3>2, <1>2 DEF AnswerInv
    <3> QED  BY <3>1, <3>2, <3>3
  <2>5. CASE Fallback(r)
    <3> DEFINE a == IF cached = None THEN Failed ELSE cached
    <3>1. req' = [req EXCEPT ![r] = done(a)] /\ cached' = cached
      BY <2>5 DEF Fallback, Answer
    <3>2. done(a) \in Values /\ (a \in Seen => cached # None)
      BY <1>1, <1>2 DEF Values
    <3> QED  BY <3>1, <3>2
  <2>6. CASE Store(r)
    <3>1. req' = [req EXCEPT ![r] = done(req[r].fresh)] /\ cached' = req[r].fresh
      BY <2>6 DEF Store, Answer
    <3>2. req[r].fresh \in Seen
      BY <2>6, <1>2 DEF Store, FetchInv
    <3>3. done(req[r].fresh) \in Values
      BY <3>2, <1>1 DEF Values
    <3> QED  BY <3>1, <3>2, <3>3, <1>1
  <2> QED  BY <2>1, <2>2, <2>3, <2>4, <2>5, <2>6
<1>6. req' \in [Requests -> Values]
  BY <1>2, <1>5
<1>7. FetchInv'
  <2>1. ASSUME NEW s \in Requests, req'[s].pc \in {"fetch", "store"}
        PROVE  /\ req'[s].since <= clock /\ clock - req'[s].since <= Timeout
               /\ req'[s].pc = "store" =>
                    /\ req'[s].fresh \in Seen
                    /\ req'[s].fresh = version \/ replaced[req'[s].fresh] >= req'[s].since
    <3>1. CASE s = r  BY <2>1, <3>1, <1>1, <1>2, <1>5 DEF FetchInv
    <3>2. CASE s # r  BY <2>1, <3>2, <1>2, <1>5 DEF FetchInv
    <3> QED  BY <3>1, <3>2
  <2> QED  BY <2>1, <1>3 DEF FetchInv, Seen
<1>8. AnswerInv'
  <2>1. (\E s \in Requests \ {r} : req[s].answer \in Seen) => cached' # None
    <3>1. cached # None => cached' # None
      BY <1>1, <1>2 DEF List, Serve, FetchFails, Fallback, Store, FetchInv
    <3> QED  BY <3>1, <1>2 DEF AnswerInv
  <2> QED  BY <2>1, <1>2, <1>5 DEF AnswerInv, Seen
<1> QED
  BY <1>2, <1>3, <1>4, <1>6, <1>7, <1>8 DEF CatalogInv, CatalogTypeOK, Values, Seen

LEMMA CatalogKeeps == CatalogAssumption /\ CatalogInv /\ [CatalogNext]_catalogVars => CatalogInv'
<1> SUFFICES ASSUME CatalogAssumption, CatalogInv, [CatalogNext]_catalogVars PROVE CatalogInv'
  OBVIOUS
<1> USE DEF CatalogInv
<1>0. /\ {TTL, Timeout, MaxTime, MaxVersion} \subseteq Nat /\ None \notin Seen
  BY DEF CatalogAssumption, Seen
<1>1. CASE \E r \in Requests : List(r) \/ Serve(r) \/ FetchFails(r) \/ Fallback(r) \/ Store(r)
  BY <1>1, RequestStep
<1>2. CASE PublishSummary
  <2>1. /\ version' = version + 1 /\ version' \in Seen
        /\ replaced' = [replaced EXCEPT ![version] = clock]
        /\ UNCHANGED <<clock, cached, cachedAt, req>>
    BY <1>2, <1>0 DEF PublishSummary, CatalogTypeOK, Seen
  <2>2. CatalogTypeOK'
    BY <2>1 DEF CatalogTypeOK, Seen
  <2>3. FetchInv'
    <3>1. \A r \in Requests : req[r] \in Values
      BY DEF CatalogTypeOK, Values
    <3> QED  BY <2>1, <3>1 DEF FetchInv, CatalogTypeOK, Seen, Values
  <2>4. CacheInv'
    BY <2>1, <1>0 DEF CacheInv, CatalogTypeOK, Seen
  <2>5. AnswerInv'
    BY <2>1 DEF AnswerInv, Seen
  <2> QED  BY <2>2, <2>3, <2>4, <2>5
<1>3. CASE Tick
  <2>1. /\ clock' = clock + 1 /\ clock < MaxTime
        /\ \A r \in Requests : req[r].pc \in {"fetch", "store"} => clock - req[r].since < Timeout
        /\ UNCHANGED <<version, replaced, cached, cachedAt, req>>
    BY <1>3 DEF Tick
  <2>2. CatalogTypeOK'
    BY <2>1, <1>0 DEF CatalogTypeOK, Seen
  <2>3. FetchInv'
    <3>1. \A r \in Requests : req[r].since \in 0 .. MaxTime
      BY DEF CatalogTypeOK
    <3> QED  BY <2>1, <3>1, <1>0 DEF FetchInv, CatalogTypeOK, Seen
  <2>4. CacheInv'
    BY <2>1 DEF CacheInv, CatalogTypeOK
  <2>5. AnswerInv'
    BY <2>1 DEF AnswerInv, Seen
  <2> QED  BY <2>2, <2>3, <2>4, <2>5
<1>4. CASE UNCHANGED catalogVars
  BY <1>4 DEF catalogVars, CatalogTypeOK, FetchInv, CacheInv, AnswerInv, Seen
<1> QED
  BY <1>1, <1>2, <1>3, <1>4 DEF CatalogNext

LEMMA CatalogAlways == ASSUME CatalogAssumption PROVE CatalogSpec => []CatalogInv
  BY CatalogStarts, CatalogKeeps, PTL DEF CatalogSpec

\* A request whose locals change is the one that takes the step.
LEMMA OthersWait ==
  ASSUME CatalogInv, [CatalogNext]_catalogVars, NEW r \in Requests, req'[r] # req[r]
  PROVE  List(r) \/ Serve(r) \/ FetchFails(r) \/ Fallback(r) \/ Store(r)
  BY DEF CatalogInv, CatalogTypeOK, CatalogNext, List, Serve, FetchFails, Fallback, Store, Answer,
         PublishSummary, Tick, catalogVars

LEMMA StalenessStep ==
  ASSUME CatalogAssumption, CatalogInv, [CatalogNext]_catalogVars, NEW r \in Requests,
         req'[r].pc = "idle", req[r].pc # "fallback", req'[r] # req[r]
  PROVE  \/ req'[r].answer = version
         \/ replaced[req'[r].answer] > clock - TTL - Timeout
<1>1. /\ TTL \in Nat /\ TTL > 0 /\ Timeout \in Nat /\ MaxTime \in Nat
      /\ clock \in 0 .. MaxTime /\ cachedAt \in 0 .. MaxTime
      /\ replaced \in [Seen -> 0 .. MaxTime] /\ cached \in Seen \cup {None}
      /\ req \in [Requests -> Values]
  BY DEF CatalogAssumption, CatalogInv, CatalogTypeOK, Values
<1>2. CASE List(r) /\ Fresh
  <2>1. req'[r].answer = cached
    BY <1>1, <1>2 DEF List, Answer
  <2>2. cached \in Seen /\ clock - cachedAt < TTL
    BY <1>1, <1>2 DEF Fresh
  <2>3. cached = version \/ replaced[cached] >= cachedAt - Timeout
    BY <2>2, <1>2 DEF CatalogInv, CacheInv, Fresh
  <2> QED
    BY <2>1, <2>2, <2>3, <1>1
<1>3. CASE Store(r)
  <2>1. req'[r].answer = req[r].fresh
    BY <1>1, <1>3 DEF Store, Answer
  <2>2. /\ req[r].fresh \in Seen /\ clock - req[r].since <= Timeout
        /\ req[r].fresh = version \/ replaced[req[r].fresh] >= req[r].since
    BY <1>3 DEF Store, CatalogInv, FetchInv
  <2>3. req[r].since \in 0 .. MaxTime
    BY <1>1 DEF Values
  <2> QED
    BY <2>1, <2>2, <2>3, <1>1
<1>4. CASE (List(r) /\ ~Fresh) \/ Serve(r) \/ FetchFails(r)
  <2>1. req'[r].pc \in {"fetch", "store", "fallback"}
    BY <1>1, <1>4 DEF List, Serve, FetchFails, Values
  <2> QED
    BY <2>1
<1>5. ~Fallback(r)
  BY DEF Fallback
<1> QED
  BY <1>2, <1>3, <1>4, <1>5, OthersWait

\* A request that does not fall back answers with a list that the source
\* served within the last TTL and one fetch: however many requests fetch at
\* once and in whatever order they store what they got.
THEOREM AnswersAreRecent == ASSUME CatalogAssumption PROVE CatalogSpec => BoundedStaleness
<1>1. CatalogInv /\ [CatalogNext]_catalogVars =>
        [\A r \in Requests :
           req'[r].pc = "idle" /\ req[r].pc # "fallback" /\ req'[r] # req[r] =>
             LET a == req'[r].answer
             IN a = version \/ replaced[a] > clock - TTL - Timeout]_catalogVars
  BY StalenessStep
<1> QED
  BY <1>1, CatalogAlways, PTL DEF CatalogSpec, BoundedStaleness

LEMMA LastGoodStep ==
  ASSUME CatalogAssumption, CatalogInv, [CatalogNext]_catalogVars, NEW r \in Requests,
         \E s \in Requests : req[s].answer \in Seen, req'[r].answer = Failed
  PROVE  req[r].answer = Failed
<1>1. /\ cached \in Seen /\ Failed \notin Seen
      /\ req \in [Requests -> Values]
  BY DEF CatalogAssumption, CatalogInv, CatalogTypeOK, AnswerInv, Values, Seen
<1>2. CASE req'[r] = req[r]  BY <1>2
<1>3. CASE List(r)
  BY <1>1, <1>3 DEF List, Fresh, Answer, Values
<1>4. CASE Serve(r) \/ FetchFails(r)
  BY <1>1, <1>4 DEF Serve, FetchFails, Values
<1>5. CASE Fallback(r)
  <2>1. req'[r].answer = cached
    BY <1>1, <1>5 DEF Fallback, Answer, CatalogAssumption, Seen
  <2> QED  BY <2>1, <1>1
<1>6. CASE Store(r)
  <2>1. req'[r].answer = req[r].fresh /\ req[r].fresh \in Seen
    BY <1>1, <1>6 DEF Store, Answer, CatalogInv, FetchInv
  <2> QED  BY <2>1, <1>1
<1> QED
  BY <1>2, <1>3, <1>4, <1>5, <1>6, OthersWait

\* Once a request has had a list, none fails any more, whatever becomes of the
\* fetches of the others.
THEOREM ListIsNeverLost == ASSUME CatalogAssumption PROVE CatalogSpec => LastGoodServed
<1>1. CatalogInv /\ [CatalogNext]_catalogVars =>
        [\A r \in Requests :
           (\E s \in Requests : req[s].answer \in Seen) /\ req'[r].answer = Failed =>
             req[r].answer = Failed]_catalogVars
  BY LastGoodStep DEF catalogVars
<1> QED
  BY <1>1, CatalogAlways, PTL DEF CatalogSpec, LastGoodServed

-----------------------------------------------------------------------------
(* The timer                                                               *)

ShiftAssumption == \A z \in Zones : z.after - z.before \in -1 .. 1

\* While the daemon sleeps, the timer is what untilNext made of the moment at
\* which it went to sleep.
SleepInv ==
  /\ now \in Nat /\ since \in Nat
  /\ hour \in 0 .. 23
  /\ zone \in Zones
  /\ ~running => wake \in UntilNext(since)

LEMMA SleepInit == TimerAssumption /\ TimerInit => SleepInv
  BY DEF TimerAssumption, TimerInit, SleepInv

LEMMA SleepStep == TimerAssumption /\ SleepInv /\ [TimerNext]_timerVars => SleepInv'
<1> SUFFICES ASSUME TimerAssumption, SleepInv, [TimerNext]_timerVars PROVE SleepInv'
  OBVIOUS
<1>1. \A t : UNCHANGED <<hour, zone>> => UntilNext(t)' = UntilNext(t)
  BY DEF UntilNext, Instants, Midnight, Local, Offset
<1>2. CASE Sleep
  BY <1>1, <1>2 DEF Sleep, SleepInv
<1>3. CASE Fire
  BY <1>3 DEF Fire, SleepInv
<1>4. CASE Pass
  BY <1>1, <1>4 DEF Pass, SleepInv
<1>5. CASE UNCHANGED timerVars
  BY <1>1, <1>5 DEF timerVars, SleepInv
<1> QED
  BY <1>2, <1>3, <1>4, <1>5 DEF TimerNext

LEMMA SleepAlways == ASSUME TimerAssumption PROVE TimerSpec => []SleepInv
  BY SleepInit, SleepStep, PTL DEF TimerSpec

\* The day of an instant.
LEMMA DayOf ==
  ASSUME NEW l \in Int
  PROVE  \E q \in Int : (l \div 24) * 24 = 24 * q /\ 24 * q <= l /\ l < 24 * q + 24
  OBVIOUS

\* The instants that time.Date may choose for a local time.
LEMMA InstantsOf ==
  ASSUME NEW l, NEW i \in Instants(l)
  PROVE  /\ i = l - zone.before \/ i = l - zone.after
         /\ \/ Local(i) = l
            \/ Local(l - zone.before) # l /\ Local(l - zone.after) # l
<1> DEFINE either == {l - zone.before, l - zone.after}
           exact == {u \in either : Local(u) = l}
<1>1. i \in IF exact = {} THEN either ELSE exact
  BY Zenon DEF Instants
<1>2. i \in either
  BY <1>1, Zenon
<1>3. i = l - zone.before \/ i = l - zone.after
  BY <1>2, Zenon
<1>4. Local(i) = l \/ exact = {}
  BY <1>1, Zenon
<1>5. exact = {} => Local(l - zone.before) # l /\ Local(l - zone.after) # l
  OBVIOUS
<1> HIDE DEF exact
<1> QED
  BY <1>3, <1>4, <1>5, Zenon

\* untilNext, unfolded: i has the local time that is looked for, or there is
\* none.
LEMMA NextInstant ==
  ASSUME TimerAssumption, ShiftAssumption, zone \in Zones, hour \in 0 .. 23,
         NEW t \in Nat, NEW w \in UntilNext(t)
  PROVE  \E q \in Int, i \in Int :
           /\ 24 * q <= Local(t) /\ Local(t) < 24 * q + 24
           /\ Midnight(t) = 24 * q
           /\ w = IF i > t THEN i ELSE i + 24
           /\ i = (24 * q + hour) - zone.before \/ i = (24 * q + hour) - zone.after
           /\ \/ Local(i) = 24 * q + hour
              \/ /\ Local((24 * q + hour) - zone.before) # 24 * q + hour
                 /\ Local((24 * q + hour) - zone.after) # 24 * q + hour
<1>1. zone.at \in Nat /\ zone.before \in Int /\ zone.after \in Int
  BY DEF TimerAssumption
<1>2. Local(t) \in Int
  BY <1>1 DEF Local, Offset
<1>3. PICK q \in Int : Midnight(t) = 24 * q /\ 24 * q <= Local(t) /\ Local(t) < 24 * q + 24
  BY <1>2, DayOf DEF Midnight
<1>4. PICK i \in Instants(24 * q + hour) : w = IF i > t THEN i ELSE i + 24
  BY <1>3 DEF UntilNext
<1>5. /\ i = (24 * q + hour) - zone.before \/ i = (24 * q + hour) - zone.after
      /\ \/ Local(i) = 24 * q + hour
         \/ /\ Local((24 * q + hour) - zone.before) # 24 * q + hour
            /\ Local((24 * q + hour) - zone.after) # 24 * q + hour
  BY <1>4, InstantsOf
<1>6. i \in Int
  BY <1>1, <1>5
<1> QED
  BY <1>3, <1>4, <1>5, <1>6

LEMMA ADayAtMost ==
  ASSUME TimerAssumption, ShiftAssumption, zone \in Zones, hour \in 0 .. 23,
         NEW t \in Nat, NEW w \in UntilNext(t),
         ~(hour = 0 /\ zone.at \in t - 24 .. t /\ zone.after < zone.before)
  PROVE  w - t \in 1 .. 25
<1>1. /\ zone.at \in Nat /\ zone.before \in Int /\ zone.after \in Int
      /\ zone.after - zone.before \in -1 .. 1
  BY DEF TimerAssumption, ShiftAssumption
<1>2. PICK q \in Int, i \in Int :
           /\ 24 * q <= Local(t) /\ Local(t) < 24 * q + 24
           /\ w = IF i > t THEN i ELSE i + 24
           /\ i = (24 * q + hour) - zone.before \/ i = (24 * q + hour) - zone.after
           /\ \/ Local(i) = 24 * q + hour
              \/ /\ Local((24 * q + hour) - zone.before) # 24 * q + hour
                 /\ Local((24 * q + hour) - zone.after) # 24 * q + hour
  BY NextInstant
<1> QED
  BY <1>1, <1>2, SMTT(60) DEF Local, Offset

\* Also where the zone's offset changes, the daemon sleeps for an hour at least
\* and for no more than a day and the hour of the change; not with an update
\* hour of 0 on a day of 25 hours.
THEOREM SleepIsBounded ==
  ASSUME TimerAssumption, ShiftAssumption
  PROVE  TimerSpec => []SleepsADayAtMost
<1>1. SleepInv => SleepsADayAtMost
  BY ADayAtMost DEF SleepInv, SleepsADayAtMost
<1> QED
  BY <1>1, SleepAlways, PTL

LEMMA ToTheHour ==
  ASSUME TimerAssumption, ShiftAssumption, zone \in Zones, hour \in 0 .. 23,
         NEW t \in Nat, NEW w \in UntilNext(t),
         zone.at - (Midnight(t) - Offset(t)) \notin 0 .. 48
  PROVE  /\ Local(w) % 24 = hour
         /\ \A u \in t + 1 .. w - 1 : Local(u) % 24 # hour
<1>1. /\ zone.at \in Nat /\ zone.before \in Int /\ zone.after \in Int
      /\ zone.after - zone.before \in -1 .. 1
  BY DEF TimerAssumption, ShiftAssumption
<1>2. PICK q \in Int, i \in Int :
           /\ 24 * q <= Local(t) /\ Local(t) < 24 * q + 24
           /\ Midnight(t) = 24 * q
           /\ w = IF i > t THEN i ELSE i + 24
           /\ i = (24 * q + hour) - zone.before \/ i = (24 * q + hour) - zone.after
           /\ \/ Local(i) = 24 * q + hour
              \/ /\ Local((24 * q + hour) - zone.before) # 24 * q + hour
                 /\ Local((24 * q + hour) - zone.after) # 24 * q + hour
  BY NextInstant
<1> DEFINE o == Offset(t)
<1>3. o \in Int /\ Local(t) = t + o
  BY <1>1 DEF Offset, Local
<1>4. zone.at < 24 * q - o \/ zone.at > 24 * q - o + 48
  <2>1. zone.at - (24 * q - o) \notin 0 .. 48
    BY <1>2
  <2>2. zone.at \in Int /\ 24 * q - o \in Int
    BY <1>1, <1>2, <1>3
  <2> QED  BY <2>1, <2>2
<1>5. \A u \in Int : 24 * q - o <= u /\ u <= 24 * q - o + 48 => Local(u) = u + o
  BY <1>1, <1>2, <1>3, <1>4 DEF Local, Offset
<1>6. i = 24 * q + hour - o
  <2>1. CASE zone.at < 24 * q - o
    <3>1. o = zone.after
      BY <2>1, <1>1, <1>2, <1>3 DEF Offset
    <3> QED
      BY <2>1, <3>1, <1>1, <1>2 DEF Local, Offset
  <2>2. CASE zone.at > 24 * q - o + 48
    <3>1. o = zone.before
      BY <2>2, <1>1, <1>2, <1>3 DEF Offset
    <3> QED
      BY <2>2, <3>1, <1>1, <1>2 DEF Local, Offset
  <2> QED  BY <1>4, <2>1, <2>2
<1>7. w = (IF 24 * q + hour > t + o THEN 24 * q + hour ELSE 24 * q + hour + 24) - o
  BY <1>2, <1>3, <1>6
<1>8. Local(w) = w + o /\ \A u \in t + 1 .. w - 1 : Local(u) = u + o
  BY <1>2, <1>3, <1>5, <1>7
<1> HIDE DEF o
<1>9. (24 * q + hour) % 24 = hour /\ (24 * q + hour + 24) % 24 = hour
  OBVIOUS
<1>10. ASSUME NEW u \in t + 1 .. w - 1 PROVE (u + o) % 24 # hour
  <2>1. u \in Int /\ u + o \in Int /\ t + o < u + o /\ u + o < w + o
    BY <1>3, <1>7
  <2>2. (u + o) % 24 = hour => \E k \in Int : u + o = 24 * k + hour
    BY <2>1
  <2>3. ASSUME NEW k \in Int, u + o = 24 * k + hour PROVE FALSE
    BY <2>1, <2>3, <1>2, <1>3, <1>7
  <2> QED  BY <2>2, <2>3
<1>11. w + o = 24 * q + hour \/ w + o = 24 * q + hour + 24
  BY <1>3, <1>7
<1>12. Local(w) % 24 = hour
  BY <1>8, <1>9, <1>11
<1>13. \A u \in t + 1 .. w - 1 : Local(u) % 24 # hour
  BY <1>8, <1>10
<1> QED
  BY <1>12, <1>13

\* Where no change of the offset is near, the daemon sleeps until the first
\* instant with the update hour.
THEOREM RunsAtTheHour ==
  ASSUME TimerAssumption, ShiftAssumption
  PROVE  TimerSpec => []SleepsToTheHour
<1>1. SleepInv => SleepsToTheHour
  BY ToTheHour DEF SleepInv, SleepsToTheHour
<1> QED
  BY <1>1, SleepAlways, PTL

\* Whatever the zone does, the timer is not set to the past.
LEMMA WakeIsNotPast ==
  ASSUME TimerAssumption, ShiftAssumption, zone \in Zones, hour \in 0 .. 23,
         NEW t \in Nat, NEW w \in UntilNext(t)
  PROVE  w \in Nat
<1>1. /\ zone.at \in Nat /\ zone.before \in Int /\ zone.after \in Int
      /\ zone.after - zone.before \in -1 .. 1
  BY DEF TimerAssumption, ShiftAssumption
<1>2. PICK q \in Int, i \in Int :
           /\ 24 * q <= Local(t) /\ Local(t) < 24 * q + 24
           /\ w = IF i > t THEN i ELSE i + 24
           /\ i = (24 * q + hour) - zone.before \/ i = (24 * q + hour) - zone.after
  BY NextInstant
<1> QED
  BY <1>1, <1>2, SMTT(60) DEF Local, Offset

LEMMA TimerTypes == ASSUME TimerAssumption, ShiftAssumption PROVE TimerSpec => []TimerTypeOK
<1>1. TimerInit => TimerTypeOK
  BY DEF TimerAssumption, TimerInit, TimerTypeOK
<1>2. TimerTypeOK /\ SleepInv /\ [TimerNext]_timerVars => TimerTypeOK'
  <2> SUFFICES ASSUME TimerTypeOK, SleepInv, [TimerNext]_timerVars PROVE TimerTypeOK'
    OBVIOUS
  <2>1. CASE Sleep
    <3>1. now \in Nat /\ wake' \in UntilNext(now) /\ hour \in 0 .. 23 /\ zone \in Zones
      BY <2>1 DEF Sleep, SleepInv
    <3>2. wake' \in Nat
      BY <3>1, WakeIsNotPast
    <3> QED  BY <2>1, <3>2 DEF Sleep, TimerTypeOK
  <2>2. CASE Fire
    BY <2>2 DEF Fire, TimerTypeOK
  <2>3. CASE Pass
    BY <2>3 DEF Pass, TimerTypeOK, TimerAssumption
  <2>4. CASE UNCHANGED timerVars
    BY <2>4 DEF timerVars, TimerTypeOK
  <2> QED  BY <2>1, <2>2, <2>3, <2>4 DEF TimerNext
<1> QED
  BY <1>1, <1>2, SleepAlways, PTL DEF TimerSpec

-----------------------------------------------------------------------------
(* The parts together                                                      *)

\* A behaviour of the whole is one of each part: two of them stand still.
THEOREM PartsAreRun == UpstreamSpec => Spec /\ CatalogSpec /\ TimerSpec
<1>1. UpstreamInit => Init /\ CatalogInit /\ TimerInit
  BY DEF UpstreamInit
<1>2. [UpstreamNext]_<<part, fetchVars, catalogVars, timerVars>> =>
        [Next]_fetchVars /\ [CatalogNext]_catalogVars /\ [TimerNext]_timerVars
  BY DEF UpstreamNext
<1> QED
  BY <1>1, <1>2, PTL DEF UpstreamSpec, Spec, CatalogSpec, TimerSpec

\* The state of each part is well typed, whichever of them runs.
THEOREM UpstreamTypeCorrect ==
  ASSUME FetcherAssumption, CatalogAssumption, TimerAssumption, ShiftAssumption
  PROVE  UpstreamSpec => []UpstreamTypeOK
<1>1. FetcherInv /\ CatalogInv /\ TimerTypeOK => UpstreamTypeOK
  BY DEF FetcherInv, CatalogInv, UpstreamTypeOK
<1> QED
  BY <1>1, PartsAreRun, FetcherAlways, CatalogAlways, TimerTypes, PTL
=============================================================================
