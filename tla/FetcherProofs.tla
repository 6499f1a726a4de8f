----------------------------- MODULE FetcherProofs -----------------------------
(***************************************************************************)
(* What a fetch that succeeds has got, for any providers, files and number *)
(* of publications while it runs, and when two fetches have the same hash. *)
(***************************************************************************)
EXTENDS Integers, Fetcher, FiniteSetTheorems, SequenceTheorems, WellFoundedInduction, TLAPS

\* The number of requests of a job, and of those that have been answered.
Total == 2 * Len(job.providers)
Done == Total - Len(unread)

\* What is still to be requested is the rest of the job's requests.
AskInv ==
  /\ Len(unread) <= Total
  /\ \A k \in 1 .. Len(unread) : unread[k] = Asked(job, Done + k)

\* A list got is a whole and good file that was served during the fetch.
IsGood(i, f, list) ==
  \E v \in served[job.providers[i]] : ~Refuse(v[f]) /\ list = Parse(v[f])

\* What has been got is one good list for every request answered.
GotInv ==
  /\ ~Fetching => got = <<>>
  /\ Fetching =>
    /\ \A p \in Providers : source[p] \in served[p]
    /\ Len(got) = (Done + 1) \div 2
    /\ \A i \in 1 .. Len(got) :
         IsGood(i, "v4", got[i]["v4"]) /\ (2 * i <= Done => IsGood(i, "v6", got[i]["v6"]))

\* A list that repeats nothing is determined by its ranges.
Canonical(list) == ~Repeats(list) => list = Ordered(Range(list))
OrderInv ==
  /\ \A i \in DOMAIN got, f \in Families : Canonical(got[i][f])
  /\ \A f \in Families : Canonical(outcome.lists[f])

FetcherInv == TypeOK /\ AskInv /\ GotInv /\ OrderInv

-----------------------------------------------------------------------------
(* Putting lines in order                                                  *)

LEMMA Least ==
  ASSUME NEW S \in SUBSET Nat, S # {}
  PROVE  \E n \in S : \A m \in S : n <= m
<1>1. PICK n \in S : \A m \in SetLessThan(n, OpToRel(<, Nat), Nat) : m \notin S
  BY NatLessThanWellFounded, WFMin DEF SetLessThan
<1>2. \A m \in S : ~(m < n)
  BY <1>1 DEF SetLessThan, OpToRel
<1> QED  BY <1>2

LEMMA UpToType ==
  ASSUME NEW D, IsFiniteSet(D), NEW f \in [D -> Nat]
  PROVE  /\ Cardinality(D) \in Nat
         /\ \A n : /\ UpTo(f, n) \in Nat /\ UpTo(f, n) <= Cardinality(D)
                  /\ IsFiniteSet({i \in D : f[i] <= n})
<1>1. ASSUME NEW n
      PROVE  /\ UpTo(f, n) \in Nat /\ UpTo(f, n) <= Cardinality(D)
             /\ IsFiniteSet({i \in D : f[i] <= n})
  <2>1. {i \in D : f[i] <= n} \in SUBSET D /\ DOMAIN f = D
    OBVIOUS
  <2> QED  BY <2>1, FS_Subset, FS_CardinalityType DEF UpTo
<1> QED  BY <1>1, FS_CardinalityType

\* More lines are up to a line than up to what is below it.
LEMMA UpToGrows ==
  ASSUME NEW D, IsFiniteSet(D), NEW f \in [D -> Nat], NEW i \in D, NEW n \in Nat, n < f[i]
  PROVE  UpTo(f, n) < UpTo(f, f[i])
<1> DEFINE small == {j \in D : f[j] <= n}
           large == {j \in D : f[j] <= f[i]}
<1>1. small \in SUBSET large /\ i \in large /\ i \notin small
  OBVIOUS
<1>2. IsFiniteSet(small) /\ IsFiniteSet(large)
  BY UpToType
<1>3. Cardinality(small) <= Cardinality(large) /\ Cardinality(small) # Cardinality(large)
  BY <1>1, <1>2, FS_Subset
<1>4. UpTo(f, n) = Cardinality(small) /\ UpTo(f, f[i]) = Cardinality(large)
  BY DEF UpTo
<1>5. Cardinality(small) \in Nat /\ Cardinality(large) \in Nat
  BY <1>2, FS_CardinalityType
<1> HIDE DEF small, large
<1> QED  BY <1>3, <1>4, <1>5

\* Up to the greatest line, there are all.
LEMMA UpToGreatest ==
  ASSUME NEW D, IsFiniteSet(D), NEW f \in [D -> Nat], D # {}
  PROVE  \E i \in D : UpTo(f, f[i]) = Cardinality(D)
<1> DEFINE above(i) == Cardinality(D) - UpTo(f, f[i])
           S == {above(i) : i \in D}
<1>0. \A n : UpTo(f, n) \in Nat /\ UpTo(f, n) <= Cardinality(D) /\ Cardinality(D) \in Nat
  BY UpToType
<1>1. \A i \in D : above(i) \in Nat
  BY <1>0
<1>2. PICK i \in D : \A j \in D : above(i) <= above(j)
  <2>1. S \in SUBSET Nat /\ S # {}
    BY <1>1
  <2>2. PICK n \in S : \A m \in S : n <= m
    BY <2>1, Least
  <2> QED  BY <2>2
<1>3. \A j \in D : f[j] <= f[i]
  <2>1. ASSUME NEW j \in D, f[i] < f[j] PROVE FALSE
    <3>1. UpTo(f, f[i]) < UpTo(f, f[j])
      BY <2>1, UpToGrows
    <3> QED  BY <3>1, <1>0, <1>2
  <2> QED  BY <2>1
<1>4. {j \in DOMAIN f : f[j] <= f[i]} = D
  BY <1>3
<1> QED  BY <1>4 DEF UpTo

\* The k-th line exists, and there is only one.
LEMMA KthExists ==
  ASSUME NEW D, IsFiniteSet(D), NEW f \in [D -> Nat], NEW k \in 1 .. Cardinality(D)
  PROVE  \E n \in Range(f) : IsKth(f, k, n)
<1> DEFINE S == {n \in Range(f) : k <= UpTo(f, n)}
<1>1. D # {} /\ Cardinality(D) \in Nat
  BY FS_EmptySet, FS_CardinalityType
<1>2. PICK i \in D : UpTo(f, f[i]) = Cardinality(D)
  BY <1>1, UpToGreatest
<1>3. f[i] \in S /\ S \in SUBSET Nat
  BY <1>1, <1>2 DEF Range
<1>4. PICK n \in S : \A m \in S : n <= m
  BY <1>3, Least
<1> QED  BY <1>4 DEF IsKth

LEMMA KthIsUnique ==
  ASSUME NEW D, NEW f \in [D -> Nat], NEW k,
         NEW n \in Range(f), NEW m \in Range(f), IsKth(f, k, n), IsKth(f, k, m)
  PROVE  n = m
<1>1. n \in Nat /\ m \in Nat
  BY DEF Range
<1> QED  BY <1>1 DEF IsKth

LEMMA AscendingKth ==
  ASSUME NEW D, IsFiniteSet(D), NEW f \in [D -> Nat]
  PROVE  /\ Ascending(f) \in Seq(Range(f)) /\ Len(Ascending(f)) = Cardinality(D)
         /\ \A k \in 1 .. Cardinality(D) :
              Ascending(f)[k] \in Range(f) /\ IsKth(f, k, Ascending(f)[k])
<1> DEFINE n == Cardinality(D)
<1>1. n \in Nat /\ DOMAIN f = D
  BY FS_CardinalityType
<1>2. Ascending(f) = [k \in 1 .. n |-> CHOOSE x \in Range(f) : IsKth(f, k, x)]
  BY <1>1 DEF Ascending
<1>3. ASSUME NEW k \in 1 .. n
      PROVE  Ascending(f)[k] \in Range(f) /\ IsKth(f, k, Ascending(f)[k])
  <2>1. \E x \in Range(f) : IsKth(f, k, x)
    BY KthExists
  <2>2. Ascending(f)[k] = CHOOSE x \in Range(f) : IsKth(f, k, x)
    BY <1>2, <1>3
  <2> QED  BY <2>1, <2>2
<1>4. Ascending(f) \in [1 .. n -> Range(f)]
  BY <1>2, <1>3
<1> HIDE DEF n
<1> QED  BY <1>1, <1>3, <1>4 DEF n

\* Nothing is lost and nothing is added.
LEMMA AscendingRange ==
  ASSUME NEW D, IsFiniteSet(D), NEW f \in [D -> Nat]
  PROVE  Range(Ascending(f)) = Range(f)
<1> DEFINE s == Ascending(f)
<1>1. /\ s \in Seq(Range(f)) /\ Len(s) = Cardinality(D)
      /\ \A k \in 1 .. Cardinality(D) : s[k] \in Range(f) /\ IsKth(f, k, s[k])
  BY AscendingKth
<1>2. DOMAIN s = 1 .. Cardinality(D)
  BY <1>1
<1>3. Range(s) \subseteq Range(f)
  BY <1>1, <1>2 DEF Range
<1>4. ASSUME NEW i \in D PROVE f[i] \in Range(s)
  <2> DEFINE k == UpTo(f, f[i])
  <2>0. /\ Cardinality(D) \in Nat /\ \A n : UpTo(f, n) \in Nat /\ UpTo(f, n) <= Cardinality(D)
        /\ IsFiniteSet({j \in D : f[j] <= f[i]})
    BY UpToType
  <2>1. k \in 1 .. Cardinality(D)
    <3>1. i \in {j \in D : f[j] <= f[i]} /\ DOMAIN f = D
      OBVIOUS
    <3>2. Cardinality({j \in D : f[j] <= f[i]}) # 0
      BY <2>0, <3>1, FS_EmptySet
    <3>3. k # 0
      BY <3>1, <3>2 DEF UpTo
    <3> QED  BY <3>3, <2>0
  <2>2. s[k] \in Range(f) /\ IsKth(f, k, s[k])
    BY <1>1, <2>1
  <2>3. f[i] \in Range(f) /\ s[k] \in Nat /\ k <= k
    BY <2>1, <2>2 DEF Range
  <2>4. s[k] <= f[i] /\ k <= UpTo(f, s[k])
    BY <2>2, <2>3 DEF IsKth
  <2>5. ~(s[k] < f[i])
    <3>1. ASSUME s[k] < f[i] PROVE UpTo(f, s[k]) < k
      BY <2>3, <3>1, UpToGrows
    <3> QED  BY <3>1, <2>0, <2>4
  <2>6. s[k] = f[i]
    BY <2>3, <2>4, <2>5
  <2> QED  BY <1>2, <2>1, <2>6 DEF Range
<1>5. Range(f) \subseteq Range(s)
  BY <1>4 DEF Range
<1> QED  BY <1>3, <1>5

\* The order depends only on which lines there are, and how often.
LEMMA SameOrder ==
  ASSUME NEW D, IsFiniteSet(D), NEW f \in [D -> Nat],
         NEW E, IsFiniteSet(E), NEW g \in [E -> Nat],
         Range(f) = Range(g), Cardinality(D) = Cardinality(E),
         \A n \in Range(f) : UpTo(f, n) = UpTo(g, n)
  PROVE  Ascending(f) = Ascending(g)
<1>1. /\ Ascending(f) \in Seq(Range(f)) /\ Len(Ascending(f)) = Cardinality(D)
      /\ Ascending(g) \in Seq(Range(f)) /\ Len(Ascending(g)) = Cardinality(D)
  BY AscendingKth
<1>2. ASSUME NEW k \in 1 .. Cardinality(D) PROVE Ascending(f)[k] = Ascending(g)[k]
  <2>1. /\ Ascending(f)[k] \in Range(f) /\ IsKth(f, k, Ascending(f)[k])
        /\ Ascending(g)[k] \in Range(f) /\ IsKth(g, k, Ascending(g)[k])
    BY AscendingKth
  <2>2. IsKth(f, k, Ascending(g)[k])
    BY <2>1 DEF IsKth
  <2> QED  BY <2>1, <2>2, KthIsUnique
<1> QED  BY <1>1, <1>2

\* Lines that do not repeat are ordered as their set is.
LEMMA OrderOfDistinct ==
  ASSUME NEW D, IsFiniteSet(D), NEW f \in [D -> Nat],
         \A i, j \in D : f[i] = f[j] => i = j
  PROVE  Ascending(f) = Ordered(Range(f))
<1> DEFINE S == Range(f)
           g == [n \in S |-> n]
<1>1. f \in Bijection(D, S) /\ S \in SUBSET Nat
  BY DEF Bijection, Injection, Surjection, IsInjective, Range
<1>2. IsFiniteSet(S) /\ Cardinality(S) = Cardinality(D)
  BY <1>1, FS_Bijection DEF ExistsBijection
<1>3. g \in [S -> Nat] /\ Range(g) = S /\ DOMAIN f = D
  BY <1>1 DEF Range
<1>4. ASSUME NEW n \in S PROVE UpTo(f, n) = UpTo(g, n)
  <2> DEFINE A == {i \in D : f[i] <= n}
             B == {m \in S : m <= n}
             h == [i \in A |-> f[i]]
  <2>1. h \in Bijection(A, B)
    BY DEF Bijection, Injection, Surjection, IsInjective, Range
  <2>2. IsFiniteSet(A)
    BY UpToType
  <2>3. Cardinality(A) = Cardinality(B)
    BY <2>1, <2>2, FS_Bijection DEF ExistsBijection
  <2>4. {m \in S : g[m] <= n} = B
    OBVIOUS
  <2> QED  BY <1>3, <2>3, <2>4 DEF UpTo
<1> HIDE DEF g
<1>5. Ascending(f) = Ascending(g)
  BY <1>2, <1>3, <1>4, SameOrder
<1> QED  BY <1>5 DEF g, Ordered

\* What Ascending makes of a function has the lines of the function, and is
\* determined by them unless it repeats one.
LEMMA Listed ==
  ASSUME Nets \subseteq Nat, NEW D, IsFiniteSet(D), NEW f \in [D -> Nets]
  PROVE  /\ Ascending(f) \in Seq(Nets) /\ Range(Ascending(f)) = Range(f)
         /\ Canonical(Ascending(f))
<1> DEFINE s == Ascending(f)
<1>1. f \in [D -> Nat] /\ Range(f) \subseteq Nets
  BY DEF Range
<1>2. s \in Seq(Range(f)) /\ Len(s) = Cardinality(D) /\ Range(s) = Range(f)
  BY <1>1, AscendingKth, AscendingRange
<1>3. ASSUME ~Repeats(s) PROVE s = Ordered(Range(s))
  <2>1. f \in Surjection(D, Range(f))
    BY DEF Surjection, Range
  <2>2. /\ IsFiniteSet(Range(f)) /\ Cardinality(Range(f)) <= Cardinality(D)
        /\ Cardinality(Range(f)) = Cardinality(D) <=> f \in Injection(D, Range(f))
    BY <2>1, FS_Surjection
  <2>3. Cardinality(Range(f)) \in Nat /\ Cardinality(D) \in Nat
    BY <2>2, FS_CardinalityType
  <2>4. Cardinality(Range(f)) = Cardinality(D)
    BY <1>2, <1>3, <2>2, <2>3 DEF Repeats
  <2>5. \A i, j \in D : f[i] = f[j] => i = j
    BY <2>2, <2>4 DEF Injection, IsInjective
  <2> QED  BY <1>1, <1>2, <2>5, OrderOfDistinct
<1>4. s \in Seq(Nets)
  BY <1>1, <1>2
<1> QED  BY <1>2, <1>3, <1>4 DEF Canonical

LEMMA OrderedIs ==
  ASSUME Nets \subseteq Nat, NEW S \in SUBSET Nets, IsFiniteSet(S)
  PROVE  Ordered(S) \in Seq(Nets) /\ Range(Ordered(S)) = S /\ Canonical(Ordered(S))
<1> DEFINE f == [n \in S |-> n]
<1>1. f \in [S -> Nets] /\ Range(f) = S
  BY DEF Range
<1> HIDE DEF f
<1>2. Ascending(f) \in Seq(Nets) /\ Range(Ascending(f)) = S /\ Canonical(Ascending(f))
  BY <1>1, Listed
<1> QED  BY <1>2 DEF f, Ordered

LEMMA FiniteRange ==
  ASSUME NEW S, NEW s \in Seq(S)
  PROVE  IsFiniteSet(Range(s)) /\ Range(s) \in SUBSET S /\ DOMAIN s = 1 .. Len(s)
<1>1. s \in Surjection(1 .. Len(s), Range(s)) /\ DOMAIN s = 1 .. Len(s) /\ Len(s) \in Nat
  BY DEF Surjection, Range
<1>2. IsFiniteSet(1 .. Len(s))
  BY <1>1, FS_Interval
<1> QED  BY <1>1, <1>2, FS_Surjection DEF Range

\* No line at all.
LEMMA EmptyList == Canonical(<<>>) /\ <<>> \in Seq(Nets)
<1> DEFINE f == [n \in {} |-> n]
<1>1. Range(<<>>) = {} /\ DOMAIN f = {}
  BY DEF Range
<1>2. Ascending(f) = <<>>
  BY <1>1, FS_EmptySet DEF Ascending
<1> QED  BY <1>1, <1>2 DEF Canonical, Ordered

LEMMA ParseIs ==
  ASSUME Nets \subseteq Nat, NEW file \in Files
  PROVE  Parse(file) \in Seq(Nets) /\ Canonical(Parse(file))
<1>1. CASE file = Missing
  BY <1>1, EmptyList DEF Parse
<1>2. CASE file # Missing
  <2> DEFINE good == {i \in DOMAIN file : file[i] \in Nets}
             f == [i \in good |-> file[i]]
  <2>1. file \in Seq(Nets \cup {Bad})
    BY <1>2 DEF Files
  <2>2. good \in SUBSET (1 .. Len(file)) /\ Len(file) \in Nat
    BY <2>1
  <2>3. IsFiniteSet(good)
    BY <2>2, FS_Interval, FS_Subset
  <2>4. f \in [good -> Nets]
    OBVIOUS
  <2>5. Parse(file) = Ascending(f)
    BY <1>2 DEF Parse, Restrict
  <2> HIDE DEF good, f
  <2> QED  BY <2>3, <2>4, <2>5, Listed
<1> QED  BY <1>1, <1>2

-----------------------------------------------------------------------------
(* Merging                                                                 *)

\* The ranges of several lists are theirs together.
LEMMA MergeIs ==
  ASSUME Nets \subseteq Nat, NEW all \in Seq(Lists), all # <<>>, NEW f \in Families,
         \A i \in DOMAIN all : Canonical(all[i][f])
  PROVE  /\ Merge(all) \in Lists
         /\ Range(Merge(all)[f]) = UNION {Range(all[i][f]) : i \in DOMAIN all}
         /\ Canonical(Merge(all)[f])
<1> DEFINE U(g) == UNION {Range(all[i][g]) : i \in DOMAIN all}
<1>1. DOMAIN all = 1 .. Len(all) /\ Len(all) \in Nat \ {0} /\ \A i \in DOMAIN all : all[i] \in Lists
  OBVIOUS
<1>2. ASSUME NEW g \in Families
      PROVE  U(g) \in SUBSET Nets /\ IsFiniteSet(U(g))
  <2> DEFINE r == [i \in 1 .. Len(all) |-> Range(all[i][g])]
             T == {Range(all[i][g]) : i \in DOMAIN all}
  <2>1. \A i \in DOMAIN all : IsFiniteSet(Range(all[i][g])) /\ Range(all[i][g]) \in SUBSET Nets
    <3>1. \A i \in DOMAIN all : all[i][g] \in Seq(Nets)
      BY <1>1 DEF Lists
    <3> QED  BY <3>1, FiniteRange
  <2>2. r \in Surjection(1 .. Len(all), T)
    BY <1>1 DEF Surjection
  <2>3. IsFiniteSet(T)
    BY <1>1, <2>2, FS_Interval, FS_Surjection
  <2>4. \A t \in T : IsFiniteSet(t)
    BY <2>1
  <2>5. IsFiniteSet(UNION T)
    BY <2>3, <2>4, FS_UNION
  <2> QED  BY <2>1, <2>5
<1>3. CASE Len(all) = 1
  <2>1. Merge(all) = all[1] /\ DOMAIN all = {1}
    BY <1>1, <1>3 DEF Merge
  <2> QED  BY <1>1, <2>1
<1>4. CASE Len(all) # 1
  <2> HIDE DEF U
  <2>1. Merge(all) = [g \in Families |-> Ordered(U(g))]
    BY <1>4 DEF Merge, U
  <2>2. \A g \in Families :
          /\ Ordered(U(g)) \in Seq(Nets) /\ Range(Ordered(U(g))) = U(g)
          /\ Canonical(Ordered(U(g)))
    BY <1>2, OrderedIs
  <2>3. Merge(all) \in Lists
    BY <2>1, <2>2 DEF Lists
  <2>4. Merge(all)[f] = Ordered(U(f))
    BY <2>1
  <2> QED  BY <2>2, <2>3, <2>4 DEF U
<1> QED  BY <1>3, <1>4

LEMMA WithExtraIs ==
  ASSUME Nets \subseteq Nat, NEW lists \in Lists, NEW f \in Families,
         job.extra \in [Families -> SUBSET Nets],
         \A g \in Families : IsFiniteSet(job.extra[g]), Canonical(lists[f])
  PROVE  /\ WithExtra(lists) \in Lists
         /\ Range(WithExtra(lists)[f]) = job.extra[f] \cup Range(lists[f])
         /\ Canonical(WithExtra(lists)[f])
<1> DEFINE U(g) == Range(lists[g]) \cup job.extra[g]
<1>1. ASSUME NEW g \in Families
      PROVE  U(g) \in SUBSET Nets /\ IsFiniteSet(U(g))
  <2>1. lists[g] \in Seq(Nets) /\ IsFiniteSet(job.extra[g]) /\ job.extra[g] \in SUBSET Nets
    BY DEF Lists
  <2>2. IsFiniteSet(Range(lists[g])) /\ Range(lists[g]) \in SUBSET Nets
    BY <2>1, FiniteRange
  <2> QED  BY <2>1, <2>2, FS_Union
<1>2. CASE \A g \in Families : job.extra[g] = {}
  BY <1>2 DEF WithExtra
<1>3. CASE ~\A g \in Families : job.extra[g] = {}
  <2> HIDE DEF U
  <2>1. WithExtra(lists) = [g \in Families |-> Ordered(U(g))]
    BY <1>3 DEF WithExtra, U
  <2>2. \A g \in Families :
          /\ Ordered(U(g)) \in Seq(Nets) /\ Range(Ordered(U(g))) = U(g)
          /\ Canonical(Ordered(U(g)))
    BY <1>1, OrderedIs
  <2>3. WithExtra(lists) \in Lists
    BY <2>1, <2>2 DEF Lists
  <2>4. WithExtra(lists)[f] = Ordered(U(f))
    BY <2>1
  <2> QED  BY <2>2, <2>3, <2>4 DEF U
<1> QED  BY <1>2, <1>3

-----------------------------------------------------------------------------
(* The fetch                                                               *)

LEMMA EvenOrOdd == \A n \in Nat : \E c \in Nat : n = 2 * c \/ n = 2 * c + 1
<1>1. ASSUME NEW n \in Nat PROVE \E c \in Nat : n = 2 * c \/ n = 2 * c + 1
  <2>1. n \div 2 \in Nat /\ (n = 2 * (n \div 2) \/ n = 2 * (n \div 2) + 1)
    OBVIOUS
  <2> QED  BY <2>1
<1> QED  BY <1>1

\* What is asked for next, and what has been got by then.
LEMMA Position ==
  ASSUME FetcherAssumption, FetcherInv, Fetching
  PROVE  \E c \in Nat :
           /\ c < Len(job.providers) /\ Len(unread) \in Nat \ {0}
           /\ \/ /\ Done = 2 * c /\ Len(got) = c
                 /\ Head(unread) = <<job.providers[c + 1], "v4">>
              \/ /\ Done = 2 * c + 1 /\ Len(got) = c + 1
                 /\ Head(unread) = <<job.providers[c + 1], "v6">>
<1>1. /\ job.providers \in Seq(Providers) /\ Len(job.providers) \in Nat
      /\ unread \in Seq(Providers \X Families) /\ Len(unread) \in Nat \ {0}
      /\ Len(unread) <= Total
  BY DEF FetcherAssumption, FetcherInv, TypeOK, AskInv, Fetching
<1>2. Done \in Nat /\ Done < Total /\ Total = 2 * Len(job.providers)
  BY <1>1 DEF Done, Total
<1>3. Head(unread) = Asked(job, Done + 1) /\ Len(got) = (Done + 1) \div 2
  BY <1>1 DEF FetcherInv, AskInv, GotInv, Fetching
<1>4. PICK c \in Nat : Done = 2 * c \/ Done = 2 * c + 1
  BY <1>2, EvenOrOdd
<1>5. c < Len(job.providers)
  BY <1>1, <1>2, <1>4
<1>6. CASE Done = 2 * c
  <2>1. (Done + 1) \div 2 = c /\ (Done + 1 + 1) \div 2 = c + 1 /\ (Done + 1) % 2 = 1
    BY <1>6
  <2> QED  BY <1>1, <1>3, <1>5, <1>6, <2>1 DEF Asked
<1>7. CASE Done = 2 * c + 1
  <2>1. (Done + 1) \div 2 = c + 1 /\ (Done + 1 + 1) \div 2 = c + 1 /\ (Done + 1) % 2 = 0
    BY <1>7
  <2> QED  BY <1>1, <1>3, <1>5, <1>7, <2>1 DEF Asked
<1> QED  BY <1>4, <1>6, <1>7

\* The lists got, once the next one has been read.
ReadSoFar ==
  LET file == source[Head(unread)[1]][Head(unread)[2]]
  IN IF Head(unread)[2] = "v4" THEN Append(got, [NoLists EXCEPT !.v4 = Parse(file)])
     ELSE [got EXCEPT ![Len(got)].v6 = Parse(file)]

LEMMA ReadListIs ==
  ASSUME ReadList
  PROVE  /\ Fetching /\ UNCHANGED <<source, job, published>>
         /\ \/ End(Error)
            \/ /\ ~Refuse(source[Head(unread)[1]][Head(unread)[2]])
               /\ \/ /\ Len(unread) = 1
                     /\ End([ok |-> TRUE, label |-> job.providers,
                             lists |-> WithExtra(Merge(ReadSoFar))])
                  \/ /\ Len(unread) # 1
                     /\ got' = ReadSoFar /\ unread' = Tail(unread)
                     /\ UNCHANGED <<outcome, served>>
  BY Zenon DEF ReadList, ReadSoFar

\* It is one more list that is whole, good, and in order.
LEMMA Grows ==
  ASSUME FetcherAssumption, FetcherInv, Fetching,
         ~Refuse(source[Head(unread)[1]][Head(unread)[2]])
  PROVE  /\ ReadSoFar \in Seq(Lists) /\ Len(ReadSoFar) = (Done + 2) \div 2
         /\ \A i \in 1 .. Len(ReadSoFar) :
              /\ IsGood(i, "v4", ReadSoFar[i]["v4"])
              /\ 2 * i <= Done + 1 => IsGood(i, "v6", ReadSoFar[i]["v6"])
         /\ \A i \in 1 .. Len(ReadSoFar), f \in Families : Canonical(ReadSoFar[i][f])
<1>1. PICK c \in Nat :
           /\ c < Len(job.providers) /\ Len(unread) \in Nat \ {0}
           /\ \/ /\ Done = 2 * c /\ Len(got) = c
                 /\ Head(unread) = <<job.providers[c + 1], "v4">>
              \/ /\ Done = 2 * c + 1 /\ Len(got) = c + 1
                 /\ Head(unread) = <<job.providers[c + 1], "v6">>
  BY Position
<1> DEFINE p == job.providers[c + 1]
           f == Head(unread)[2]
           file == source[p][f]
<1>2. /\ Nets \subseteq Nat /\ job.providers \in Seq(Providers) /\ p \in Providers
      /\ f \in Families /\ Head(unread)[1] = p
      /\ got \in Seq(Lists) /\ DOMAIN got = 1 .. Len(got)
  <2>1. job.providers \in Seq(Providers) /\ Nets \subseteq Nat /\ got \in Seq(Lists)
    BY DEF FetcherAssumption, FetcherInv, TypeOK
  <2>2. p \in Providers
    BY <1>1, <2>1
  <2> QED  BY <1>1, <2>1, <2>2 DEF Families
<1>3. source[p] \in served[p] /\ source[p] \in Versions
  BY <1>2 DEF FetcherInv, GotInv, TypeOK
<1>4. file \in Files
  BY <1>2, <1>3 DEF FetcherAssumption
<1>5. Parse(file) \in Seq(Nets) /\ Canonical(Parse(file)) /\ <<>> \in Seq(Nets) /\ Canonical(<<>>)
  BY <1>2, <1>4, ParseIs, EmptyList
<1>6. IsGood(c + 1, f, Parse(file))
  BY <1>2, <1>3 DEF IsGood
<1>7. \A i \in 1 .. Len(got) :
        /\ IsGood(i, "v4", got[i]["v4"]) /\ (2 * i <= Done => IsGood(i, "v6", got[i]["v6"]))
        /\ \A g \in Families : Canonical(got[i][g])
  BY <1>2 DEF FetcherInv, GotInv, OrderInv
<1>8. CASE f = "v4"
  <2> DEFINE l == [NoLists EXCEPT !.v4 = Parse(file)]
  <2>1. Done = 2 * c /\ Len(got) = c
    BY <1>1, <1>8
  <2>2. ReadSoFar = Append(got, l)
    BY <1>2, <1>8 DEF ReadSoFar
  <2>3. /\ l \in Lists /\ l["v4"] = Parse(file)
        /\ \A g \in Families : Canonical(l[g])
    BY <1>5 DEF NoLists, Lists, Families
  <2> HIDE DEF l
  <2>4. /\ ReadSoFar \in Seq(Lists) /\ Len(ReadSoFar) = c + 1
        /\ \A i \in 1 .. c : ReadSoFar[i] = got[i]
        /\ ReadSoFar[c + 1] = l
    BY <1>2, <2>1, <2>2, <2>3
  <2>5. (Done + 2) \div 2 = c + 1
    BY <2>1
  <2>6. ASSUME NEW i \in 1 .. c + 1
        PROVE  /\ IsGood(i, "v4", ReadSoFar[i]["v4"])
               /\ 2 * i <= Done + 1 => IsGood(i, "v6", ReadSoFar[i]["v6"])
               /\ \A g \in Families : Canonical(ReadSoFar[i][g])
    <3>1. CASE i \in 1 .. c
      <4>1. 2 * i <= Done
        BY <2>1, <3>1
      <4> QED  BY <1>7, <2>1, <2>4, <3>1, <4>1
    <3>2. CASE i = c + 1
      <4>1. ~(2 * i <= Done + 1)
        BY <2>1, <3>2
      <4> QED  BY <1>6, <1>8, <2>3, <2>4, <3>2, <4>1
    <3> QED  BY <3>1, <3>2
  <2> QED  BY <2>4, <2>5, <2>6
<1>9. CASE f = "v6"
  <2> DEFINE l == [got[c + 1] EXCEPT !.v6 = Parse(file)]
  <2>1. Done = 2 * c + 1 /\ Len(got) = c + 1
    BY <1>1, <1>9
  <2>2. ReadSoFar = [got EXCEPT ![c + 1] = l]
    BY <1>2, <1>9, <2>1 DEF ReadSoFar
  <2>3. got[c + 1] \in Lists
    BY <1>2, <2>1
  <2>4. /\ l \in Lists /\ l["v6"] = Parse(file) /\ l["v4"] = got[c + 1]["v4"]
    BY <1>5, <2>3 DEF Lists, Families
  <2> HIDE DEF l
  <2>5. /\ ReadSoFar \in Seq(Lists) /\ Len(ReadSoFar) = c + 1
        /\ \A i \in 1 .. c : ReadSoFar[i] = got[i]
        /\ ReadSoFar[c + 1] = l
    BY <1>2, <2>1, <2>2, <2>4
  <2>6. (Done + 2) \div 2 = c + 1
    BY <2>1
  <2>7. ASSUME NEW i \in 1 .. c + 1
        PROVE  /\ IsGood(i, "v4", ReadSoFar[i]["v4"])
               /\ 2 * i <= Done + 1 => IsGood(i, "v6", ReadSoFar[i]["v6"])
               /\ \A g \in Families : Canonical(ReadSoFar[i][g])
    <3>1. CASE i \in 1 .. c
      <4>1. 2 * i <= Done
        BY <2>1, <3>1
      <4> QED  BY <1>7, <2>1, <2>5, <3>1, <4>1
    <3>2. CASE i = c + 1
      <4>1. IsGood(i, "v4", ReadSoFar[i]["v4"]) /\ IsGood(i, "v6", ReadSoFar[i]["v6"])
        BY <1>6, <1>7, <1>9, <2>1, <2>4, <2>5, <3>2
      <4>2. Canonical(ReadSoFar[i]["v4"]) /\ Canonical(ReadSoFar[i]["v6"])
        BY <1>5, <1>7, <2>1, <2>4, <2>5, <3>2 DEF Families
      <4> QED  BY <4>1, <4>2 DEF Families
    <3> QED  BY <3>1, <3>2
  <2> QED  BY <2>5, <2>6, <2>7
<1> QED  BY <1>2, <1>8, <1>9 DEF Families

\* With the last list, there is one good list per provider and family.
LEMMA Complete ==
  ASSUME FetcherAssumption, FetcherInv, ReadList, ~End(Error), Len(unread) = 1
  PROVE  /\ ReadSoFar \in Seq(Lists) /\ ReadSoFar # <<>>
         /\ DOMAIN ReadSoFar = DOMAIN job.providers
         /\ \A i \in DOMAIN ReadSoFar, f \in Families :
              IsGood(i, f, ReadSoFar[i][f]) /\ Canonical(ReadSoFar[i][f])
<1>1. Fetching /\ ~Refuse(source[Head(unread)[1]][Head(unread)[2]])
  BY ReadListIs
<1>2. /\ ReadSoFar \in Seq(Lists) /\ Len(ReadSoFar) = (Done + 2) \div 2
      /\ \A i \in 1 .. Len(ReadSoFar) :
           /\ IsGood(i, "v4", ReadSoFar[i]["v4"])
           /\ 2 * i <= Done + 1 => IsGood(i, "v6", ReadSoFar[i]["v6"])
      /\ \A i \in 1 .. Len(ReadSoFar), f \in Families : Canonical(ReadSoFar[i][f])
  BY <1>1, Grows
<1>3. job.providers \in Seq(Providers) /\ job.providers # <<>>
  BY DEF FetcherAssumption, FetcherInv, TypeOK
<1>4. PICK n \in Nat : n = Len(job.providers) /\ n # 0 /\ Done = 2 * n - 1
  BY <1>3 DEF Done, Total
<1>5. Len(ReadSoFar) = n
  <2>1. Done + 2 = 2 * n + 1
    BY <1>4
  <2>2. (2 * n + 1) \div 2 = n
    OBVIOUS
  <2> QED  BY <1>2, <2>1, <2>2
<1>6. DOMAIN ReadSoFar = 1 .. n /\ DOMAIN job.providers = 1 .. n
  <2>1. ReadSoFar \in Seq(Lists)
    BY <1>2
  <2>2. DOMAIN ReadSoFar = 1 .. Len(ReadSoFar) /\ DOMAIN job.providers = 1 .. Len(job.providers)
    BY <1>3, <2>1
  <2> QED  BY <1>4, <1>5, <2>2
<1>7. ASSUME NEW i \in 1 .. n PROVE 2 * i <= Done + 1
  BY <1>4
<1>8. ASSUME NEW i \in 1 .. n, NEW f \in Families
      PROVE  IsGood(i, f, ReadSoFar[i][f]) /\ Canonical(ReadSoFar[i][f])
  <2>1. IsGood(i, "v4", ReadSoFar[i]["v4"]) /\ IsGood(i, "v6", ReadSoFar[i]["v6"])
    BY <1>2, <1>5, <1>7
  <2> QED  BY <1>2, <1>5, <2>1 DEF Families
<1>9. ReadSoFar # <<>>
  BY <1>4, <1>6
<1> QED  BY <1>2, <1>6, <1>8, <1>9

LEMMA FetcherStarts == FetcherAssumption /\ Init => FetcherInv
<1> SUFFICES ASSUME FetcherAssumption, Init PROVE FetcherInv
  OBVIOUS
<1>1. job \in Jobs
  BY DEF Init, FetcherAssumption
<1>2. Error \in [ok : BOOLEAN, label : Seq(Providers), lists : Lists]
  BY EmptyList DEF Error, NoLists, Lists
<1>3. TypeOK
  BY <1>1, <1>2 DEF Init, TypeOK, FetcherAssumption
<1>4. job.providers \in Seq(Providers)
  BY <1>1 DEF FetcherAssumption
<1>5. AskInv
  BY <1>4 DEF Init, AskInv, Total
<1>6. GotInv /\ OrderInv
  BY EmptyList DEF Init, GotInv, OrderInv, Fetching, Error, NoLists
<1> QED  BY <1>3, <1>5, <1>6 DEF FetcherInv

\* The end of a fetch, with whatever result.
LEMMA Ends ==
  ASSUME FetcherAssumption, FetcherInv, UNCHANGED <<source, job, published>>,
         NEW result \in [ok : BOOLEAN, label : Seq(Providers), lists : Lists], End(result),
         \A f \in Families : Canonical(result.lists[f])
  PROVE  FetcherInv'
<1>1. job.providers \in Seq(Providers)
  BY DEF FetcherAssumption, FetcherInv, TypeOK
<1>2. TypeOK'
  BY DEF FetcherInv, TypeOK, End
<1>3. AskInv'
  BY <1>1 DEF End, AskInv, Total
<1>4. GotInv' /\ OrderInv'
  BY DEF End, GotInv, OrderInv, Fetching, Canonical, Repeats
<1> QED  BY <1>2, <1>3, <1>4 DEF FetcherInv

LEMMA ErrorEnds ==
  ASSUME FetcherAssumption, FetcherInv, UNCHANGED <<source, job, published>>, End(Error)
  PROVE  FetcherInv'
<1>1. Error \in [ok : BOOLEAN, label : Seq(Providers), lists : Lists]
  BY EmptyList DEF Error, NoLists, Lists
<1>2. \A f \in Families : Canonical(Error.lists[f])
  BY EmptyList DEF Error, NoLists
<1> QED  BY <1>1, <1>2, Ends

\* A fetch begins with nothing got, and knows what the source serves.
LEMMA Begins ==
  ASSUME FetcherAssumption, FetcherInv, Begin
  PROVE  FetcherInv'
<1>1. PICK j \in Jobs : /\ job' = j
                        /\ unread' = [n \in 1 .. 2 * Len(j.providers) |-> Asked(j, n)]
  BY DEF Begin
<1>2. /\ ~Fetching /\ served' = [p \in Providers |-> {source[p]}]
      /\ UNCHANGED <<source, got, outcome, published>>
  BY DEF Begin
<1>3. PICK n \in Nat : n = Len(j.providers) /\ n # 0 /\ j.providers \in [1 .. n -> Providers]
  BY DEF FetcherAssumption
<1>4. ASSUME NEW k \in 1 .. 2 * n PROVE Asked(j, k) \in Providers \X Families
  <2>1. (k + 1) \div 2 \in 1 .. n
    BY <1>3
  <2> QED  BY <1>3, <2>1 DEF Asked, Families
<1>5. unread' \in Seq(Providers \X Families) /\ Len(unread') = 2 * n
  BY <1>1, <1>3, <1>4
<1>6. TypeOK'
  <2>1. /\ source \in [Providers -> Versions] /\ got \in Seq(Lists) /\ published \in 0 .. MaxPublish
        /\ outcome \in [ok : BOOLEAN, label : Seq(Providers), lists : Lists]
    BY DEF FetcherInv, TypeOK
  <2>2. served' \in [Providers -> SUBSET Versions]
    BY <1>2, <2>1
  <2> QED  BY <1>1, <1>2, <1>5, <2>1, <2>2 DEF TypeOK
<1>7. Total' = 2 * n /\ Done' = 0
  BY <1>1, <1>3, <1>5 DEF Total, Done
<1>8. AskInv'
  <2>1. \A k \in 1 .. 2 * n : unread'[k] = Asked(j, 0 + k)
    BY <1>1, <1>3
  <2> QED  BY <1>1, <1>5, <1>7, <2>1 DEF AskInv, Asked
<1>9. GotInv'
  <2>1. got' = <<>> /\ Len(got') = 0
    BY <1>2 DEF FetcherInv, GotInv
  <2>2. (Done' + 1) \div 2 = 0
    BY <1>7
  <2>3. \A p \in Providers : source'[p] \in served'[p]
    BY <1>2
  <2> QED  BY <2>1, <2>2, <2>3 DEF GotInv
<1>10. OrderInv'
  BY <1>2 DEF FetcherInv, OrderInv, Canonical, Repeats
<1> QED  BY <1>6, <1>8, <1>9, <1>10 DEF FetcherInv

\* A list is read, and another one follows.
LEMMA Continues ==
  ASSUME FetcherAssumption, FetcherInv, Fetching,
         ~Refuse(source[Head(unread)[1]][Head(unread)[2]]), Len(unread) # 1,
         got' = ReadSoFar, unread' = Tail(unread),
         UNCHANGED <<source, job, published, outcome, served>>
  PROVE  FetcherInv'
<1>1. /\ ReadSoFar \in Seq(Lists) /\ Len(ReadSoFar) = (Done + 2) \div 2
      /\ \A i \in 1 .. Len(ReadSoFar) :
           /\ IsGood(i, "v4", ReadSoFar[i]["v4"])
           /\ 2 * i <= Done + 1 => IsGood(i, "v6", ReadSoFar[i]["v6"])
      /\ \A i \in 1 .. Len(ReadSoFar), f \in Families : Canonical(ReadSoFar[i][f])
  BY Grows
<1>2. PICK m \in Nat : m = Len(unread) /\ m > 1
  <2>1. unread \in Seq(Providers \X Families) /\ unread # <<>>
    BY DEF FetcherInv, TypeOK, Fetching
  <2>2. Len(unread) \in Nat /\ Len(unread) # 0 /\ Len(unread) # 1
    BY <2>1
  <2>3. \A n \in Nat : n # 0 /\ n # 1 => n > 1
    OBVIOUS
  <2> QED  BY <2>2, <2>3
<1>3. /\ unread' \in Seq(Providers \X Families) /\ Len(unread') = m - 1 /\ unread' # <<>>
      /\ \A k \in 1 .. m - 1 : unread'[k] = unread[k + 1]
  <2>1. unread \in Seq(Providers \X Families) /\ unread # <<>>
    BY DEF FetcherInv, TypeOK, Fetching
  <2>2. /\ Tail(unread) \in Seq(Providers \X Families) /\ Len(Tail(unread)) = m - 1
        /\ \A k \in 1 .. m - 1 : Tail(unread)[k] = unread[k + 1]
    BY <1>2, <2>1
  <2>3. Tail(unread) # <<>>
    <3>1. Len(Tail(unread)) # 0
      BY <1>2, <2>2
    <3> QED  BY <3>1, EmptySeq
  <2> QED  BY <2>2, <2>3
<1>4. TypeOK'
  BY <1>1, <1>3 DEF FetcherInv, TypeOK
<1>5. Total \in Nat /\ Total' = Total /\ Done \in Int /\ Done' = Done + 1
  <2>1. job.providers \in Seq(Providers)
    BY DEF FetcherAssumption, FetcherInv, TypeOK
  <2>2. Total \in Nat /\ Total' = Total
    BY <2>1 DEF Total
  <2> QED  BY <1>2, <1>3, <2>2 DEF Done
<1>6. AskInv'
  <2>1. m <= Total /\ \A k \in 1 .. m : unread[k] = Asked(job, Done + k)
    BY <1>2 DEF FetcherInv, AskInv
  <2>2. ASSUME NEW k \in 1 .. m - 1 PROVE unread'[k] = Asked(job, Done' + k)
    <3>1. k + 1 \in 1 .. m /\ Done + (k + 1) = Done' + k
      BY <1>2, <1>5
    <3> QED  BY <1>3, <2>1, <3>1
  <2>3. m - 1 <= Total
    BY <1>2, <1>5, <2>1
  <2>4. \A n : Asked(job, n)' = Asked(job, n)
    BY DEF Asked
  <2> QED  BY <1>3, <1>5, <2>2, <2>3, <2>4 DEF AskInv, Asked
<1>7. GotInv'
  <2>1. \A p \in Providers : source'[p] \in served'[p]
    BY DEF FetcherInv, GotInv
  <2>2. Len(got') = (Done' + 1) \div 2
    BY <1>1, <1>5
  <2>3. \A i, f, list : IsGood(i, f, list) => IsGood(i, f, list)'
    BY DEF IsGood, Refuse, Parse
  <2>4. ASSUME NEW i \in 1 .. Len(got')
        PROVE  /\ IsGood(i, "v4", got[i]["v4"])'
               /\ 2 * i <= Done' => IsGood(i, "v6", got[i]["v6"])'
    BY <1>1, <1>5, <2>3
  <2> QED  BY <1>3, <2>1, <2>2, <2>4 DEF GotInv, Fetching
<1>8. OrderInv'
  <2>1. DOMAIN ReadSoFar = 1 .. Len(ReadSoFar)
    BY <1>1
  <2> QED  BY <1>1, <2>1 DEF FetcherInv, OrderInv, Canonical, Repeats
<1> QED  BY <1>4, <1>6, <1>7, <1>8 DEF FetcherInv

\* The merged lists are in order and have the ranges of all that were read.
LEMMA ResultIs ==
  ASSUME FetcherAssumption, FetcherInv, ReadList, ~End(Error), Len(unread) = 1
  PROVE  /\ WithExtra(Merge(ReadSoFar)) \in Lists
         /\ \A f \in Families :
              /\ Canonical(WithExtra(Merge(ReadSoFar))[f])
              /\ Range(WithExtra(Merge(ReadSoFar))[f]) =
                   job.extra[f] \cup (UNION {Range(ReadSoFar[i][f]) : i \in DOMAIN ReadSoFar})
<1>1. /\ Nets \subseteq Nat /\ job.extra \in [Families -> SUBSET Nets]
      /\ \A f \in Families : IsFiniteSet(job.extra[f])
  BY DEF FetcherAssumption, FetcherInv, TypeOK
<1>2. /\ ReadSoFar \in Seq(Lists) /\ ReadSoFar # <<>>
      /\ \A i \in DOMAIN ReadSoFar, f \in Families : Canonical(ReadSoFar[i][f])
  BY Complete
<1>3. ASSUME NEW f \in Families
      PROVE  /\ WithExtra(Merge(ReadSoFar)) \in Lists
             /\ Canonical(WithExtra(Merge(ReadSoFar))[f])
             /\ Range(WithExtra(Merge(ReadSoFar))[f]) =
                  job.extra[f] \cup (UNION {Range(ReadSoFar[i][f]) : i \in DOMAIN ReadSoFar})
  <2>1. /\ Merge(ReadSoFar) \in Lists
        /\ Range(Merge(ReadSoFar)[f]) = UNION {Range(ReadSoFar[i][f]) : i \in DOMAIN ReadSoFar}
        /\ Canonical(Merge(ReadSoFar)[f])
    BY <1>1, <1>2, MergeIs
  <2> QED  BY <1>1, <2>1, WithExtraIs
<1> QED  BY <1>3 DEF Families

LEMMA FetcherKeeps == FetcherAssumption /\ FetcherInv /\ [Next]_fetchVars => FetcherInv'
<1> SUFFICES ASSUME FetcherAssumption, FetcherInv, [Next]_fetchVars PROVE FetcherInv'
  OBVIOUS
<1>1. CASE Begin
  BY <1>1, Begins
<1>2. CASE ReadList /\ End(Error)
  BY <1>2, ReadListIs, ErrorEnds
<1>3. CASE ReadList /\ ~End(Error) /\ Len(unread) # 1
  BY <1>3, ReadListIs, Continues
<1>4. CASE ReadList /\ ~End(Error) /\ Len(unread) = 1
  <2> DEFINE result == [ok |-> TRUE, label |-> job.providers,
                        lists |-> WithExtra(Merge(ReadSoFar))]
  <2>1. End(result) /\ UNCHANGED <<source, job, published>>
    BY <1>4, ReadListIs
  <2>2. /\ result \in [ok : BOOLEAN, label : Seq(Providers), lists : Lists]
        /\ \A f \in Families : Canonical(result.lists[f])
    <3>1. job.providers \in Seq(Providers)
      BY DEF FetcherAssumption, FetcherInv, TypeOK
    <3> QED  BY <1>4, <3>1, ResultIs
  <2> HIDE DEF result
  <2> QED  BY <2>1, <2>2, Ends
<1>5. CASE RequestFails
  BY <1>5, ErrorEnds DEF RequestFails
<1>6. CASE Publish
  <2>1. /\ UNCHANGED <<job, unread, got, outcome>>
        /\ published < MaxPublish /\ published' = published + 1
    BY <1>6 DEF Publish
  <2>2. PICK p \in Providers, v \in Versions :
          /\ source' = [source EXCEPT ![p] = v]
          /\ served' = IF Fetching THEN [served EXCEPT ![p] = @ \cup {v}] ELSE served
    BY <1>6 DEF Publish
  <2>3. TypeOK'
    BY <2>1, <2>2 DEF FetcherInv, TypeOK, FetcherAssumption
  <2>4. AskInv'
    BY <2>1 DEF FetcherInv, AskInv, Asked, Total, Done
  <2>5. /\ Fetching => source' \in [Providers -> Versions]
        /\ \A q \in Providers : served[q] \subseteq served'[q]
        /\ Fetching => \A q \in Providers : source'[q] \in served'[q]
    BY <2>2 DEF FetcherInv, TypeOK, GotInv
  <2>6. GotInv'
    <3>1. \A i \in DOMAIN job.providers : \A f, list : IsGood(i, f, list) => IsGood(i, f, list)'
      <4>1. job.providers \in Seq(Providers)
        BY DEF FetcherAssumption, FetcherInv, TypeOK
      <4>2. \A i \in DOMAIN job.providers : job.providers[i] \in Providers
        BY <4>1
      <4> QED  BY <2>1, <2>5, <4>2 DEF IsGood, Refuse, Parse
    <3>2. Fetching => Len(got) <= Len(job.providers)
      <4>1. ASSUME Fetching PROVE Len(got) <= Len(job.providers)
        <5>1. Len(got) \in Nat /\ Len(job.providers) \in Nat
          BY DEF FetcherAssumption, FetcherInv, TypeOK
        <5> QED  BY <4>1, <5>1, Position
      <4> QED  BY <4>1
    <3>3. Fetching => 1 .. Len(got) \subseteq DOMAIN job.providers
      <4>1. job.providers \in Seq(Providers) /\ Len(got) \in Nat
        BY DEF FetcherAssumption, FetcherInv, TypeOK
      <4>2. DOMAIN job.providers = 1 .. Len(job.providers) /\ Len(job.providers) \in Nat
        BY <4>1
      <4> QED  BY <3>2, <4>1, <4>2
    <3> QED  BY <2>1, <2>5, <3>1, <3>3 DEF FetcherInv, GotInv, Fetching, Done, Total
  <2>7. OrderInv'
    BY <2>1 DEF FetcherInv, OrderInv, Canonical, Repeats
  <2> QED  BY <2>3, <2>4, <2>6, <2>7 DEF FetcherInv
<1>7. CASE UNCHANGED fetchVars
  <2>1. UNCHANGED <<source, job, unread, got, outcome, published, served>>
    BY <1>7 DEF fetchVars
  <2>2. TypeOK' /\ AskInv'
    BY <2>1 DEF FetcherInv, TypeOK, AskInv, Done, Total, Asked
  <2>3. \A i, f, list : IsGood(i, f, list)' <=> IsGood(i, f, list)
    BY <2>1 DEF IsGood, Refuse, Parse
  <2>5. Done' = Done /\ (Fetching' <=> Fetching)
    BY <2>1 DEF Done, Total, Fetching
  <2>6. GotInv'
    BY <2>1, <2>3, <2>5 DEF FetcherInv, GotInv
  <2>4. OrderInv'
    BY <2>1 DEF FetcherInv, OrderInv, Canonical, Repeats
  <2> QED  BY <2>2, <2>4, <2>6 DEF FetcherInv
<1> QED
  BY <1>1, <1>2, <1>3, <1>4, <1>5, <1>6, <1>7 DEF Next

LEMMA FetcherAlways == ASSUME FetcherAssumption PROVE Spec => []FetcherInv
  BY FetcherStarts, FetcherKeeps, PTL DEF Spec

-----------------------------------------------------------------------------
(* What a fetch brings                                                     *)

\* The only step by which an outcome becomes another one that succeeded.
LEMMA Succeeds ==
  ASSUME [Next]_fetchVars, outcome'.ok, outcome' # outcome
  PROVE  /\ ReadList /\ ~End(Error) /\ Len(unread) = 1
         /\ outcome' = [ok |-> TRUE, label |-> job.providers,
                        lists |-> WithExtra(Merge(ReadSoFar))]
<1>1. ~End(Error)
  BY DEF End, Error
<1>2. ReadList
  BY <1>1 DEF Next, Begin, RequestFails, Publish, fetchVars
<1> QED
  BY <1>1, <1>2, ReadListIs DEF End

LEMMA NeverPartialStep ==
  ASSUME FetcherAssumption, FetcherInv, [Next]_fetchVars, outcome'.ok, outcome' # outcome,
         NEW f \in Families
  PROVE  \E file \in [DOMAIN job.providers -> {v[f] : v \in Versions}] :
           /\ \A i \in DOMAIN file :
                /\ file[i] \in {v[f] : v \in served[job.providers[i]]}
                /\ ~(file[i] # Missing /\ Bad \in Range(file[i]) /\ ~job.allowMalformed)
           /\ Range(outcome'.lists[f]) =
                job.extra[f] \cup (UNION {Range(Parse(file[i])) : i \in DOMAIN file})
<1>1. /\ ReadList /\ ~End(Error) /\ Len(unread) = 1
      /\ outcome'.lists = WithExtra(Merge(ReadSoFar))
  BY Succeeds
<1>2. /\ DOMAIN ReadSoFar = DOMAIN job.providers
      /\ \A i \in DOMAIN job.providers : IsGood(i, f, ReadSoFar[i][f])
  BY <1>1, Complete
<1>3. Range(outcome'.lists[f]) =
        job.extra[f] \cup (UNION {Range(ReadSoFar[i][f]) : i \in DOMAIN job.providers})
  BY <1>1, <1>2, ResultIs
<1> DEFINE good(i, v) == ~Refuse(v[f]) /\ ReadSoFar[i][f] = Parse(v[f])
           file == [i \in DOMAIN job.providers |->
                      (CHOOSE v \in served[job.providers[i]] : good(i, v))[f]]
<1>4. ASSUME NEW i \in DOMAIN job.providers
      PROVE  /\ file[i] \in {v[f] : v \in served[job.providers[i]]}
             /\ file[i] \in {v[f] : v \in Versions}
             /\ ~Refuse(file[i]) /\ ReadSoFar[i][f] = Parse(file[i])
  <2> DEFINE u == CHOOSE v \in served[job.providers[i]] : good(i, v)
  <2>1. \E v \in served[job.providers[i]] : good(i, v)
    BY <1>2 DEF IsGood
  <2>2. u \in served[job.providers[i]] /\ good(i, u)
    BY <2>1
  <2>3. file[i] = u[f]
    OBVIOUS
  <2>4. served[job.providers[i]] \subseteq Versions
    <3>1. job.providers \in Seq(Providers) /\ served \in [Providers -> SUBSET Versions]
      BY DEF FetcherAssumption, FetcherInv, TypeOK
    <3>2. job.providers[i] \in Providers
      BY <3>1
    <3> QED  BY <3>1, <3>2
  <2> HIDE DEF u, file
  <2> QED  BY <2>2, <2>3, <2>4
<1>5. DOMAIN file = DOMAIN job.providers
  OBVIOUS
<1> HIDE DEF file
<1>6. file \in [DOMAIN job.providers -> {v[f] : v \in Versions}]
  <2>1. file = [i \in DOMAIN job.providers |-> file[i]]
    BY DEF file
  <2> QED  BY <1>4, <2>1
<1>7. {Range(ReadSoFar[i][f]) : i \in DOMAIN job.providers} =
        {Range(Parse(file[i])) : i \in DOMAIN file}
  BY <1>4, <1>5
<1> QED  BY <1>3, <1>4, <1>5, <1>6, <1>7 DEF Refuse

\* Whatever fails, and whatever is published meanwhile, the ranges of a fetch
\* that succeeds are, per family, one whole and good file of each provider
\* that was served during the fetch, and the operator's own addresses.
THEOREM WholeFilesOnly == ASSUME FetcherAssumption PROVE Spec => NeverPartial
<1>1. FetcherInv /\ [Next]_fetchVars =>
        [outcome'.ok /\ outcome' # outcome =>
           \A f \in Families :
             \E file \in [DOMAIN job.providers -> {v[f] : v \in Versions}] :
               /\ \A i \in DOMAIN file :
                    /\ file[i] \in {v[f] : v \in served[job.providers[i]]}
                    /\ ~(file[i] # Missing /\ Bad \in Range(file[i]) /\ ~job.allowMalformed)
               /\ Range(outcome'.lists[f]) =
                    job.extra[f] \cup (UNION {Range(Parse(file[i])) : i \in DOMAIN file})]_fetchVars
  BY NeverPartialStep
<1> QED
  BY <1>1, FetcherAlways, PTL DEF Spec, NeverPartial

LEMMA SameHashStep ==
  ASSUME FetcherInv, FetcherInv', outcome.ok, outcome'.ok, outcome.label = outcome'.label,
         \A f \in Families : /\ Range(outcome.lists[f]) = Range(outcome'.lists[f])
                             /\ ~Repeats(outcome.lists[f]) /\ ~Repeats(outcome'.lists[f])
  PROVE  UNCHANGED outcome
<1>1. /\ outcome \in [ok : BOOLEAN, label : Seq(Providers), lists : Lists]
      /\ outcome' \in [ok : BOOLEAN, label : Seq(Providers), lists : Lists]
  BY DEF FetcherInv, TypeOK
<1>2. \A f \in Families : outcome.lists[f] = Ordered(Range(outcome.lists[f]))
  BY DEF FetcherInv, OrderInv, Canonical
<1>3. \A f \in Families : outcome'.lists[f] = Ordered(Range(outcome'.lists[f]))
  BY DEF FetcherInv, OrderInv, Canonical, Repeats, Ordered
<1>4. \A f \in Families : outcome.lists[f] = outcome'.lists[f]
  BY <1>2, <1>3
<1>5. outcome.lists = outcome'.lists
  BY <1>1, <1>4 DEF Lists
<1>6. outcome.ok = outcome'.ok
  BY <1>1
<1> QED
  BY <1>1, <1>5, <1>6

\* Two fetches of the same providers that find the same ranges have the same
\* hash, in whatever order and of however many files the source served them;
\* unless a single file repeats a line.
THEOREM HashOfTheRanges == ASSUME FetcherAssumption PROVE Spec => SameRangesSameHash
<1>1. FetcherInv /\ FetcherInv' =>
        [/\ outcome.ok /\ outcome'.ok /\ outcome.label = outcome'.label
         /\ \A f \in Families : /\ Range(outcome.lists[f]) = Range(outcome'.lists[f])
                                /\ ~Repeats(outcome.lists[f]) /\ ~Repeats(outcome'.lists[f])
         => UNCHANGED outcome]_fetchVars
  BY SameHashStep
<1> QED
  BY <1>1, FetcherAlways, PTL DEF Spec, SameRangesSameHash
=============================================================================
