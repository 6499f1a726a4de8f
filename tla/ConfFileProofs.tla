--------------------------- MODULE ConfFileProofs ---------------------------
(***************************************************************************)
(* Theorems of ConfFile.                                                   *)
(***************************************************************************)
EXTENDS Integers, ConfFile, SequenceTheorems, WellFoundedInduction, TLAPS

-----------------------------------------------------------------------------
(* The lines with the numbers of a set                                     *)

LEMMA Least ==
  ASSUME NEW S \in SUBSET Nat, S # {}
  PROVE  \E n \in S : \A m \in S : n <= m
<1>1. PICK n \in S : \A m \in SetLessThan(n, OpToRel(<, Nat), Nat) : m \notin S
  BY NatLessThanWellFounded, WFMin DEF SetLessThan
<1>2. \A m \in S : ~(m < n)
  BY <1>1 DEF SetLessThan, OpToRel
<1> QED  BY <1>2

\* A function can be defined step by step.
LEMMA Iterate ==
  ASSUME NEW X, NEW base \in X, NEW N \in Nat, NEW step \in [1 .. N -> [X -> X]]
  PROVE  \E g \in [0 .. N -> X] :
           g[0] = base /\ \A i \in 1 .. N : g[i] = step[i][g[i - 1]]
<1> DEFINE Upto(n) == \E g \in [0 .. n -> X] :
             g[0] = base /\ \A i \in 1 .. n : g[i] = step[i][g[i - 1]]
           S == {n \in 0 .. N : ~Upto(n)}
<1>1. SUFFICES ASSUME S # {} PROVE FALSE
  BY DEF S
<1>2. PICK n \in S : \A m \in S : n <= m
  <2>1. S \in SUBSET Nat
    OBVIOUS
  <2> QED  BY <1>1, <2>1, Least
<1>3. Upto(0)
  <2>1. [i \in 0 .. 0 |-> base] \in [0 .. 0 -> X] /\ [i \in 0 .. 0 |-> base][0] = base
    OBVIOUS
  <2>2. 1 .. 0 = {}
    OBVIOUS
  <2> QED  BY <2>1, <2>2
<1>4. n \in 1 .. N /\ n - 1 \in 0 .. N /\ n - 1 \notin S /\ Upto(n - 1)
  <2> HIDE DEF Upto
  <2>1. n \in 1 .. N
    BY <1>2, <1>3
  <2> QED  BY <1>2, <2>1
<1>5. PICK g \in [0 .. n - 1 -> X] :
        g[0] = base /\ \A i \in 1 .. n - 1 : g[i] = step[i][g[i - 1]]
  BY <1>4
<1> DEFINE h == [i \in 0 .. n |-> IF i = n THEN step[n][g[n - 1]] ELSE g[i]]
<1>6. h \in [0 .. n -> X] /\ h[0] = base /\ \A i \in 1 .. n : h[i] = step[i][h[i - 1]]
  <2>1. step[n] \in [X -> X] /\ g[n - 1] \in X
    BY <1>4, <1>5
  <2> QED  BY <1>4, <1>5, <2>1
<1>7. Upto(n)
  BY <1>6
<1> QED  BY <1>2, <1>7

\* How LinesAt grows with the file.
Grows(u, f, S, L) ==
  /\ u \in [0 .. Len(f) -> Seq(L)] /\ u[0] = <<>>
  /\ \A i \in 1 .. Len(f) : u[i] = IF i \in S THEN Append(u[i - 1], f[i]) ELSE u[i - 1]

LEMMA LinesGrow ==
  ASSUME NEW L, NEW f \in Seq(L), NEW S
  PROVE  \E u : Grows(u, f, S, L) /\ LinesAt(f, S) = u[Len(f)]
<1> DEFINE step == [i \in 1 .. Len(f) |-> [x \in Seq(L) |-> IF i \in S THEN Append(x, f[i]) ELSE x]]
           Def(g) == g = [i \in 0 .. Len(f) |->
                            IF i = 0 THEN <<>>
                            ELSE IF i \in S THEN Append(g[i - 1], f[i]) ELSE g[i - 1]]
           upTo == CHOOSE g : Def(g)
<1>1. step \in [1 .. Len(f) -> [Seq(L) -> Seq(L)]]
  OBVIOUS
<1>2. PICK u \in [0 .. Len(f) -> Seq(L)] :
        u[0] = <<>> /\ \A i \in 1 .. Len(f) : u[i] = step[i][u[i - 1]]
  <2> DEFINE N == Len(f)
             X == Seq(L)
  <2>1. N \in Nat /\ <<>> \in X
    BY EmptySeq
  <2>2. step \in [1 .. N -> [X -> X]]
    BY <1>1
  <2> HIDE DEF step, N, X
  <2>3. \E u \in [0 .. N -> X] : u[0] = <<>> /\ \A i \in 1 .. N : u[i] = step[i][u[i - 1]]
    BY <2>1, <2>2, Iterate
  <2> QED  BY <2>3 DEF N, X
<1>3. Grows(u, f, S, L)
  <2>1. \A i \in 1 .. Len(f) : i - 1 \in 0 .. Len(f) /\ u[i - 1] \in Seq(L)
    OBVIOUS
  <2>2. \A i \in 1 .. Len(f), x \in Seq(L) :
          step[i][x] = IF i \in S THEN Append(x, f[i]) ELSE x
    OBVIOUS
  <2> HIDE DEF step
  <2>3. \A i \in 1 .. Len(f) : u[i] = IF i \in S THEN Append(u[i - 1], f[i]) ELSE u[i - 1]
    BY <1>2, <2>1, <2>2
  <2> QED  BY <1>2, <2>3 DEF Grows
<1>4. Def(u)
  <2>1. \A i \in 0 .. Len(f) : i = 0 \/ i \in 1 .. Len(f)
    OBVIOUS
  <2>2. u = [i \in 0 .. Len(f) |-> u[i]]
    OBVIOUS
  <2>3. \A i \in 0 .. Len(f) : u[i] = IF i = 0 THEN <<>>
          ELSE IF i \in S THEN Append(u[i - 1], f[i]) ELSE u[i - 1]
    BY <1>3, <2>1 DEF Grows
  <2> QED  BY <2>2, <2>3, Zenon
<1>5. Def(upTo)
  BY <1>4
<1>6. LinesAt(f, S) = upTo[Len(f)]
  BY DEF LinesAt
<1>7. upTo[Len(f)] = u[Len(f)]
  <2> HIDE DEF upTo
  <2> DEFINE W == {n \in 0 .. Len(f) : upTo[n] # u[n]}
  <2>1. SUFFICES ASSUME W # {} PROVE FALSE
    OBVIOUS
  <2>0. W \in SUBSET Nat
    OBVIOUS
  <2>2. PICK n \in W : \A m \in W : n <= m
    <3> HIDE DEF W
    <3> QED  BY <2>0, <2>1, Least
  <2>3. n # 0
    BY <1>3, <1>5 DEF Grows
  <2>4. n - 1 \in 0 .. Len(f) /\ n - 1 \notin W
    BY <2>2, <2>3
  <2>5. n \in 1 .. Len(f) /\ n \in 0 .. Len(f)
    BY <2>2, <2>3
  <2>6. upTo[n] = IF n = 0 THEN <<>>
                  ELSE IF n \in S THEN Append(upTo[n - 1], f[n]) ELSE upTo[n - 1]
    BY <1>5, <2>5, Zenon
  <2>7. u[n] = IF n \in S THEN Append(u[n - 1], f[n]) ELSE u[n - 1]
    BY <1>3, <2>5 DEF Grows
  <2>8. upTo[n - 1] = u[n - 1]
    BY <2>4
  <2>9. upTo[n] # u[n]
    BY <2>2
  <2>10. upTo[n] = IF n \in S THEN Append(u[n - 1], f[n]) ELSE u[n - 1]
    BY <2>3, <2>6, <2>8
  <2> QED  BY <2>7, <2>9, <2>10
<1> QED  BY <1>3, <1>6, <1>7

LEMMA LinesType ==
  ASSUME NEW L, NEW f \in Seq(L), NEW S
  PROVE  LinesAt(f, S) \in Seq(L)
<1>1. PICK u : Grows(u, f, S, L) /\ LinesAt(f, S) = u[Len(f)]
  BY LinesGrow
<1>2. Len(f) \in 0 .. Len(f)
  OBVIOUS
<1> QED  BY <1>1, <1>2 DEF Grows

LEMMA LinesAll ==
  ASSUME NEW L, NEW f \in Seq(L), NEW S, DOMAIN f \subseteq S
  PROVE  LinesAt(f, S) = f
<1>1. PICK u : Grows(u, f, S, L) /\ LinesAt(f, S) = u[Len(f)]
  BY LinesGrow
<1> DEFINE W == {n \in 0 .. Len(f) : u[n] # SubSeq(f, 1, n)}
<1>2. ASSUME W # {} PROVE FALSE
  <2>0. W \in SUBSET Nat
    OBVIOUS
  <2>1. PICK n \in W : \A m \in W : n <= m
    <3> HIDE DEF W
    <3> QED  BY <1>2, <2>0, Least
  <2>2. n # 0
    BY <1>1 DEF Grows
  <2>3. n \in 1 .. Len(f) /\ u[n - 1] = SubSeq(f, 1, n - 1)
    BY <2>1, <2>2
  <2>4. u[n] = Append(SubSeq(f, 1, n - 1), f[n])
    <3>1. n \in S
      BY <2>3
    <3>2. u[n] = Append(u[n - 1], f[n])
      BY <1>1, <2>3, <3>1 DEF Grows
    <3> QED  BY <2>3, <3>2
  <2>5. Append(SubSeq(f, 1, n - 1), f[n]) = SubSeq(f, 1, n)
    BY <2>3
  <2> QED  BY <2>1, <2>4, <2>5
<1> QED  BY <1>1, <1>2

\* f without its lines b .. e, where its line i was in f, and where line i of
\* f is now; to where it has come, if it is gone.
Cut(f, b, e) == SubSeq(f, 1, b - 1) \o SubSeq(f, e + 1, Len(f))
Old(i, b, e) == IF i < b THEN i ELSE i + (e - b + 1)
New(i, b, e) == IF i < b THEN i ELSE IF i <= e THEN b - 1 ELSE i - (e - b + 1)

LEMMA CutIs ==
  ASSUME NEW L, NEW f \in Seq(L), NEW b \in 1 .. Len(f) + 1, NEW e \in b - 1 .. Len(f)
  PROVE  /\ Cut(f, b, e) \in Seq(L) /\ Len(Cut(f, b, e)) = Len(f) - (e - b + 1)
         /\ \A i \in DOMAIN Cut(f, b, e) :
              Old(i, b, e) \in DOMAIN f /\ Cut(f, b, e)[i] = f[Old(i, b, e)]
<1> DEFINE x == SubSeq(f, 1, b - 1)
           y == SubSeq(f, e + 1, Len(f))
<1>1. x \in Seq(L) /\ Len(x) = b - 1 /\ \A i \in 1 .. b - 1 : x[i] = f[i]
  OBVIOUS
<1>2. y \in Seq(L) /\ Len(y) = Len(f) - e /\ \A i \in 1 .. Len(f) - e : y[i] = f[i + e]
  OBVIOUS
<1> HIDE DEF x, y
<1>3. x \o y \in Seq(L) /\ Len(x \o y) = Len(f) - (e - b + 1)
  <2>1. x \o y \in Seq(L) /\ Len(x \o y) = Len(x) + Len(y)
    BY <1>1, <1>2, ConcatProperties
  <2> QED  BY <1>1, <1>2, <2>1
<1>4. \A i \in 1 .. Len(f) - (e - b + 1) : (x \o y)[i] = IF i < b THEN x[i] ELSE y[i - (b - 1)]
  BY <1>1, <1>2
<1>5. \A i \in 1 .. Len(f) - (e - b + 1) :
        Old(i, b, e) \in 1 .. Len(f) /\ (x \o y)[i] = f[Old(i, b, e)]
  <2> TAKE i \in 1 .. Len(f) - (e - b + 1)
  <2>1. CASE i < b
    BY <1>1, <1>4, <2>1 DEF Old
  <2>2. CASE ~(i < b)
    <3>1. i - (b - 1) \in 1 .. Len(f) - e /\ i - (b - 1) + e = i + (e - b + 1)
      BY <2>2
    <3>2. y[i - (b - 1)] = f[i + (e - b + 1)]
      BY <1>2, <3>1
    <3>3. (x \o y)[i] = y[i - (b - 1)]
      BY <1>4, <2>2
    <3>4. Len(f) \in Nat /\ i + (e - b + 1) \in 1 .. Len(f)
      OBVIOUS
    <3> QED  BY <2>2, <3>2, <3>3, <3>4 DEF Old
  <2> QED  BY <2>1, <2>2
<1>6. Cut(f, b, e) = x \o y
  BY DEF Cut, x, y
<1>7. DOMAIN (x \o y) = 1 .. Len(f) - (e - b + 1) /\ DOMAIN f = 1 .. Len(f)
  BY <1>3
<1> QED  BY <1>3, <1>5, <1>6, <1>7

\* Lines that are not in S may go.
LEMMA LinesCut ==
  ASSUME NEW L, NEW f \in Seq(L), NEW b \in 1 .. Len(f) + 1, NEW e \in b - 1 .. Len(f),
         NEW S, \A i \in b .. e : i \notin S
  PROVE  LinesAt(f, S) =
           LinesAt(Cut(f, b, e), {i \in DOMAIN Cut(f, b, e) : Old(i, b, e) \in S})
<1> DEFINE g == Cut(f, b, e)
           T == {i \in DOMAIN g : Old(i, b, e) \in S}
<1>1. PICK u : Grows(u, f, S, L) /\ LinesAt(f, S) = u[Len(f)]
  BY LinesGrow
<1>2. /\ g \in Seq(L) /\ Len(g) = Len(f) - (e - b + 1) /\ DOMAIN g = 1 .. Len(g)
      /\ \A i \in DOMAIN g : Old(i, b, e) \in DOMAIN f /\ g[i] = f[Old(i, b, e)]
  BY CutIs
<1> HIDE DEF g
<1>3. PICK v : Grows(v, g, T, L) /\ LinesAt(g, T) = v[Len(g)]
  <2> HIDE DEF T
  <2> QED  BY <1>2, LinesGrow
<1> DEFINE W == {n \in 0 .. Len(f) : u[n] # v[New(n, b, e)]}
<1>4. ASSUME W # {} PROVE FALSE
  <2>0. W \in SUBSET Nat
    OBVIOUS
  <2>1. PICK n \in W : \A m \in W : n <= m
    <3> HIDE DEF W
    <3> QED  BY <1>4, <2>0, Least
  <2>2. n # 0
    BY <1>1, <1>3 DEF Grows, New
  <2>3. n \in 1 .. Len(f) /\ n - 1 \in 0 .. Len(f) /\ u[n - 1] = v[New(n - 1, b, e)]
    BY <2>1, <2>2
  <2>4. CASE n \in b .. e
    <3>1. New(n, b, e) = New(n - 1, b, e)
      BY <2>3, <2>4 DEF New
    <3>2. u[n] = u[n - 1]
      BY <1>1, <2>3, <2>4 DEF Grows
    <3> QED  BY <2>1, <2>3, <3>1, <3>2
  <2>5. CASE n \notin b .. e
    <3> DEFINE k == New(n, b, e)
    <3>1. k \in 1 .. Len(g) /\ New(n - 1, b, e) = k - 1 /\ Old(k, b, e) = n
      <4>1. Len(g) = Len(f) - (e - b + 1) /\ Len(f) \in Nat
        BY <1>2
      <4>2. CASE n < b
        BY <2>3, <4>1, <4>2 DEF New, Old
      <4>3. CASE n > e
        BY <2>3, <4>1, <4>3 DEF New, Old
      <4> QED  BY <2>3, <2>5, <4>2, <4>3
    <3>2. (k \in T <=> n \in S) /\ g[k] = f[n]
      BY <1>2, <3>1
    <3> HIDE DEF k, T
    <3>3. v[k] = IF n \in S THEN Append(v[k - 1], f[n]) ELSE v[k - 1]
      BY <1>3, <3>1, <3>2 DEF Grows
    <3>4. u[n] = IF n \in S THEN Append(u[n - 1], f[n]) ELSE u[n - 1]
      BY <1>1, <2>3 DEF Grows
    <3> QED  BY <2>1, <2>3, <3>1, <3>3, <3>4 DEF k
  <2> QED  BY <2>4, <2>5
<1>5. New(Len(f), b, e) = Len(g)
  BY <1>2 DEF New
<1> QED  BY <1>1, <1>3, <1>4, <1>5 DEF g

-----------------------------------------------------------------------------
(* Blocks                                                                  *)

IsMark(line, k) == line.words = BeginMark(k) \/ line.words = EndMark(k)

Free(f, k) == \A i \in DOMAIN f : ~IsMark(f[i], k)

\* The lines b .. e are the one block of the key.
IsBlock(f, k, b, e) ==
  /\ b \in DOMAIN f /\ e \in DOMAIN f /\ b < e
  /\ \A i \in DOMAIN f : (f[i].words = BeginMark(k) <=> i = b) /\ (f[i].words = EndMark(k) <=> i = e)

\* No block crosses the edge of b .. e.
Even(f, b, e) ==
  \A k \in Keys, c, d \in DOMAIN f : IsBlock(f, k, c, d) => (c \in b .. e <=> d \in b .. e)

\* Every key has one block or none, and they do not cross.
Nested(f) ==
  /\ \A k \in Keys : Free(f, k) \/ \E b, e \in DOMAIN f : IsBlock(f, k, b, e)
  /\ \A k, l \in Keys : \A b, e, c, d \in DOMAIN f :
       k # l /\ IsBlock(f, k, b, e) /\ IsBlock(f, l, c, d) => (c \in b .. e <=> d \in b .. e)

LEMMA Marks ==
  /\ \A k, l : BeginMark(k) # EndMark(l)
  /\ \A k, l : BeginMark(k) = BeginMark(l) => k = l
  /\ \A k, l : EndMark(k) = EndMark(l) => k = l
BY DEF BeginMark, EndMark

LEMMA BlockIsEven ==
  ASSUME NEW f \in Seq(Lines), Nested(f), NEW k \in Keys, NEW b, NEW e, IsBlock(f, k, b, e)
  PROVE  Even(f, b, e)
<1>1. b \in DOMAIN f /\ e \in DOMAIN f /\ b < e
  BY DEF IsBlock
<1>2. ASSUME NEW l \in Keys, NEW c \in DOMAIN f, NEW d \in DOMAIN f, IsBlock(f, l, c, d)
      PROVE  c \in b .. e <=> d \in b .. e
  <2>1. CASE k = l
    <3>1. c = b /\ d = e
      BY <1>1, <1>2, <2>1 DEF IsBlock
    <3> QED  BY <1>1, <3>1
  <2>2. CASE k # l
    BY <1>1, <1>2, <2>2 DEF Nested
  <2> QED  BY <2>1, <2>2
<1> QED  BY <1>2 DEF Even

\* Strip takes out the block of the key, and nothing else.
LEMMA StripFree ==
  ASSUME NEW f \in Seq(Lines), NEW k, Free(f, k)
  PROVE  Strip(f, k) = f
<1> DEFINE S == {i \in DOMAIN f :
              /\ ~(f[i].words = BeginMark(k)) /\ ~(f[i].words = EndMark(k))
              /\ \A b \in 1 .. i - 1 : f[b].words = BeginMark(k) =>
                   \E e \in b .. i - 1 : f[e].words = EndMark(k)}
<1>1. Strip(f, k) = LinesAt(f, S)
  BY DEF Strip
<1>2. DOMAIN f \subseteq S
  BY DEF Free, IsMark
<1> QED  BY <1>1, <1>2, LinesAll

LEMMA StripBlock ==
  ASSUME NEW f \in Seq(Lines), NEW k, NEW b, NEW e, IsBlock(f, k, b, e)
  PROVE  Strip(f, k) = Cut(f, b, e)
<1> DEFINE S == {i \in DOMAIN f :
              /\ ~(f[i].words = BeginMark(k)) /\ ~(f[i].words = EndMark(k))
              /\ \A c \in 1 .. i - 1 : f[c].words = BeginMark(k) =>
                   \E d \in c .. i - 1 : f[d].words = EndMark(k)}
           g == Cut(f, b, e)
           T == {i \in DOMAIN g : Old(i, b, e) \in S}
<1>1. Strip(f, k) = LinesAt(f, S)
  BY DEF Strip
<1>2. /\ b \in 1 .. Len(f) /\ e \in 1 .. Len(f) /\ b < e
      /\ \A i \in 1 .. Len(f) :
           (f[i].words = BeginMark(k) <=> i = b) /\ (f[i].words = EndMark(k) <=> i = e)
  BY DEF IsBlock
<1>3. \A i \in 1 .. Len(f) : i \in S <=> i \notin b .. e
  <2> TAKE i \in 1 .. Len(f)
  <2>1. CASE i \in b .. e
    BY <1>2, <2>1
  <2>2. CASE i < b
    BY <1>2, <2>2
  <2>3. CASE i > e
    BY <1>2, <2>3
  <2> QED  BY <1>2, <2>1, <2>2, <2>3
<1> HIDE DEF S
<1>4. b \in 1 .. Len(f) + 1 /\ e \in b - 1 .. Len(f) /\ \A i \in b .. e : i \notin S
  BY <1>2, <1>3
<1>5. LinesAt(f, S) = LinesAt(g, T)
  BY <1>4, LinesCut
<1>6. g \in Seq(Lines) /\ DOMAIN g \subseteq T
  <2>1. /\ g \in Seq(Lines) /\ Len(g) = Len(f) - (e - b + 1)
        /\ \A i \in DOMAIN g : Old(i, b, e) \in DOMAIN f
    BY <1>4, CutIs
  <2>2. \A i \in DOMAIN g : Old(i, b, e) \notin b .. e
    BY <1>2, <2>1 DEF Old
  <2> QED  BY <1>3, <2>1, <2>2
<1> QED  BY <1>1, <1>5, <1>6, LinesAll

-----------------------------------------------------------------------------
(* Lines that go                                                           *)

\* Where a line that stays has come to.
LEMMA NewIs ==
  ASSUME NEW L, NEW f \in Seq(L), NEW b \in 1 .. Len(f) + 1, NEW e \in b - 1 .. Len(f),
         NEW i \in DOMAIN f, i \notin b .. e
  PROVE  /\ New(i, b, e) \in DOMAIN Cut(f, b, e)
         /\ Old(New(i, b, e), b, e) = i /\ Cut(f, b, e)[New(i, b, e)] = f[i]
<1>1. /\ Len(Cut(f, b, e)) = Len(f) - (e - b + 1) /\ Cut(f, b, e) \in Seq(L)
      /\ \A j \in DOMAIN Cut(f, b, e) : Cut(f, b, e)[j] = f[Old(j, b, e)]
  BY CutIs
<1>2. i \in 1 .. Len(f) /\ Len(f) \in Nat
  OBVIOUS
<1>3. CASE i < b
  BY <1>1, <1>2, <1>3 DEF New, Old
<1>4. CASE i > e
  BY <1>1, <1>2, <1>4 DEF New, Old
<1> QED  BY <1>2, <1>3, <1>4

\* Cutting keeps the order and leaves the lines cut out.
LEMMA OldIs ==
  ASSUME NEW b \in Nat, NEW e \in Int, b - 1 <= e, NEW i \in Nat, NEW j \in Nat
  PROVE  /\ Old(i, b, e) \notin b .. e
         /\ i < j <=> Old(i, b, e) < Old(j, b, e)
         /\ i = j <=> Old(i, b, e) = Old(j, b, e)
         /\ i <= j <=> Old(i, b, e) <= Old(j, b, e)
BY DEF Old

LEMMA FreeStays ==
  ASSUME NEW L, NEW f \in Seq(L), NEW b \in 1 .. Len(f) + 1, NEW e \in b - 1 .. Len(f),
         NEW k, \A i \in DOMAIN f : i \notin b .. e => ~IsMark(f[i], k)
  PROVE  Free(Cut(f, b, e), k)
<1>1. \A i \in DOMAIN Cut(f, b, e) :
        Old(i, b, e) \in DOMAIN f /\ Cut(f, b, e)[i] = f[Old(i, b, e)] /\ i \in Nat
  BY CutIs
<1>2. \A i \in DOMAIN Cut(f, b, e) : Old(i, b, e) \notin b .. e
  BY <1>1, OldIs
<1> QED  BY <1>1, <1>2 DEF Free, IsMark

LEMMA BlockStays ==
  ASSUME NEW L, NEW f \in Seq(L), NEW b \in 1 .. Len(f) + 1, NEW e \in b - 1 .. Len(f),
         NEW k, NEW c, NEW d, IsBlock(f, k, c, d), c \notin b .. e, d \notin b .. e
  PROVE  IsBlock(Cut(f, b, e), k, New(c, b, e), New(d, b, e))
<1> DEFINE g == Cut(f, b, e)
           p == New(c, b, e)
           q == New(d, b, e)
<1>1. \A i \in DOMAIN g : Old(i, b, e) \in DOMAIN f /\ g[i] = f[Old(i, b, e)] /\ i \in Nat
  BY CutIs
<1>2. c \in DOMAIN f /\ d \in DOMAIN f /\ c < d
      /\ \A i \in DOMAIN f : (f[i].words = BeginMark(k) <=> i = c)
                             /\ (f[i].words = EndMark(k) <=> i = d)
  BY DEF IsBlock
<1>3. p \in DOMAIN g /\ Old(p, b, e) = c /\ q \in DOMAIN g /\ Old(q, b, e) = d
  BY <1>2, NewIs
<1>4. \A i \in DOMAIN g : i = p <=> Old(i, b, e) = c
  BY <1>1, <1>3, OldIs
<1>5. \A i \in DOMAIN g : i = q <=> Old(i, b, e) = d
  BY <1>1, <1>3, OldIs
<1>6. p < q
  BY <1>1, <1>2, <1>3, OldIs
<1> HIDE DEF g, p, q
<1>7. \A i \in DOMAIN g : (g[i].words = BeginMark(k) <=> i = p) /\ (g[i].words = EndMark(k) <=> i = q)
  BY <1>1, <1>2, <1>4, <1>5
<1>8. IsBlock(g, k, p, q)
  BY <1>3, <1>6, <1>7 DEF IsBlock
<1> QED  BY <1>8 DEF g, p, q

\* A block that is there after the cut was there before.
LEMMA BlockWas ==
  ASSUME NEW f \in Seq(Lines), NEW b \in 1 .. Len(f) + 1, NEW e \in b - 1 .. Len(f),
         Nested(f), Even(f, b, e), NEW k \in Keys, NEW c, NEW d, IsBlock(Cut(f, b, e), k, c, d)
  PROVE  IsBlock(f, k, Old(c, b, e), Old(d, b, e)) /\ c \in Nat /\ d \in Nat
<1> DEFINE g == Cut(f, b, e)
<1>1. \A i \in DOMAIN g : Old(i, b, e) \in DOMAIN f /\ g[i] = f[Old(i, b, e)] /\ i \in Nat
  BY CutIs
<1>2. c \in DOMAIN g /\ d \in DOMAIN g /\ g[c].words = BeginMark(k) /\ g[d].words = EndMark(k)
  BY DEF IsBlock
<1>3. f[Old(c, b, e)].words = BeginMark(k) /\ f[Old(d, b, e)].words = EndMark(k)
  BY <1>1, <1>2
<1>4. ~Free(f, k)
  BY <1>1, <1>2, <1>3 DEF Free, IsMark
<1>5. PICK x, y \in DOMAIN f : IsBlock(f, k, x, y)
  BY <1>4 DEF Nested
<1>6. x = Old(c, b, e) /\ y = Old(d, b, e)
  BY <1>1, <1>2, <1>3, <1>5 DEF IsBlock
<1> QED  BY <1>1, <1>2, <1>5, <1>6

LEMMA CutNested ==
  ASSUME NEW f \in Seq(Lines), NEW b \in 1 .. Len(f) + 1, NEW e \in b - 1 .. Len(f),
         Nested(f), Even(f, b, e)
  PROVE  Nested(Cut(f, b, e))
<1> DEFINE g == Cut(f, b, e)
<1>1. \A i \in DOMAIN g : Old(i, b, e) \in DOMAIN f /\ g[i] = f[Old(i, b, e)] /\ i \in Nat
  BY CutIs
<1>2. ASSUME NEW k \in Keys
      PROVE  Free(g, k) \/ \E c, d \in DOMAIN g : IsBlock(g, k, c, d)
  <2>1. CASE Free(f, k)
    BY <2>1, FreeStays DEF Free
  <2>2. CASE \E c, d \in DOMAIN f : IsBlock(f, k, c, d)
    <3>1. PICK c, d \in DOMAIN f : IsBlock(f, k, c, d)
      BY <2>2
    <3>2. CASE c \in b .. e
      <4>1. d \in b .. e
        BY <3>1, <3>2 DEF Even
      <4>2. \A i \in DOMAIN f : i \notin b .. e => ~IsMark(f[i], k)
        BY <3>1, <3>2, <4>1 DEF IsBlock, IsMark
      <4> QED  BY <4>2, FreeStays
    <3>3. CASE c \notin b .. e
      <4>1. d \notin b .. e
        BY <3>1, <3>3 DEF Even
      <4>2. IsBlock(g, k, New(c, b, e), New(d, b, e))
        BY <3>1, <3>3, <4>1, BlockStays
      <4> QED  BY <4>2 DEF IsBlock
    <3> QED  BY <3>2, <3>3
  <2> QED  BY <2>1, <2>2 DEF Nested
<1>3. ASSUME NEW k \in Keys, NEW l \in Keys, NEW p \in DOMAIN g, NEW q \in DOMAIN g,
             NEW c \in DOMAIN g, NEW d \in DOMAIN g,
             k # l, IsBlock(g, k, p, q), IsBlock(g, l, c, d)
      PROVE  c \in p .. q <=> d \in p .. q
  <2>1. /\ IsBlock(f, k, Old(p, b, e), Old(q, b, e)) /\ IsBlock(f, l, Old(c, b, e), Old(d, b, e))
        /\ p \in Nat /\ q \in Nat /\ c \in Nat /\ d \in Nat
    BY <1>3, BlockWas
  <2>2. Old(c, b, e) \in Old(p, b, e) .. Old(q, b, e) <=> Old(d, b, e) \in Old(p, b, e) .. Old(q, b, e)
    BY <1>1, <1>3, <2>1 DEF Nested
  <2>3. \A i, j, n \in Nat : i \in j .. n <=> Old(i, b, e) \in Old(j, b, e) .. Old(n, b, e)
    BY DEF Old
  <2> QED  BY <2>1, <2>2, <2>3
<1> QED  BY <1>2, <1>3 DEF Nested

\* Lines that are in a block, or say nothing, may go.
LEMMA CutOwn ==
  ASSUME NEW f \in Seq(Lines), NEW b \in 1 .. Len(f) + 1, NEW e \in b - 1 .. Len(f),
         Nested(f), Even(f, b, e), \A i \in b .. e : i \notin OwnAt(f)
  PROVE  LinesAt(Cut(f, b, e), OwnAt(Cut(f, b, e))) = LinesAt(f, OwnAt(f))
<1> DEFINE g == Cut(f, b, e)
<1>1. /\ g \in Seq(Lines) /\ DOMAIN g = 1 .. Len(g) /\ Len(g) \in Nat
      /\ \A i \in DOMAIN g : Old(i, b, e) \in DOMAIN f /\ g[i] = f[Old(i, b, e)] /\ i \in Nat
  <2>1. g \in Seq(Lines) /\ \A i \in DOMAIN g : Old(i, b, e) \in DOMAIN f /\ g[i] = f[Old(i, b, e)]
    BY CutIs
  <2> HIDE DEF g
  <2> QED  BY <2>1
<1>2. ASSUME NEW i \in DOMAIN g, i \in OwnAt(g) PROVE Old(i, b, e) \in OwnAt(f)
  <2> DEFINE j == Old(i, b, e)
  <2>1. j \in DOMAIN f /\ f[j] # Blank /\ j \notin b .. e
    BY <1>1, <1>2, OldIs DEF OwnAt
  <2>2. SUFFICES ASSUME NEW k \in Keys, NEW c \in 1 .. j, NEW d \in j .. Len(f),
                        f[c].words = BeginMark(k), f[d].words = EndMark(k)
                 PROVE  FALSE
    BY <2>1 DEF OwnAt
  <2>3. c \in DOMAIN f /\ d \in DOMAIN f
    BY <2>1
  <2>4. IsBlock(f, k, c, d)
    <3>1. ~Free(f, k)
      BY <2>2, <2>3 DEF Free, IsMark
    <3> QED  BY <2>2, <2>3, <3>1 DEF Nested, IsBlock
  <2>5. c \notin b .. e /\ d \notin b .. e
    BY <2>1, <2>3, <2>4 DEF Even
  <2>6. /\ New(c, b, e) \in DOMAIN g /\ g[New(c, b, e)] = f[c] /\ Old(New(c, b, e), b, e) = c
        /\ New(d, b, e) \in DOMAIN g /\ g[New(d, b, e)] = f[d] /\ Old(New(d, b, e), b, e) = d
    BY <2>3, <2>5, NewIs
  <2>7. New(c, b, e) <= i /\ i <= New(d, b, e)
    BY <1>1, <2>6, OldIs
  <2>8. New(c, b, e) \in 1 .. i /\ New(d, b, e) \in i .. Len(g)
    BY <1>1, <2>6, <2>7
  <2> QED  BY <1>2, <2>2, <2>6, <2>8 DEF OwnAt
<1>3. ASSUME NEW i \in DOMAIN g, Old(i, b, e) \in OwnAt(f) PROVE i \in OwnAt(g)
  <2>1. g[i] # Blank
    BY <1>1, <1>3 DEF OwnAt
  <2>2. SUFFICES ASSUME NEW k \in Keys, NEW c \in 1 .. i, NEW d \in i .. Len(g),
                        g[c].words = BeginMark(k), g[d].words = EndMark(k)
                 PROVE  FALSE
    BY <2>1 DEF OwnAt
  <2>3. c \in DOMAIN g /\ d \in DOMAIN g /\ c <= i /\ i <= d
    BY <1>1
  <2>4. Old(c, b, e) <= Old(i, b, e) /\ Old(i, b, e) <= Old(d, b, e)
    BY <1>1, <2>3, OldIs
  <2>5. Old(c, b, e) \in 1 .. Old(i, b, e) /\ Old(d, b, e) \in Old(i, b, e) .. Len(f)
    BY <1>1, <2>3, <2>4
  <2> QED  BY <1>1, <1>3, <2>2, <2>3, <2>5 DEF OwnAt
<1>4. OwnAt(g) = {i \in DOMAIN g : Old(i, b, e) \in OwnAt(f)}
  BY <1>2, <1>3 DEF OwnAt
<1> QED  BY <1>4, LinesCut

-----------------------------------------------------------------------------
(* Lines that come                                                         *)

\* What comes is one block of a key, of which there was none, or no marker.
Whole(f, b, e) ==
  \A k \in Keys :
    \/ \A i \in b .. e : ~IsMark(f[i], k)
    \/ b < e /\ IsBlock(f, k, b, e)

LEMMA WholeIsEven ==
  ASSUME NEW f \in Seq(Lines), NEW b \in 1 .. Len(f) + 1, NEW e \in b - 1 .. Len(f), Whole(f, b, e)
  PROVE  Even(f, b, e)
<1> SUFFICES ASSUME NEW k \in Keys, NEW c \in DOMAIN f, NEW d \in DOMAIN f, IsBlock(f, k, c, d)
             PROVE  c \in b .. e <=> d \in b .. e
  BY DEF Even
<1>1. CASE \A i \in b .. e : ~IsMark(f[i], k)
  BY <1>1 DEF IsBlock, IsMark
<1>2. CASE b < e /\ IsBlock(f, k, b, e)
  <2>1. c = b /\ d = e
    BY <1>2 DEF IsBlock
  <2> QED  BY <1>2, <2>1
<1> QED  BY <1>1, <1>2 DEF Whole

LEMMA BlockCame ==
  ASSUME NEW f \in Seq(Lines), NEW b \in 1 .. Len(f) + 1, NEW e \in b - 1 .. Len(f),
         NEW k, \A i \in b .. e : ~IsMark(f[i], k), NEW c, NEW d, IsBlock(Cut(f, b, e), k, c, d)
  PROVE  IsBlock(f, k, Old(c, b, e), Old(d, b, e))
<1> DEFINE g == Cut(f, b, e)
           p == Old(c, b, e)
           q == Old(d, b, e)
<1>1. \A i \in DOMAIN g : Old(i, b, e) \in DOMAIN f /\ g[i] = f[Old(i, b, e)] /\ i \in Nat
  BY CutIs
<1>2. /\ c \in DOMAIN g /\ d \in DOMAIN g /\ c < d
      /\ \A i \in DOMAIN g : (g[i].words = BeginMark(k) <=> i = c)
                             /\ (g[i].words = EndMark(k) <=> i = d)
  BY DEF IsBlock
<1>3. p \in DOMAIN f /\ q \in DOMAIN f /\ p < q
  BY <1>1, <1>2, OldIs
<1>4. ASSUME NEW i \in DOMAIN f
      PROVE  (f[i].words = BeginMark(k) <=> i = p) /\ (f[i].words = EndMark(k) <=> i = q)
  <2>1. CASE i \in b .. e
    <3>1. i # p /\ i # q
      BY <1>1, <1>2, <2>1, OldIs
    <3> QED  BY <2>1, <3>1 DEF IsMark
  <2>2. CASE i \notin b .. e
    <3> DEFINE j == New(i, b, e)
    <3>1. j \in DOMAIN g /\ Old(j, b, e) = i /\ g[j] = f[i]
      BY <2>2, NewIs
    <3>2. (j = c <=> i = p) /\ (j = d <=> i = q)
      BY <1>1, <1>2, <3>1, OldIs
    <3> QED  BY <1>2, <3>1, <3>2
  <2> QED  BY <2>1, <2>2
<1> QED  BY <1>3, <1>4 DEF IsBlock

LEMMA WholeNested ==
  ASSUME NEW f \in Seq(Lines), NEW b \in 1 .. Len(f) + 1, NEW e \in b - 1 .. Len(f),
         Whole(f, b, e), Nested(Cut(f, b, e))
  PROVE  Nested(f)
<1> DEFINE g == Cut(f, b, e)
           Plain(k) == \A i \in b .. e : ~IsMark(f[i], k)
           Own(k) == b < e /\ IsBlock(f, k, b, e)
<1>1. \A i \in DOMAIN g : Old(i, b, e) \in DOMAIN f /\ g[i] = f[Old(i, b, e)] /\ i \in Nat
  BY CutIs
<1>2. ASSUME NEW k \in Keys
      PROVE  Free(f, k) \/ \E c, d \in DOMAIN f : IsBlock(f, k, c, d)
  <2>1. CASE Own(k)
    BY <2>1 DEF IsBlock
  <2>2. CASE Plain(k) /\ Free(g, k)
    <3> SUFFICES ASSUME NEW i \in DOMAIN f PROVE ~IsMark(f[i], k)
      BY DEF Free
    <3>1. CASE i \in b .. e
      BY <2>2, <3>1
    <3>2. CASE i \notin b .. e
      <4>1. New(i, b, e) \in DOMAIN g /\ g[New(i, b, e)] = f[i]
        BY <3>2, NewIs
      <4> QED  BY <2>2, <4>1 DEF Free
    <3> QED  BY <3>1, <3>2
  <2>3. CASE Plain(k) /\ \E c, d \in DOMAIN g : IsBlock(g, k, c, d)
    <3>1. PICK c, d \in DOMAIN g : IsBlock(g, k, c, d)
      BY <2>3
    <3>2. IsBlock(f, k, Old(c, b, e), Old(d, b, e))
      BY <2>3, <3>1, BlockCame
    <3> QED  BY <1>1, <3>1, <3>2
  <2> QED  BY <2>1, <2>2, <2>3 DEF Whole, Nested
<1>3. ASSUME NEW k \in Keys, NEW c \in DOMAIN f, NEW d \in DOMAIN f, Plain(k), IsBlock(f, k, c, d)
      PROVE  /\ c \notin b .. e /\ d \notin b .. e
             /\ IsBlock(g, k, New(c, b, e), New(d, b, e))
             /\ New(c, b, e) \in DOMAIN g /\ New(d, b, e) \in DOMAIN g
             /\ Old(New(c, b, e), b, e) = c /\ Old(New(d, b, e), b, e) = d
  <2>1. c \notin b .. e /\ d \notin b .. e
    BY <1>3 DEF IsBlock, IsMark
  <2> QED  BY <1>3, <2>1, BlockStays, NewIs
<1>4. ASSUME NEW k \in Keys, NEW l \in Keys, NEW p \in DOMAIN f, NEW q \in DOMAIN f,
             NEW c \in DOMAIN f, NEW d \in DOMAIN f,
             k # l, IsBlock(f, k, p, q), IsBlock(f, l, c, d)
      PROVE  c \in p .. q <=> d \in p .. q
  <2>1. p < q /\ c < d
    BY <1>4 DEF IsBlock
  <2>2. CASE Own(k)
    <3>1. p = b /\ q = e
      BY <1>4, <2>2 DEF IsBlock
    <3>2. ~Own(l)
      BY <1>4, <2>2, Marks DEF IsBlock
    <3>3. c \notin b .. e /\ d \notin b .. e
      BY <1>3, <1>4, <3>2 DEF Whole
    <3> QED  BY <3>1, <3>3
  <2>3. CASE Plain(k) /\ Own(l)
    <3>1. c = b /\ d = e /\ b < e
      BY <1>4, <2>3 DEF IsBlock
    <3>2. p \notin b .. e /\ q \notin b .. e
      BY <1>3, <1>4, <2>3
    <3> QED  BY <2>1, <3>1, <3>2
  <2>4. CASE Plain(k) /\ Plain(l)
    <3> DEFINE N(i) == New(i, b, e)
    <3>1. /\ IsBlock(g, k, N(p), N(q)) /\ IsBlock(g, l, N(c), N(d))
          /\ N(p) \in DOMAIN g /\ N(q) \in DOMAIN g /\ N(c) \in DOMAIN g /\ N(d) \in DOMAIN g
      BY <1>3, <1>4, <2>4
    <3>2. p \notin b .. e /\ q \notin b .. e /\ c \notin b .. e /\ d \notin b .. e
      BY <1>3, <1>4, <2>4
    <3>3. N(c) \in N(p) .. N(q) <=> N(d) \in N(p) .. N(q)
      BY <1>4, <3>1 DEF Nested
    <3>4. \A i, j, n \in Nat : i \notin b .. e /\ j \notin b .. e /\ n \notin b .. e =>
            (i \in j .. n <=> N(i) \in N(j) .. N(n))
      BY DEF New
    <3>5. p \in Nat /\ q \in Nat /\ c \in Nat /\ d \in Nat
      OBVIOUS
    <3> HIDE DEF N
    <3> QED  BY <3>2, <3>3, <3>4, <3>5
  <2> QED  BY <2>2, <2>3, <2>4 DEF Whole
<1> QED  BY <1>2, <1>4 DEF Nested

-----------------------------------------------------------------------------
(* Edits                                                                   *)

Theirs(f) == LinesAt(f, OwnAt(f))

\* From f to g only blocks of the keys in K have changed.
Edited(f, g, K) ==
  /\ g \in Seq(Lines) /\ Nested(g) /\ Theirs(g) = Theirs(f)
  /\ \A k \in Keys \ K : Free(f, k) => Free(g, k)

LEMMA EditsCompose ==
  ASSUME NEW f, NEW g, NEW h, NEW K, NEW J, Edited(f, g, K), Edited(g, h, J)
  PROVE  Edited(f, h, K \cup J)
BY DEF Edited

LEMMA StripEdits ==
  ASSUME NEW f \in Seq(Lines), Nested(f), NEW k \in Keys
  PROVE  Edited(f, Strip(f, k), {k}) /\ Free(Strip(f, k), k)
<1>1. CASE Free(f, k)
  BY <1>1, StripFree DEF Edited
<1>2. CASE \E b, e \in DOMAIN f : IsBlock(f, k, b, e)
  <2>1. PICK b, e \in DOMAIN f : IsBlock(f, k, b, e)
    BY <1>2
  <2> DEFINE g == Cut(f, b, e)
  <2>2. Strip(f, k) = g
    BY <2>1, StripBlock
  <2>3. b \in 1 .. Len(f) + 1 /\ e \in b - 1 .. Len(f) /\ Even(f, b, e)
    BY <2>1, BlockIsEven DEF IsBlock
  <2>4. \A i \in b .. e : i \notin OwnAt(f)
    <3>1. f[b].words = BeginMark(k) /\ f[e].words = EndMark(k)
      BY <2>1 DEF IsBlock
    <3>2. \A i \in b .. e : b \in 1 .. i /\ e \in i .. Len(f)
      BY <2>3
    <3> QED  BY <3>1, <3>2 DEF OwnAt
  <2>5. g \in Seq(Lines) /\ Nested(g) /\ Theirs(g) = Theirs(f)
    BY <2>3, <2>4, CutIs, CutNested, CutOwn DEF Theirs
  <2>6. Free(g, k)
    <3>1. \A i \in DOMAIN f : i \notin b .. e => ~IsMark(f[i], k)
      BY <2>1, <2>3 DEF IsBlock, IsMark
    <3> QED  BY <2>3, <3>1, FreeStays
  <2>7. \A l \in Keys : Free(f, l) => Free(g, l)
    BY <2>3, FreeStays DEF Free
  <2> QED  BY <2>2, <2>5, <2>6, <2>7 DEF Edited
<1> QED  BY <1>1, <1>2 DEF Nested

\* f is g with the block after its line n.
Came(f, g, n, block) ==
  /\ Len(f) = Len(g) + Len(block) /\ Cut(f, n + 1, n + Len(block)) = g
  /\ \A i \in 1 .. Len(block) : f[n + i] = block[i]

LEMMA InsertIs ==
  ASSUME NEW L, NEW g \in Seq(L), NEW n \in 0 .. Len(g), NEW block \in Seq(L)
  PROVE  /\ InsertAfter(g, n, block) \in Seq(L)
         /\ Came(InsertAfter(g, n, block), g, n, block)
<1> DEFINE x == SubSeq(g, 1, n)
           y == SubSeq(g, n + 1, Len(g))
           m == Len(block)
           f == (x \o block) \o y
<1>1. /\ x \in Seq(L) /\ Len(x) = n /\ (\A i \in 1 .. n : x[i] = g[i])
      /\ y \in Seq(L) /\ Len(y) = Len(g) - n /\ (\A i \in 1 .. Len(g) - n : y[i] = g[i + n])
      /\ m \in Nat /\ n \in Nat /\ Len(g) \in Nat
  OBVIOUS
<1> HIDE DEF x, y
<1>2. /\ x \o block \in Seq(L) /\ Len(x \o block) = n + m
      /\ \A i \in 1 .. n + m : (x \o block)[i] = IF i <= n THEN x[i] ELSE block[i - n]
  <2>1. x \o block \in Seq(L) /\ Len(x \o block) = n + m
    BY <1>1, ConcatProperties
  <2>2. \A i \in 1 .. n + m : (x \o block)[i] = IF i <= n THEN x[i] ELSE block[i - n]
    BY <1>1
  <2> QED  BY <2>1, <2>2
<1>3. /\ f \in Seq(L) /\ Len(f) = Len(g) + m
      /\ \A i \in 1 .. Len(g) + m : f[i] = IF i <= n + m THEN (x \o block)[i] ELSE y[i - (n + m)]
  <2> DEFINE z == x \o block
  <2>1. z \in Seq(L) /\ Len(z) = n + m
    BY <1>2
  <2> HIDE DEF z, m
  <2>2. z \o y \in Seq(L) /\ Len(z \o y) = Len(g) + m
    <3>1. z \o y \in Seq(L) /\ Len(z \o y) = Len(z) + Len(y)
      BY <1>1, <2>1, ConcatProperties
    <3> QED  BY <1>1, <2>1, <3>1
  <2>3. \A i \in 1 .. Len(g) + m : (z \o y)[i] = IF i <= n + m THEN z[i] ELSE y[i - (n + m)]
    BY <1>1, <2>1
  <2> QED  BY <2>2, <2>3 DEF z
<1>4. InsertAfter(g, n, block) = f
  BY DEF InsertAfter, x, y
<1> HIDE DEF f, m
<1>5. \A i \in 1 .. m : f[n + i] = block[i]
  <2> TAKE i \in 1 .. m
  <2>1. /\ n + i \in 1 .. n + m /\ n + i \in 1 .. Len(g) + m /\ n + i <= n + m
        /\ ~(n + i <= n) /\ (n + i) - n = i
    BY <1>1
  <2>2. f[n + i] = (x \o block)[n + i]
    BY <1>3, <2>1
  <2>3. (x \o block)[n + i] = block[(n + i) - n]
    BY <1>2, <2>1
  <2> QED  BY <2>1, <2>2, <2>3
<1>6. Cut(f, n + 1, n + m) = g
  <2> DEFINE h == Cut(f, n + 1, n + m)
  <2>1. n + 1 \in 1 .. Len(f) + 1 /\ n + m \in (n + 1) - 1 .. Len(f)
    BY <1>1, <1>3
  <2>2. /\ h \in Seq(L) /\ Len(h) = Len(f) - ((n + m) - (n + 1) + 1)
        /\ \A i \in DOMAIN h : h[i] = f[Old(i, n + 1, n + m)]
    <3> DEFINE p == n + 1
               q == n + m
    <3>1. p \in 1 .. Len(f) + 1 /\ q \in p - 1 .. Len(f) /\ f \in Seq(L)
      BY <1>3, <2>1
    <3> HIDE DEF p, q
    <3>2. /\ Cut(f, p, q) \in Seq(L) /\ Len(Cut(f, p, q)) = Len(f) - (q - p + 1)
          /\ \A i \in DOMAIN Cut(f, p, q) : Cut(f, p, q)[i] = f[Old(i, p, q)]
      BY <3>1, CutIs
    <3> QED  BY <3>2 DEF p, q
  <2> HIDE DEF h
  <2>3. Len(h) = Len(g)
    BY <1>1, <1>3, <2>2
  <2>4. ASSUME NEW i \in 1 .. Len(g) PROVE f[Old(i, n + 1, n + m)] = g[i]
    <3>1. CASE i <= n
      <4>1. Old(i, n + 1, n + m) = i /\ i \in 1 .. n + m /\ i \in 1 .. Len(g) + m /\ i \in 1 .. n
        BY <1>1, <3>1 DEF Old
      <4> QED  BY <1>1, <1>2, <1>3, <3>1, <4>1
    <3>2. CASE i > n
      <4>1. /\ Old(i, n + 1, n + m) = i + m /\ i + m \in 1 .. Len(g) + m /\ ~(i + m <= n + m)
            /\ (i + m) - (n + m) = i - n /\ i - n \in 1 .. Len(g) - n /\ (i - n) + n = i
        <5>1. Old(i, n + 1, n + m) = i + m
          <6>1. ~(i < n + 1) /\ (n + m) - (n + 1) + 1 = m
            BY <1>1, <3>2
          <6> QED  BY <6>1 DEF Old
        <5>2. /\ i + m \in 1 .. Len(g) + m /\ ~(i + m <= n + m)
              /\ (i + m) - (n + m) = i - n /\ i - n \in 1 .. Len(g) - n /\ (i - n) + n = i
          BY <1>1, <3>2
        <5> QED  BY <5>1, <5>2
      <4> QED  BY <1>1, <1>3, <4>1
    <3> QED  BY <1>1, <3>1, <3>2
  <2> QED  BY <2>2, <2>3, <2>4 DEF h
<1> QED  BY <1>3, <1>4, <1>5, <1>6 DEF Came, m

\* A block of a key that had none.
LEMMA BlockEdits ==
  ASSUME NEW g \in Seq(Lines), Nested(g), NEW k \in Keys, Free(g, k), NEW n \in 0 .. Len(g),
         NEW block \in Seq(Lines), IsBlock(block, k, 1, Len(block)),
         \A l \in Keys \ {k} : Free(block, l)
  PROVE  /\ Edited(g, InsertAfter(g, n, block), {k})
         /\ IsBlock(InsertAfter(g, n, block), k, n + 1, n + Len(block))
         /\ Cut(InsertAfter(g, n, block), n + 1, n + Len(block)) = g
<1> DEFINE f == InsertAfter(g, n, block)
           m == Len(block)
           b == n + 1
           e == n + m
<1>1. /\ f \in Seq(Lines) /\ Len(f) = Len(g) + m /\ Cut(f, b, e) = g
      /\ \A i \in 1 .. m : f[n + i] = block[i]
  <2>1. f \in Seq(Lines) /\ Came(f, g, n, block)
    BY InsertIs
  <2> QED  BY <2>1 DEF Came
<1>2. m \in Nat /\ m > 1 /\ n \in Nat /\ Len(g) \in Nat
  BY DEF IsBlock
<1> HIDE DEF f, m
<1>3. b \in 1 .. Len(f) + 1 /\ e \in b - 1 .. Len(f) /\ b < e /\ b \in DOMAIN f /\ e \in DOMAIN f
  BY <1>1, <1>2
<1>4. \A i \in b .. e : i - n \in 1 .. m /\ i - n \in DOMAIN block /\ f[i] = block[i - n]
  <2> TAKE i \in b .. e
  <2>1. i - n \in 1 .. m /\ n + (i - n) = i
    BY <1>2
  <2> QED  BY <1>1, <2>1 DEF m
<1>5. \A l \in Keys \ {k}, i \in b .. e : ~IsMark(f[i], l)
  BY <1>4 DEF Free
<1>6. IsBlock(f, k, b, e)
  <2>1. ASSUME NEW i \in DOMAIN f
        PROVE  (f[i].words = BeginMark(k) <=> i = b) /\ (f[i].words = EndMark(k) <=> i = e)
    <3>1. CASE i \in b .. e
      <4>1. (i - n = 1 <=> i = b) /\ (i - n = m <=> i = e)
        BY <1>2, <3>1
      <4> QED  BY <1>4, <3>1, <4>1 DEF IsBlock, m
    <3>2. CASE i \notin b .. e
      <4>1. ~IsMark(f[i], k)
        BY <1>1, <1>3, <3>2, NewIs DEF Free
      <4> QED  BY <1>3, <3>2, <4>1 DEF IsMark
    <3> QED  BY <3>1, <3>2
  <2> QED  BY <1>3, <2>1 DEF IsBlock
<1>7. Whole(f, b, e)
  BY <1>3, <1>5, <1>6 DEF Whole
<1>8. Nested(f) /\ Even(f, b, e)
  BY <1>1, <1>3, <1>7, WholeIsEven, WholeNested
<1>9. \A i \in b .. e : i \notin OwnAt(f)
  <2>1. \A i \in b .. e : b \in 1 .. i /\ e \in i .. Len(f)
    BY <1>3
  <2> QED  BY <1>3, <1>6, <2>1 DEF OwnAt, IsBlock
<1>10. Theirs(f) = Theirs(g)
  BY <1>1, <1>3, <1>8, <1>9, CutOwn DEF Theirs
<1>11. ASSUME NEW l \in Keys \ {k}, Free(g, l) PROVE Free(f, l)
  <2> SUFFICES ASSUME NEW i \in DOMAIN f PROVE ~IsMark(f[i], l)
    BY DEF Free
  <2>1. CASE i \in b .. e
    BY <1>5, <2>1
  <2>2. CASE i \notin b .. e
    <3>1. New(i, b, e) \in DOMAIN g /\ g[New(i, b, e)] = f[i]
      BY <1>1, <1>3, <2>2, NewIs
    <3> QED  BY <1>11, <3>1 DEF Free
  <2> QED  BY <2>1, <2>2
<1> QED  BY <1>1, <1>6, <1>8, <1>10, <1>11 DEF Edited, f, m

\* Lines that say nothing, at the end.
LEMMA BlankIsNoMark == \A k : ~IsMark(Blank, k)
BY DEF IsMark, Blank, Line, BeginMark, EndMark

LEMMA BlankEdits ==
  ASSUME NEW g \in Seq(Lines), Nested(g), NEW n \in 0 .. Len(g),
         NEW block \in Seq(Lines), Len(block) = 1, block[1] = Blank
  PROVE  Edited(g, InsertAfter(g, n, block), {})
<1> DEFINE f == InsertAfter(g, n, block)
           m == Len(block)
           b == n + 1
           e == n + m
<1>1. m = 1 /\ block[1] = Blank
  OBVIOUS
<1>2. f \in Seq(Lines) /\ Len(f) = Len(g) + 1 /\ Cut(f, b, b) = g /\ f[b] = Blank
  <2>1. f \in Seq(Lines) /\ Came(f, g, n, block)
    BY InsertIs
  <2> HIDE DEF f
  <2>2. Len(f) = Len(g) + m /\ Cut(f, b, e) = g /\ f[n + 1] = block[1]
    BY <1>1, <2>1 DEF Came
  <2> QED  BY <1>1, <2>1, <2>2
<1> HIDE DEF f
<1>3. b \in 1 .. Len(f) + 1 /\ b \in b - 1 .. Len(f)
  BY <1>2
<1>4. \A i \in b .. b : i = b /\ f[i] = Blank
  BY <1>2
<1>5. Whole(f, b, b)
  BY <1>4, BlankIsNoMark DEF Whole
<1>6. Nested(f) /\ Even(f, b, b)
  BY <1>2, <1>3, <1>5, WholeIsEven, WholeNested
<1>7. Theirs(f) = Theirs(g)
  <2>1. \A i \in b .. b : i \notin OwnAt(f)
    BY <1>4 DEF OwnAt
  <2> QED  BY <1>2, <1>3, <1>6, <2>1, CutOwn DEF Theirs
<1>8. ASSUME NEW l \in Keys, Free(g, l), NEW i \in DOMAIN f PROVE ~IsMark(f[i], l)
  <2>1. CASE i \in b .. b
    BY <1>4, <2>1, BlankIsNoMark
  <2>2. CASE i \notin b .. b
    BY <1>2, <1>3, <1>8, <2>2, NewIs DEF Free
  <2> QED  BY <2>1, <2>2
<1> QED  BY <1>2, <1>6, <1>7, <1>8 DEF Edited, f, Free

\* The lines at the end that say nothing may go.
LEMMA LeastOf ==
  ASSUME NEW S, S \subseteq Nat, S # {}
  PROVE  Min(S) \in S /\ \A i \in S : Min(S) <= i
BY Least DEF Min

LEMMA GreatestOf ==
  ASSUME NEW N \in Nat, NEW S, S \subseteq 1 .. N, S # {}
  PROVE  Max(S) \in S /\ \A i \in S : i <= Max(S)
<1> DEFINE T == {N - i : i \in S}
<1>1. T \in SUBSET Nat /\ T # {}
  <2>1. \A i \in S : N - i \in Nat
    OBVIOUS
  <2> QED  BY <2>1
<1>2. PICK n \in T : \A m \in T : n <= m
  <2> HIDE DEF T
  <2> QED  BY <1>1, Least
<1>3. PICK i \in S : n = N - i
  BY <1>2
<1>4. \A j \in S : i >= j
  <2> TAKE j \in S
  <2>1. n <= N - j
    BY <1>2
  <2> QED  BY <1>3, <2>1
<1>5. Max(S) \in S /\ \A j \in S : Max(S) >= j
  BY <1>4 DEF Max
<1>6. \A j \in S : j \in Int
  OBVIOUS
<1> QED  BY <1>5, <1>6

LEMMA TrimEdits ==
  ASSUME NEW f \in Seq(Lines), Nested(f)
  PROVE  Edited(f, Trimmed(f), {})
<1> DEFINE said == {i \in DOMAIN f : f[i] # Blank}
           m == IF said = {} THEN 0 ELSE Max(said)
           b == m + 1
           e == Len(f)
<1>1. m \in 0 .. Len(f) /\ \A i \in m + 1 .. Len(f) : f[i] = Blank
  <2>1. CASE said = {}
    BY <2>1
  <2>2. CASE said # {}
    <3>1. Len(f) \in Nat /\ said \subseteq 1 .. Len(f)
      OBVIOUS
    <3>2. Max(said) \in said /\ \A i \in said : i <= Max(said)
      <4> HIDE DEF said
      <4> QED  BY <2>2, <3>1, GreatestOf
    <3>3. m = Max(said)
      BY <2>2
    <3>4. m \in 1 .. Len(f) /\ \A i \in said : i <= m
      <4> HIDE DEF said, m
      <4> QED  BY <3>1, <3>2, <3>3
    <3>5. \A i \in m + 1 .. Len(f) : i \in DOMAIN f /\ i \notin said
      <4> HIDE DEF said, m
      <4> QED  BY <3>1, <3>4
    <3>6. \A i \in m + 1 .. Len(f) : f[i] = Blank
      <4> HIDE DEF m
      <4> QED  BY <3>5
    <3> QED  BY <3>4, <3>6
  <2> QED  BY <2>1, <2>2
<1>2. Trimmed(f) = Cut(f, b, e)
  <2>1. SubSeq(f, e + 1, e) = <<>> /\ SubSeq(f, 1, 0) = <<>>
    OBVIOUS
  <2>2. Trimmed(f) = SubSeq(f, 1, m)
    BY <2>1 DEF Trimmed
  <2> HIDE DEF m
  <2>3. SubSeq(f, 1, m) \in Seq(Lines)
    BY <1>1
  <2>4. b - 1 = m
    BY <1>1
  <2>5. SubSeq(f, 1, m) \o <<>> = SubSeq(f, 1, m)
    BY <2>3, ConcatEmptySeq
  <2> QED  BY <2>1, <2>2, <2>4, <2>5 DEF Cut
<1> HIDE DEF m
<1>3. b \in 1 .. Len(f) + 1 /\ e \in b - 1 .. Len(f) /\ \A i \in b .. e : f[i] = Blank
  BY <1>1
<1>4. Even(f, b, e)
  <2>1. Whole(f, b, e)
    BY <1>3, BlankIsNoMark DEF Whole
  <2> QED  BY <1>3, <2>1, WholeIsEven
<1>5. Theirs(Cut(f, b, e)) = Theirs(f)
  <2>1. \A i \in b .. e : i \notin OwnAt(f)
    BY <1>3 DEF OwnAt
  <2> QED  BY <1>3, <1>4, <2>1, CutOwn DEF Theirs
<1>6. Cut(f, b, e) \in Seq(Lines) /\ Nested(Cut(f, b, e))
  BY <1>3, <1>4, CutIs, CutNested
<1>7. \A k \in Keys : Free(f, k) => Free(Cut(f, b, e), k)
  BY <1>3, FreeStays DEF Free
<1> QED  BY <1>2, <1>5, <1>6, <1>7 DEF Edited

\* Blocks that go to the front or to the end of a file.
LEMMA PutAtEnds ==
  ASSUME NEW L, NEW f \in Seq(L), NEW block \in Seq(L)
  PROVE  /\ InsertAfter(f, 0, block) = block \o f
         /\ InsertAfter(f, Len(f), block) = f \o block
<1>1. /\ SubSeq(f, 1, 0) = <<>> /\ SubSeq(f, Len(f) + 1, Len(f)) = <<>>
      /\ SubSeq(f, 1, Len(f)) = f
  OBVIOUS
<1>2. <<>> \o block = block /\ block \o f \in Seq(L) /\ f \o block \in Seq(L)
  BY ConcatEmptySeq, ConcatProperties
<1>3. (f \o block) \o <<>> = f \o block
  BY <1>2, ConcatEmptySeq
<1>4. SubSeq(f, 0 + 1, Len(f)) = f
  BY <1>1
<1>5. InsertAfter(f, 0, block) = block \o f
  BY <1>1, <1>2, <1>4 DEF InsertAfter
<1>6. InsertAfter(f, Len(f), block) = f \o block
  BY <1>1, <1>3 DEF InsertAfter
<1> QED  BY <1>5, <1>6

\* What we write between markers.
Payload(lines) ==
  lines \in Seq(Lines) /\ \A i \in DOMAIN lines, k \in Keys : ~IsMark(lines[i], k)

LEMMA Tuples ==
  ASSUME NEW S
  PROVE  /\ <<>> \in Seq(S)
         /\ \A a \in S : <<a>> \in Seq(S)
         /\ \A a, b \in S : <<a, b>> \in Seq(S)
         /\ \A a, b, c \in S : <<a, b, c>> \in Seq(S)
<1>1. <<>> \in Seq(S)
  BY EmptySeq
<1>2. \A a \in S : <<a>> \in Seq(S)
  OBVIOUS
<1>3. \A a, b \in S : <<a, b>> \in Seq(S)
  OBVIOUS
<1>4. \A a, b, c \in S : <<a, b, c>> \in Seq(S)
  OBVIOUS
<1> QED  BY <1>1, <1>2, <1>3, <1>4

LEMMA KeysAreWords == Keys \subseteq Words
BY KeyAssumption DEF KeyAssumption, Keys

LEMMA MarkedIs ==
  ASSUME NEW k \in Keys, NEW lines, Payload(lines), NEW indented \in BOOLEAN
  PROVE  /\ Marked(k, lines, indented) \in Seq(Lines)
         /\ IsBlock(Marked(k, lines, indented), k, 1, Len(Marked(k, lines, indented)))
         /\ \A l \in Keys \ {k} : Free(Marked(k, lines, indented), l)
<1> DEFINE block == Marked(k, lines, indented)
           m == Len(lines) + 2
<1>1. /\ lines \in Seq(Lines) /\ Len(lines) \in Nat /\ k \in Words
      /\ \A i \in 1 .. Len(lines) : lines[i] \in Lines
  <2>1. lines \in Seq(Lines)
    BY DEF Payload
  <2>2. Len(lines) \in Nat /\ \A i \in 1 .. Len(lines) : lines[i] \in Lines
    BY <2>1
  <2> QED  BY <2>1, <2>2, KeysAreWords
<1>2. \A w \in Seq(Words), x \in BOOLEAN : Line(x, w) \in Lines /\ Line(x, w).words = w
  BY DEF Line, Lines
<1>3. BeginMark(k) \in Seq(Words) /\ EndMark(k) \in Seq(Words)
  <2>1. "#" \in Words /\ ">>>" \in Words /\ "<<<" \in Words
    BY WordAssumption DEF WordAssumption
  <2>2. <<"#", ">>>", k>> \in Seq(Words)
    BY <1>1, <2>1, Tuples, Zenon
  <2>3. <<"#", "<<<", k>> \in Seq(Words)
    BY <1>1, <2>1, Tuples, Zenon
  <2> QED  BY <2>2, <2>3 DEF BeginMark, EndMark
<1>4. block = [n \in 1 .. m |->
                 IF n = 1 THEN Line(indented, BeginMark(k))
                 ELSE IF n = m THEN Line(indented, EndMark(k))
                 ELSE Line(indented \/ lines[n - 1].indented, lines[n - 1].words)]
  BY DEF Marked
<1>5. m \in Nat /\ m > 1
  BY <1>1
<1>6. \A n \in 1 .. m : n # 1 /\ n # m => n - 1 \in 1 .. Len(lines)
  BY <1>1
<1>7. \A n \in 1 .. m : n # 1 /\ n # m =>
        Line(indented \/ lines[n - 1].indented, lines[n - 1].words) \in Lines
  BY <1>1, <1>2, <1>6 DEF Lines
<1> HIDE DEF m, block
<1>8. block \in [1 .. m -> Lines]
  BY <1>2, <1>3, <1>4, <1>7
<1>9. block \in Seq(Lines) /\ Len(block) = m /\ DOMAIN block = 1 .. m
  BY <1>5, <1>8
<1>10. /\ block[1].words = BeginMark(k) /\ block[m].words = EndMark(k)
       /\ \A n \in 1 .. m : n # 1 /\ n # m =>
            block[n].words = lines[n - 1].words /\ \A l \in Keys : ~IsMark(block[n], l)
  <2>1. block[1].words = BeginMark(k)
    BY <1>2, <1>3, <1>4, <1>5
  <2>2. block[m].words = EndMark(k)
    BY <1>2, <1>3, <1>4, <1>5
  <2>3. ASSUME NEW n \in 1 .. m, n # 1, n # m
        PROVE  block[n].words = lines[n - 1].words /\ \A l \in Keys : ~IsMark(block[n], l)
    <3>1. block[n] = Line(indented \/ lines[n - 1].indented, lines[n - 1].words)
      BY <1>4, <2>3
    <3>2. block[n].words = lines[n - 1].words
      BY <3>1 DEF Line
    <3>3. n - 1 \in DOMAIN lines
      BY <1>1, <1>6, <2>3
    <3> QED  BY <3>2, <3>3 DEF Payload, IsMark
  <2> QED  BY <2>1, <2>2, <2>3
<1>11. IsBlock(block, k, 1, m)
  BY <1>5, <1>9, <1>10, Marks DEF IsBlock, IsMark
<1>12. ASSUME NEW l \in Keys \ {k}, NEW n \in 1 .. m PROVE ~IsMark(block[n], l)
  BY <1>10, Marks DEF IsMark
<1> QED  BY <1>9, <1>11, <1>12 DEF Free, block

\* The edit that all engines make: strip, then insert.
LEMMA PutEdits ==
  ASSUME NEW f \in Seq(Lines), Nested(f), NEW k \in Keys, NEW n \in 0 .. Len(Strip(f, k)),
         NEW lines, Payload(lines), NEW indented \in BOOLEAN,
         NEW g, g = InsertAfter(Strip(f, k), n, Marked(k, lines, indented))
  PROVE  Edited(f, g, {k}) /\ Strip(g, k) = Strip(f, k)
<1> DEFINE src == Strip(f, k)
           block == Marked(k, lines, indented)
<1>1. src \in Seq(Lines) /\ Nested(src) /\ Edited(f, src, {k}) /\ Free(src, k)
  BY StripEdits DEF Edited
<1>2. /\ block \in Seq(Lines) /\ IsBlock(block, k, 1, Len(block))
      /\ \A l \in Keys \ {k} : Free(block, l)
  BY MarkedIs
<1> HIDE DEF src, block
<1>3. /\ Edited(src, InsertAfter(src, n, block), {k})
      /\ IsBlock(InsertAfter(src, n, block), k, n + 1, n + Len(block))
      /\ Cut(InsertAfter(src, n, block), n + 1, n + Len(block)) = src
  BY <1>1, <1>2, BlockEdits DEF src
<1>4. g = InsertAfter(src, n, block)
  BY DEF src, block
<1>5. Edited(f, g, {k})
  <2>1. {k} \cup {k} = {k}
    OBVIOUS
  <2> QED  BY <1>1, <1>3, <1>4, <2>1, EditsCompose
<1>6. g \in Seq(Lines)
  BY <1>5 DEF Edited
<1>7. Strip(g, k) = src
  BY <1>3, <1>4, <1>6, StripBlock
<1> QED  BY <1>5, <1>7 DEF src

\* An edit that finds no block to edit is refused.
Tried(f, g, K) == g = NoBlockFound \/ Edited(f, g, K)

\* One block is written, and it is all that differs.
Put(f, g, k) == g = NoBlockFound \/ (Edited(f, g, {k}) /\ Strip(g, k) = Strip(f, k))

LEMMA HeaderEdits ==
  ASSUME NEW f \in Seq(Lines), Nested(f), NEW k \in Keys, NEW lines, Payload(lines), NEW headers
  PROVE  Put(f, InjectAfterHeader(f, k, lines, headers), k)
<1> DEFINE src == Strip(f, k)
           at == {i \in DOMAIN src : src[i] \in headers}
           g == InsertAfter(src, Min(at), Marked(k, lines, TRUE))
<1>1. InjectAfterHeader(f, k, lines, headers) = IF at = {} THEN NoBlockFound ELSE g
  BY DEF InjectAfterHeader
<1>2. src \in Seq(Lines)
  BY StripEdits DEF Edited
<1>3. ASSUME at # {} PROVE Edited(f, g, {k}) /\ Strip(g, k) = Strip(f, k)
  <2>1. at \subseteq DOMAIN src /\ at \subseteq Nat
    BY <1>2
  <2>2. Min(at) \in at
    <3> HIDE DEF at
    <3> QED  BY <1>3, <2>1, LeastOf
  <2>3. Min(at) \in 0 .. Len(src)
    <3> HIDE DEF at, src
    <3>1. DOMAIN src = 1 .. Len(src) /\ Len(src) \in Nat
      BY <1>2
    <3> QED  BY <2>1, <2>2, <3>1
  <2> QED  BY <2>3, PutEdits
<1> QED  BY <1>1, <1>3 DEF Put

-----------------------------------------------------------------------------
(* The engines                                                             *)

LEMMA OneLine ==
  ASSUME NEW words \in Seq(Words), NEW indented \in BOOLEAN
  PROVE  /\ Line(indented, words) \in Lines
         /\ \A k : IsMark(Line(indented, words), k) <=>
              words = BeginMark(k) \/ words = EndMark(k)
BY DEF Line, Lines, IsMark

LEMMA OurWords ==
  /\ \A w \in Words : /\ <<w>> \in Seq(Words)
                      /\ \A k : <<w>> # BeginMark(k) /\ <<w>> # EndMark(k)
  /\ \A v, w \in Words : /\ <<v, w>> \in Seq(Words)
                         /\ \A k : <<v, w>> # BeginMark(k) /\ <<v, w>> # EndMark(k)
  /\ \A u, v, w \in Words : /\ <<u, v, w>> \in Seq(Words)
                            /\ u # "#" => \A k : <<u, v, w>> # BeginMark(k) /\ <<u, v, w>> # EndMark(k)
<1>1. \A w, k : Len(<<w>>) = 1 /\ Len(BeginMark(k)) = 3 /\ Len(EndMark(k)) = 3
  BY DEF BeginMark, EndMark
<1>2. \A v, w : Len(<<v, w>>) = 2
  OBVIOUS
<1>3. \A u, v, w, k : u # "#" => <<u, v, w>> # BeginMark(k) /\ <<u, v, w>> # EndMark(k)
  BY DEF BeginMark, EndMark
<1> QED  BY <1>1, <1>2, <1>3, Tuples

Ours(line) == line \in Lines /\ \A k \in Keys : ~IsMark(line, k)

LEMMA OursAre ==
  /\ \A x \in BOOLEAN, w \in Words : Ours(Line(x, <<w>>))
  /\ \A x \in BOOLEAN, v, w \in Words : Ours(Line(x, <<v, w>>))
  /\ \A x \in BOOLEAN, u, v, w \in Words : u # "#" => Ours(Line(x, <<u, v, w>>))
<1>1. ASSUME NEW x \in BOOLEAN, NEW w \in Words PROVE Ours(Line(x, <<w>>))
  <2>1. <<w>> \in Seq(Words) /\ \A k : <<w>> # BeginMark(k) /\ <<w>> # EndMark(k)
    BY OurWords
  <2> QED  BY <2>1, OneLine DEF Ours
<1>2. ASSUME NEW x \in BOOLEAN, NEW v \in Words, NEW w \in Words PROVE Ours(Line(x, <<v, w>>))
  <2>1. <<v, w>> \in Seq(Words) /\ \A k : <<v, w>> # BeginMark(k) /\ <<v, w>> # EndMark(k)
    BY OurWords
  <2> QED  BY <2>1, OneLine DEF Ours
<1>3. ASSUME NEW x \in BOOLEAN, NEW u \in Words, NEW v \in Words, NEW w \in Words, u # "#"
      PROVE  Ours(Line(x, <<u, v, w>>))
  <2>1. /\ <<u, v, w>> \in Seq(Words)
        /\ \A k : <<u, v, w>> # BeginMark(k) /\ <<u, v, w>> # EndMark(k)
    BY <1>3, OurWords
  <2> QED  BY <2>1, OneLine DEF Ours
<1> QED  BY <1>1, <1>2, <1>3

LEMMA Payloads ==
  /\ \A a : Ours(a) => Payload(<<a>>)
  /\ \A a, b : Ours(a) /\ Ours(b) => Payload(<<a, b>>)
  /\ \A a, b, c : Ours(a) /\ Ours(b) /\ Ours(c) => Payload(<<a, b, c>>)
  /\ \A x, y : Payload(x) /\ Payload(y) => Payload(x \o y)
<1>1. ASSUME NEW a, Ours(a) PROVE Payload(<<a>>)
  <2>1. <<a>> \in Seq(Lines)
    BY <1>1, Tuples DEF Ours
  <2> QED  BY <1>1, <2>1 DEF Ours, Payload
<1>3. ASSUME NEW a, NEW b, Ours(a), Ours(b) PROVE Payload(<<a, b>>)
  <2>1. <<a, b>> \in Seq(Lines)
    BY <1>3, Tuples DEF Ours
  <2> QED  BY <1>3, <2>1 DEF Ours, Payload
<1>4. ASSUME NEW a, NEW b, NEW c, Ours(a), Ours(b), Ours(c) PROVE Payload(<<a, b, c>>)
  <2>1. <<a, b, c>> \in Seq(Lines)
    BY <1>4, Tuples DEF Ours
  <2> QED  BY <1>4, <2>1 DEF Ours, Payload
<1>2. ASSUME NEW x, NEW y, Payload(x), Payload(y) PROVE Payload(x \o y)
  <2>1. x \in Seq(Lines) /\ y \in Seq(Lines)
    BY <1>2 DEF Payload
  <2>2. x \o y \in Seq(Lines) /\ Len(x \o y) = Len(x) + Len(y)
    BY <2>1, ConcatProperties
  <2>3. ASSUME NEW i \in DOMAIN (x \o y), NEW k \in Keys PROVE ~IsMark((x \o y)[i], k)
    <3>1. i \in 1 .. Len(x) + Len(y)
      BY <2>2
    <3>2. CASE i <= Len(x)
      <4>1. i \in DOMAIN x /\ (x \o y)[i] = x[i]
        BY <2>1, <3>1, <3>2
      <4> QED  BY <1>2, <4>1 DEF Payload
    <3>3. CASE i > Len(x)
      <4>1. i - Len(x) \in DOMAIN y /\ (x \o y)[i] = y[i - Len(x)]
        BY <2>1, <3>1, <3>3
      <4> QED  BY <1>2, <4>1 DEF Payload
    <3> QED  BY <2>1, <3>1, <3>2, <3>3
  <2> QED  BY <2>2, <2>3 DEF Payload
<1> QED  BY <1>1, <1>2, <1>3, <1>4

LEMMA HaproxyPayloads ==
  ASSUME NEW k \in Keys, NEW mode \in Words, NEW realIp \in BOOLEAN
  PROVE  Payload(HaproxyPayload(k, mode, realIp))
<1> DEFINE lines == HaproxyPayload(k, mode, realIp)
           acl == Line(FALSE, <<"acl", k>>)
           deny == Line(FALSE, <<"deny-if", mode, k>>)
           forwardfor == Line(FALSE, <<"forwardfor">>)
           src == Line(FALSE, <<"set-src">>)
           plain == <<acl, deny>>
           real == <<forwardfor, src>>
<1>1. {"acl", "deny-if", "forwardfor", "set-src", k, mode} \subseteq Words
  BY WordAssumption, KeysAreWords DEF WordAssumption
<1>2. Ours(acl) /\ Ours(deny) /\ Ours(forwardfor) /\ Ours(src)
  BY <1>1, OursAre
<1>3. Payload(plain) /\ Payload(plain \o real)
  <2> HIDE DEF acl, deny, forwardfor, src
  <2> QED  BY <1>2, Payloads
<1>4. lines = plain \/ lines = plain \o real
  <2>1. plain \o <<>> = plain
    OBVIOUS
  <2> QED  BY <2>1 DEF HaproxyPayload
<1> QED  BY <1>3, <1>4

LEMMA HaproxyEdits ==
  ASSUME NEW f \in Seq(Lines), Nested(f), NEW k \in Keys, NEW selector,
         NEW mode \in Words, NEW realIp \in BOOLEAN
  PROVE  Put(f, HaproxyInject(f, k, selector, mode, realIp), k)
<1>1. Payload(HaproxyPayload(k, mode, realIp))
  BY HaproxyPayloads
<1> QED  BY <1>1, HeaderEdits DEF HaproxyInject

LEMMA TrustedEdits ==
  ASSUME NEW f \in Seq(Lines), Nested(f), NEW k \in Keys, NEW ranges \in Words
  PROVE  Tried(f, EnsureTrustedProxies(f, k, ranges), {k})
<1> DEFINE src == Strip(f, k)
           open == Line(FALSE, <<"servers", "{">>)
           trust == Line(TRUE, <<"trusted_proxies", ranges>>)
           close == Line(FALSE, <<"}">>)
           servers == <<open, trust, close>>
           inner == [i \in DOMAIN servers |-> Line(TRUE, servers[i].words)]
           global == <<Line(FALSE, <<"{">>)>> \o inner \o <<close>>
           headers == {line \in Range(src) : ~line.indented /\ line.words = <<"{">>}
           g == EnsureTrustedProxies(f, k, ranges)
<1>1. {"servers", "{", "trusted_proxies", "}", ranges} \subseteq Words
  BY WordAssumption DEF WordAssumption
<1>2. Ours(open) /\ Ours(trust) /\ Ours(close) /\ Ours(Line(FALSE, <<"{">>))
  BY <1>1, OursAre
<1>3. Payload(servers)
  <2> HIDE DEF open, trust, close
  <2> QED  BY <1>2, Payloads
<1>4. Payload(inner)
  <2> DEFINE a == Line(TRUE, <<"servers", "{">>)
             b == Line(TRUE, <<"trusted_proxies", ranges>>)
             c == Line(TRUE, <<"}">>)
  <2>2. Ours(a) /\ Ours(b) /\ Ours(c)
    BY <1>1, OursAre
  <2>3. inner = <<a, b, c>>
    <3>1. open.words = <<"servers", "{">> /\ trust.words = <<"trusted_proxies", ranges>>
          /\ close.words = <<"}">>
      BY DEF Line
    <3>2. DOMAIN servers = 1 .. 3 /\ servers[1] = open /\ servers[2] = trust /\ servers[3] = close
      OBVIOUS
    <3> HIDE DEF servers, open, trust, close
    <3>3. inner = [i \in 1 .. 3 |-> Line(TRUE, servers[i].words)]
      BY <3>2
    <3> HIDE DEF inner
    <3>8. \A i \in 1 .. 3 : inner[i] = Line(TRUE, servers[i].words)
      BY <3>3
    <3>4. inner[1] = a /\ inner[2] = b /\ inner[3] = c
      <4>1. /\ inner[1] = Line(TRUE, open.words) /\ inner[2] = Line(TRUE, trust.words)
            /\ inner[3] = Line(TRUE, close.words)
        <5>1. 1 \in 1 .. 3 /\ 2 \in 1 .. 3 /\ 3 \in 1 .. 3
          OBVIOUS
        <5>2. /\ inner[1] = Line(TRUE, servers[1].words)
              /\ inner[2] = Line(TRUE, servers[2].words)
              /\ inner[3] = Line(TRUE, servers[3].words)
          BY <3>8, <5>1, Zenon
        <5> QED  BY <3>2, <5>2, Zenon
      <4> QED  BY <3>1, <4>1
    <3> HIDE DEF a, b, c
    <3>5. <<a, b, c>> = [i \in 1 .. 3 |-> <<a, b, c>>[i]]
      OBVIOUS
    <3>6. \A i \in 1 .. 3 : inner[i] = <<a, b, c>>[i]
      BY <3>4
    <3>7. inner = [i \in 1 .. 3 |-> inner[i]]
      BY <3>3
    <3> QED  BY <3>5, <3>6, <3>7
  <2> HIDE DEF a, b, c, inner
  <2> QED  BY <2>2, <2>3, Payloads
<1>5. Payload(global)
  <2> DEFINE first == Line(FALSE, <<"{">>)
  <2>1. Payload(<<first>>) /\ Payload(<<close>>)
    <3> HIDE DEF close, first
    <3> QED  BY <1>2, Payloads DEF first
  <2> HIDE DEF inner, close, first
  <2>2. Payload(<<first>> \o inner)
    BY <1>4, <2>1, Payloads
  <2> QED  BY <2>1, <2>2, Payloads DEF first
<1>6. src \in Seq(Lines) /\ Nested(src) /\ Edited(f, src, {k})
  BY StripEdits DEF Edited
<1>7. \/ g = Marked(k, global, FALSE) \o src
      \/ g = NoBlockFound
      \/ g = InjectAfterHeader(src, k, servers, headers)
  BY DEF EnsureTrustedProxies
<1>8. CASE g = Marked(k, global, FALSE) \o src
  <2> HIDE DEF global
  <2>1. Marked(k, global, FALSE) \in Seq(Lines)
    BY <1>5, MarkedIs
  <2>2. g = InsertAfter(src, 0, Marked(k, global, FALSE))
    BY <1>6, <1>8, <2>1, PutAtEnds
  <2>3. 0 \in 0 .. Len(src)
    BY <1>6
  <2> HIDE DEF g
  <2>4. Edited(f, g, {k})
    BY <1>5, <2>2, <2>3, PutEdits
  <2> QED  BY <2>4 DEF Tried, g
<1>9. CASE g = InjectAfterHeader(src, k, servers, headers)
  <2> HIDE DEF servers, headers, src
  <2>1. Tried(src, InjectAfterHeader(src, k, servers, headers), {k})
    BY <1>3, <1>6, HeaderEdits DEF Put, Tried
  <2>2. {k} \cup {k} = {k}
    OBVIOUS
  <2> QED  BY <1>6, <1>9, <2>1, <2>2, EditsCompose DEF Tried
<1> QED  BY <1>7, <1>8, <1>9 DEF Tried

LEMMA CaddyPayloads ==
  ASSUME NEW k \in Keys
  PROVE  Payload(<<Line(FALSE, <<"import", k>>)>>)
<1> DEFINE import == Line(FALSE, <<"import", k>>)
<1>1. Ours(import)
  BY WordAssumption, KeysAreWords, OursAre DEF WordAssumption
<1> HIDE DEF import
<1> QED  BY <1>1, Payloads DEF import

LEMMA CaddyEdits ==
  ASSUME NEW f \in Seq(Lines), Nested(f), NEW k \in Keys, NEW j \in Keys, NEW selector,
         NEW realIp \in BOOLEAN, NEW ranges \in Words
  PROVE  Tried(f, CaddyInject(f, k, j, selector, realIp, ranges), {k, j})
<1> DEFINE lines == <<Line(FALSE, <<"import", k>>)>>
           out == InjectAfterHeader(f, k, lines, {line \in Range(f) : CaddySite(selector, line)})
           g == CaddyInject(f, k, j, selector, realIp, ranges)
<1>1. Payload(lines)
  BY CaddyPayloads
<1>2. Tried(f, out, {k})
  <2> HIDE DEF lines
  <2> QED  BY <1>1, HeaderEdits DEF Put, Tried
<1>3. g = out \/ (out # NoBlockFound /\ g = EnsureTrustedProxies(out, j, ranges))
  BY DEF CaddyInject
<1> HIDE DEF out, g
<1>4. ASSUME Edited(f, out, {k}) PROVE Edited(f, out, {k, j})
  BY <1>4 DEF Edited
<1>5. CASE g = out
  BY <1>2, <1>4, <1>5 DEF Tried, g
<1>6. CASE out # NoBlockFound /\ g = EnsureTrustedProxies(out, j, ranges)
  <2>1. Edited(f, out, {k}) /\ out \in Seq(Lines) /\ Nested(out)
    BY <1>2, <1>6 DEF Tried, Edited
  <2>2. Tried(out, g, {j})
    BY <1>6, <2>1, TrustedEdits
  <2>3. {k} \cup {j} = {k, j}
    OBVIOUS
  <2>4. CASE g = NoBlockFound
    BY <2>4 DEF Tried, g
  <2>5. CASE Edited(out, g, {j})
    <3>1. Edited(f, g, {k} \cup {j})
      BY <2>1, <2>5, EditsCompose
    <3> QED  BY <2>3, <3>1 DEF Tried, g
  <2> QED  BY <2>2, <2>4, <2>5 DEF Tried
<1> QED  BY <1>3, <1>5, <1>6 DEF g

LEMMA ApachePayloads ==
  ASSUME NEW k \in Keys
  PROVE  Payload(Include(k))
<1> DEFINE include == Line(FALSE, <<"Include", k>>)
<1>1. Ours(include)
  BY WordAssumption, KeysAreWords, OursAre DEF WordAssumption
<1>2. Include(k) = <<include>>
  BY DEF Include
<1> HIDE DEF include
<1> QED  BY <1>1, <1>2, Payloads

LEMMA ApacheEdits ==
  ASSUME NEW f \in Seq(Lines), Nested(f), NEW k \in Keys, NEW selector
  PROVE  /\ Tried(f, ApacheInject(f, k, selector), {k})
         /\ selector # "" => Put(f, ApacheInject(f, k, selector), k)
<1> DEFINE src == Strip(f, k)
<1>1. src \in Seq(Lines) /\ Nested(src) /\ Edited(f, src, {k}) /\ Free(src, k)
  BY StripEdits DEF Edited
<1>2. Payload(Include(k))
  BY ApachePayloads
<1> HIDE DEF src
<1>3. Edited(f, AppendInclude(f, k), {k})
  <2> DEFINE blank == <<Blank>>
             block == Marked(k, Include(k), FALSE)
             p == Trimmed(src)
             q == p \o blank
             r == q \o block
             s == r \o blank
  <2>1. AppendInclude(f, k) = s
    BY DEF AppendInclude, src
  <2>2. Blank \in Lines
    BY EmptySeq DEF Blank, Line, Lines
  <2>3. blank \in Seq(Lines) /\ Len(blank) = 1 /\ blank[1] = Blank
    BY <2>2
  <2>4. /\ block \in Seq(Lines) /\ IsBlock(block, k, 1, Len(block))
        /\ \A l \in Keys \ {k} : Free(block, l)
    BY <1>2, MarkedIs
  <2> HIDE DEF blank, block, p
  <2>5. Edited(src, p, {}) /\ p \in Seq(Lines) /\ Nested(p)
    BY <1>1, TrimEdits DEF Edited, p
  <2>6. Edited(p, q, {}) /\ q \in Seq(Lines) /\ Nested(q)
    <3>1. q = InsertAfter(p, Len(p), blank) /\ Len(p) \in 0 .. Len(p)
      BY <2>3, <2>5, PutAtEnds
    <3> HIDE DEF q
    <3> QED  BY <2>3, <2>5, <3>1, BlankEdits DEF Edited
  <2> HIDE DEF q
  <2>7. Free(q, k)
    <3>1. \A x, y : Free(x, k) /\ Edited(x, y, {}) => Free(y, k)
      BY DEF Edited
    <3> QED  BY <1>1, <2>5, <2>6, <3>1
  <2>8. Edited(q, r, {k}) /\ r \in Seq(Lines) /\ Nested(r)
    <3>1. r = InsertAfter(q, Len(q), block) /\ Len(q) \in 0 .. Len(q)
      BY <2>4, <2>6, PutAtEnds
    <3> HIDE DEF r
    <3>2. Edited(q, r, {k})
      BY <2>4, <2>6, <2>7, <3>1, BlockEdits
    <3> QED  BY <3>2 DEF Edited
  <2> HIDE DEF r
  <2>9. Edited(r, s, {})
    <3>1. s = InsertAfter(r, Len(r), blank) /\ Len(r) \in 0 .. Len(r)
      BY <2>3, <2>8, PutAtEnds
    <3> HIDE DEF s
    <3> QED  BY <2>3, <2>8, <3>1, BlankEdits
  <2> HIDE DEF s
  <2>10. Edited(f, s, ((({k} \cup {}) \cup {}) \cup {k}) \cup {})
    BY <1>1, <2>5, <2>6, <2>8, <2>9, EditsCompose
  <2>11. ((({k} \cup {}) \cup {}) \cup {k}) \cup {} = {k}
    OBVIOUS
  <2> QED  BY <2>1, <2>10, <2>11
<1>4. Put(f, InjectVhost(f, k, selector), k)
  <2> DEFINE named == {i \in DOMAIN src :
                  /\ VhostOpenAt(src, i) # 0
                  /\ Starts(src[i], {"ServerName", "ServerAlias"})
                  /\ selector \in Range(Tail(src[i].words))}
             n == VhostOpenAt(src, Min(named))
             g == InsertAfter(src, n, Marked(k, Include(k), TRUE))
  <2>1. InjectVhost(f, k, selector) = IF named = {} THEN NoBlockFound ELSE g
    BY DEF InjectVhost, src
  <2>2. ASSUME named # {} PROVE Edited(f, g, {k}) /\ Strip(g, k) = Strip(f, k)
    <3>1. DOMAIN src = 1 .. Len(src) /\ Len(src) \in Nat /\ named \subseteq DOMAIN src
      BY <1>1
    <3>2. Min(named) \in named
      <4> HIDE DEF named
      <4> QED  BY <2>2, <3>1, LeastOf
    <3>3. Min(named) \in 1 .. Len(src) /\ n # 0
      BY <3>1, <3>2
    <3>4. n \in 0 .. Len(src)
      <4> DEFINE m == Min(named)
                 tags == {v \in 1 .. m : Starts(src[v], {"<VirtualHost", "</VirtualHost"})}
      <4>1. n = 0 \/ (tags # {} /\ n = Max(tags))
        BY DEF VhostOpenAt
      <4>2. m \in Nat /\ m <= Len(src) /\ tags \subseteq 1 .. m
        <5> HIDE DEF named
        <5> QED  BY <3>1, <3>3
      <4> HIDE DEF m, tags, n
      <4>3. tags # {} => Max(tags) \in tags
        BY <4>2, GreatestOf
      <4>4. tags # {} /\ n = Max(tags)
        BY <3>3, <4>1
      <4>5. n \in 1 .. m
        BY <4>2, <4>3, <4>4
      <4> QED  BY <3>1, <4>2, <4>5
    <3> HIDE DEF n
    <3> QED  BY <1>2, <3>4, PutEdits DEF src
  <2> QED  BY <2>1, <2>2 DEF Put
<1> QED  BY <1>3, <1>4 DEF Put, Tried, ApacheInject

-----------------------------------------------------------------------------
(* nginx                                                                   *)

\* What a function that is defined step by step stays in.
LEMMA IterateIn ==
  ASSUME NEW X, NEW N \in Nat, NEW g, g[0] \in X,
         \A i \in 1 .. N : g[i - 1] \in X => g[i] \in X
  PROVE  \A n \in 0 .. N : g[n] \in X
<1> DEFINE W == {n \in 0 .. N : g[n] \notin X}
<1>1. SUFFICES ASSUME W # {} PROVE FALSE
  OBVIOUS
<1>2. PICK n \in W : \A m \in W : n <= m
  <2>1. W \in SUBSET Nat
    OBVIOUS
  <2> HIDE DEF W
  <2> QED  BY <1>1, <2>1, Least
<1>3. n \in 1 .. N /\ n - 1 \in 0 .. N /\ n - 1 \notin W
  <2>1. n # 0
    BY <1>2
  <2>2. n - 1 \notin W
    BY <1>2
  <2> QED  BY <1>2, <2>1, <2>2
<1> QED  BY <1>2, <1>3

\* Every token is on a line of the file.
LEMMA TokensAre ==
  ASSUME NEW f \in Seq(Lines)
  PROVE  Tokens(f) \in Seq([line : 1 .. Len(f), tok : Words \cup {"nl"}])
<1> DEFINE X == Seq([line : 1 .. Len(f), tok : Words \cup {"nl"}])
           N == Len(f)
           row(n) == [i \in 1 .. Len(f[n].words) + 1 |->
               [line |-> n, tok |-> IF i > Len(f[n].words) THEN "nl" ELSE f[n].words[i]]]
           step == [n \in 1 .. N |-> [x \in X |-> x \o row(n)]]
           Def(g) == g = [n \in 0 .. N |-> IF n = 0 THEN <<>> ELSE g[n - 1] \o row(n)]
           upTo == CHOOSE g : Def(g)
<1>1. \A n \in 1 .. N : row(n) \in X
  <2> TAKE n \in 1 .. N
  <2>1. f[n] \in Lines /\ f[n].words \in Seq(Words)
    <3>1. f[n] \in Lines
      OBVIOUS
    <3> QED  BY <3>1 DEF Lines
  <2> DEFINE m == Len(f[n].words) + 1
             T == [line : 1 .. Len(f), tok : Words \cup {"nl"}]
  <2>2. \A i \in 1 .. m : row(n)[i] \in T
    BY <2>1
  <2>3. row(n) \in [1 .. m -> T] /\ m \in Nat
    BY <2>1, <2>2
  <2> QED  BY <2>3
<1> HIDE DEF row
<1>2. step \in [1 .. N -> [X -> X]]
  <2>1. \A n \in 1 .. N, x \in X : x \o row(n) \in X
    BY <1>1, ConcatProperties
  <2> HIDE DEF X
  <2> QED  BY <2>1
<1>3. N \in Nat /\ <<>> \in X
  BY EmptySeq
<1>4. Tokens(f) = upTo[N]
  BY DEF Tokens, row
<1>5. PICK g \in [0 .. N -> X] : g[0] = <<>> /\ \A n \in 1 .. N : g[n] = step[n][g[n - 1]]
  <2> HIDE DEF step, N, X
  <2> QED  BY <1>2, <1>3, Iterate
<1>6. Def(g)
  <2>1. \A n \in 0 .. N : n = 0 \/ (n \in 1 .. N /\ n - 1 \in 0 .. N)
    BY <1>3
  <2>2. \A n \in 1 .. N, x \in X : step[n][x] = x \o row(n)
    OBVIOUS
  <2> HIDE DEF X, N, step
  <2>3. g = [n \in 0 .. N |-> g[n]]
    OBVIOUS
  <2>4. \A n \in 0 .. N : g[n] = IF n = 0 THEN <<>> ELSE g[n - 1] \o row(n)
    BY <1>5, <2>1, <2>2
  <2> QED  BY <2>3, <2>4, Zenon
<1>7. Def(upTo)
  BY <1>6
<1> HIDE DEF upTo
<1>8. upTo[0] = <<>> /\ \A n \in 1 .. N : upTo[n] = upTo[n - 1] \o row(n)
  <2>1. 0 \in 0 .. N /\ \A n \in 1 .. N : n \in 0 .. N /\ n # 0
    BY <1>3
  <2> HIDE DEF N
  <2> QED  BY <1>7, <2>1, Zenon
<1>9. \A n \in 1 .. N : upTo[n - 1] \in X => upTo[n] \in X
  <2>1. \A x, y \in X : x \o y \in X
    BY ConcatProperties
  <2> HIDE DEF X, N
  <2> QED  BY <1>1, <1>8, <2>1
<1>10. N \in 0 .. N
  BY <1>3
<1> HIDE DEF X, N
<1>11. upTo[N] \in X
  BY <1>3, <1>8, <1>9, <1>10, IterateIn
<1> QED  BY <1>4, <1>11 DEF X

LEMMA FirstIs ==
  ASSUME NEW S, S \subseteq Nat
  PROVE  First(S) = 0 \/ First(S) \in S
BY LeastOf DEF First

\* The scan only goes ahead.
LEMMA ScansAhead ==
  ASSUME NEW s, Len(s) \in Nat, NEW n \in Nat
  PROVE  /\ ServerKeyword(s, n) # 0 => ServerKeyword(s, n) \in n .. Len(s)
         /\ BraceAfter(s, n) # 0 => BraceAfter(s, n) \in n .. Len(s)
         /\ MatchBrace(s, n) # 0 => MatchBrace(s, n) \in n .. Len(s)
<1>1. \A S : S \subseteq n .. Len(s) => First(S) = 0 \/ First(S) \in n .. Len(s)
  <2>1. n .. Len(s) \subseteq Nat
    OBVIOUS
  <2> QED  BY <2>1, FirstIs
<1>2. ServerKeyword(s, n) = 0 \/ ServerKeyword(s, n) \in n .. Len(s)
  BY <1>1 DEF ServerKeyword
<1>3. BraceAfter(s, n) = 0 \/ BraceAfter(s, n) \in n .. Len(s)
  <2> DEFINE p == First({q \in n .. Len(s) : s[q].tok \in {";", "{"} /\ ~Commented(s, n, q)})
  <2>1. p = 0 \/ p \in n .. Len(s)
    BY <1>1
  <2>2. BraceAfter(s, n) = IF p # 0 /\ s[p].tok = "{" THEN p ELSE 0
    BY DEF BraceAfter
  <2> QED  BY <2>1, <2>2
<1>4. MatchBrace(s, n) = 0 \/ MatchBrace(s, n) \in n .. Len(s)
  BY <1>1 DEF MatchBrace
<1> QED  BY <1>2, <1>3, <1>4

\* Every block that is found opens on a line of the file.
LEMMA BlocksAre ==
  ASSUME NEW s, Len(s) \in Nat
  PROVE  ServerBlocks(s) \in Seq({[open |-> s[o].line, names |-> ServerNames(s, o, c)] :
                                     o \in 1 .. Len(s), c \in 1 .. Len(s)})
<1> DEFINE M == Len(s) + 1
           X == {[open |-> s[o].line, names |-> ServerNames(s, o, c)] :
                   o \in 1 .. Len(s), c \in 1 .. Len(s)}
           keyword(n) == ServerKeyword(s, n)
           open(n) == BraceAfter(s, keyword(n) + 1)
           close(n) == MatchBrace(s, open(n))
           found(n) == [open |-> s[open(n)].line, names |-> ServerNames(s, open(n), close(n))]
           E(g, n) == IF keyword(n) = 0 THEN <<>>
                      ELSE IF open(n) = 0 THEN g[keyword(n) + 1]
                      ELSE IF close(n) = 0 THEN <<>>
                      ELSE <<found(n)>> \o g[close(n) + 1]
           Def(g) == g = [n \in 1 .. M |-> E(g, n)]
           blocks == CHOOSE g : Def(g)
<1>1. ServerBlocks(s) = blocks[1]
  BY DEF ServerBlocks
<1>2. ASSUME NEW n \in 1 .. M
      PROVE  /\ keyword(n) # 0 => keyword(n) + 1 \in n + 1 .. M
             /\ keyword(n) # 0 /\ open(n) # 0 => open(n) \in 1 .. Len(s)
             /\ keyword(n) # 0 /\ open(n) # 0 /\ close(n) # 0 =>
                  close(n) \in 1 .. Len(s) /\ close(n) + 1 \in n + 1 .. M
  <2>1. keyword(n) # 0 => keyword(n) \in n .. Len(s)
    BY ScansAhead
  <2>2. keyword(n) # 0 /\ open(n) # 0 => open(n) \in keyword(n) + 1 .. Len(s)
    <3> HIDE DEF keyword
    <3>1. keyword(n) # 0 => keyword(n) + 1 \in Nat
      BY <2>1
    <3> QED  BY <3>1, ScansAhead
  <2> HIDE DEF keyword, open
  <2>3. keyword(n) # 0 /\ open(n) # 0 => open(n) \in Nat
    BY <2>1, <2>2
  <2>4. keyword(n) # 0 /\ open(n) # 0 /\ close(n) # 0 => close(n) \in open(n) .. Len(s)
    BY <2>3, ScansAhead
  <2> HIDE DEF close
  <2> QED  BY <2>1, <2>2, <2>4
<1>3. ASSUME NEW n \in 1 .. M, NEW g, \A i \in n + 1 .. M : g[i] \in Seq(X)
      PROVE  E(g, n) \in Seq(X)
  <2>1. keyword(n) # 0 /\ open(n) # 0 /\ close(n) # 0 => found(n) \in X
    BY <1>2
  <2> HIDE DEF X, found, keyword, open, close
  <2>2. <<>> \in Seq(X)
    BY EmptySeq
  <2>3. keyword(n) # 0 /\ open(n) # 0 /\ close(n) # 0 =>
          <<found(n)>> \in Seq(X) /\ g[close(n) + 1] \in Seq(X)
    BY <1>2, <1>3, <2>1, Tuples
  <2>4. keyword(n) # 0 /\ open(n) # 0 /\ close(n) # 0 =>
          <<found(n)>> \o g[close(n) + 1] \in Seq(X)
    BY <2>3, ConcatProperties
  <2>5. keyword(n) # 0 => g[keyword(n) + 1] \in Seq(X)
    BY <1>2, <1>3
  <2> QED  BY <2>2, <2>4, <2>5
<1>4. ASSUME NEW n \in 1 .. M, NEW g, NEW h, \A i \in n + 1 .. M : g[i] = h[i]
      PROVE  E(g, n) = E(h, n)
  <2> HIDE DEF keyword, open, close, found
  <2>1. keyword(n) # 0 => g[keyword(n) + 1] = h[keyword(n) + 1]
    BY <1>2, <1>4
  <2>2. keyword(n) # 0 /\ open(n) # 0 /\ close(n) # 0 => g[close(n) + 1] = h[close(n) + 1]
    BY <1>2, <1>4
  <2> QED  BY <2>1, <2>2
<1> HIDE DEF E, X, blocks
\* There is such a function: from the end of the text backwards.
<1> DEFINE Back(k) == \E g : g = [n \in M - k .. M |-> E(g, n)]
<1>5. Back(Len(s))
  <2> DEFINE W == {k \in 0 .. Len(s) : ~Back(k)}
  <2>1. SUFFICES ASSUME W # {} PROVE FALSE
    OBVIOUS
  <2>2. PICK k \in W : \A j \in W : k <= j
    <3>1. W \in SUBSET Nat
      OBVIOUS
    <3> HIDE DEF W
    <3> QED  BY <2>1, <3>1, Least
  <2>3. k \in 0 .. Len(s) /\ ~Back(k)
    BY <2>2
  <2>4. PICK g : k # 0 => g = [n \in M - (k - 1) .. M |-> E(g, n)]
    <3>1. ASSUME k # 0 PROVE Back(k - 1)
      <4> DEFINE j == k - 1
      <4>1. j \in 0 .. Len(s) /\ ~(k <= j)
        BY <2>3, <3>1
      <4> HIDE DEF j, Back
      <4>2. j \notin W
        <5> HIDE DEF W
        <5> QED  BY <2>2, <4>1
      <4>3. Back(j)
        BY <4>1, <4>2
      <4> QED  BY <4>3 DEF j
    <3> QED  BY <3>1
  <2> DEFINE h == [n \in M - k .. M |-> IF n = M - k THEN E(g, n) ELSE g[n]]
  <2>5. ASSUME NEW n \in M - k .. M PROVE h[n] = E(h, n)
    <3>1. n \in 1 .. M
      BY <2>3
    <3>2. \A i \in n + 1 .. M : h[i] = g[i]
      BY <2>3
    <3>3. E(h, n) = E(g, n)
      <4> HIDE DEF h
      <4> QED  BY <1>4, <3>1, <3>2
    <3>4. CASE n = M - k
      BY <3>3, <3>4
    <3>5. CASE n # M - k
      <4>1. k # 0 /\ n \in M - (k - 1) .. M
        BY <2>3, <3>5
      <4>2. g[n] = E(g, n)
        BY <2>4, <4>1, Zenon
      <4>3. h[n] = g[n]
        BY <3>5
      <4> QED  BY <3>3, <4>2, <4>3
    <3> QED  BY <3>4, <3>5
  <2>6. h = [n \in M - k .. M |-> h[n]]
    OBVIOUS
  <2> HIDE DEF h
  <2>7. h = [n \in M - k .. M |-> E(h, n)]
    BY <2>5, <2>6, Zenon
  <2> QED  BY <2>3, <2>7
<1>6. Def(blocks)
  <2>1. M - Len(s) = 1
    OBVIOUS
  <2>2. \E g : Def(g)
    <3>1. PICK g : g = [n \in M - Len(s) .. M |-> E(g, n)]
      BY <1>5
    <3> HIDE DEF M
    <3>2. g = [n \in 1 .. M |-> E(g, n)]
      BY <2>1, <3>1
    <3> QED  BY <3>2
  <2> QED  BY <2>2 DEF blocks
<1>7. \A k \in 0 .. Len(s) : blocks[M - k] \in Seq(X)
  <2> DEFINE W == {k \in 0 .. Len(s) : blocks[M - k] \notin Seq(X)}
  <2>1. SUFFICES ASSUME W # {} PROVE FALSE
    OBVIOUS
  <2>2. PICK k \in W : \A j \in W : k <= j
    <3>1. W \in SUBSET Nat
      OBVIOUS
    <3> HIDE DEF W
    <3> QED  BY <2>1, <3>1, Least
  <2>3. k \in 0 .. Len(s) /\ blocks[M - k] \notin Seq(X)
    BY <2>2
  <2>4. M - k \in 1 .. M
    BY <2>3
  <2>5. \A i \in (M - k) + 1 .. M : blocks[i] \in Seq(X)
    <3> TAKE i \in (M - k) + 1 .. M
    <3>1. M - i \in 0 .. Len(s) /\ ~(k <= M - i) /\ M - (M - i) = i
      BY <2>3
    <3>2. M - i \notin W
      BY <2>2, <3>1
    <3> QED  BY <3>1, <3>2
  <2>6. E(blocks, M - k) \in Seq(X)
    BY <1>3, <2>4, <2>5
  <2>7. blocks[M - k] = E(blocks, M - k)
    BY <1>6, <2>4, Zenon
  <2> QED  BY <2>3, <2>6, <2>7
<1>8. M - Len(s) = 1 /\ Len(s) \in 0 .. Len(s)
  OBVIOUS
<1> HIDE DEF M
<1>9. blocks[1] \in Seq(X)
  BY <1>7, <1>8
<1> QED  BY <1>1, <1>9 DEF X

LEMMA NginxEdits ==
  ASSUME NEW f \in Seq(Lines), Nested(f), NEW k \in Keys, NEW selector
  PROVE  Put(f, NginxInject(f, k, selector), k)
<1> DEFINE src == Strip(f, k)
           s == Tokens(src)
           blocks == ServerBlocks(s)
           fits == {i \in DOMAIN blocks : selector = "" \/ selector \in blocks[i].names}
           chosen == First(fits)
           lines == <<Line(FALSE, <<"include", k, ";">>)>>
           n == blocks[chosen].open
           g == InsertAfter(src, n, Marked(k, lines, TRUE))
<1>1. NginxInject(f, k, selector) = IF chosen = 0 THEN NoBlockFound ELSE g
  BY DEF NginxInject
<1>2. src \in Seq(Lines)
  BY StripEdits DEF Edited
<1>3. Payload(lines)
  <2> DEFINE include == Line(FALSE, <<"include", k, ";">>)
  <2>1. Ours(include)
    BY WordAssumption, KeysAreWords, OursAre DEF WordAssumption
  <2> HIDE DEF include
  <2> QED  BY <2>1, Payloads DEF include
<1>4. ASSUME chosen # 0 PROVE n \in 0 .. Len(src)
  <2> HIDE DEF src
  <2>1. s \in Seq([line : 1 .. Len(src), tok : Words \cup {"nl"}])
    BY <1>2, TokensAre
  <2> HIDE DEF s
  <2>2. /\ Len(s) \in Nat
        /\ \A o \in 1 .. Len(s) : s[o].line \in 1 .. Len(src)
    <3>1. Len(s) \in Nat
      BY <2>1
    <3>2. ASSUME NEW o \in 1 .. Len(s) PROVE s[o].line \in 1 .. Len(src)
      <4> DEFINE R == [line : 1 .. Len(src), tok : Words \cup {"nl"}]
      <4>1. s \in Seq(R)
        BY <2>1
      <4>2. s[o] \in R
        <5> HIDE DEF R
        <5> QED  BY <4>1
      <4> QED  BY <4>2
    <3> QED  BY <3>1, <3>2
  <2>3. blocks \in Seq({[open |-> s[o].line, names |-> ServerNames(s, o, c)] :
                           o \in 1 .. Len(s), c \in 1 .. Len(s)})
    BY <2>2, BlocksAre
  <2> HIDE DEF blocks
  <2>4. fits \subseteq DOMAIN blocks /\ DOMAIN blocks \subseteq Nat
    <3>1. DOMAIN blocks = 1 .. Len(blocks) /\ Len(blocks) \in Nat
      BY <2>3
    <3>2. DOMAIN blocks \subseteq Nat
      BY <3>1
    <3> QED  BY <3>2
  <2>5. chosen \in DOMAIN blocks
    <3> HIDE DEF fits
    <3> QED  BY <1>4, <2>4, FirstIs
  <2> HIDE DEF chosen
  <2>6. PICK o \in 1 .. Len(s), c \in 1 .. Len(s) :
          blocks[chosen] = [open |-> s[o].line, names |-> ServerNames(s, o, c)]
    BY <2>3, <2>5
  <2>7. n = s[o].line
    BY <2>6
  <2>8. n \in 1 .. Len(src)
    BY <2>2, <2>7
  <2>9. Len(src) \in Nat
    BY <1>2
  <2> HIDE DEF n
  <2> QED  BY <2>8, <2>9
<1> HIDE DEF lines, n, chosen
<1>5. ASSUME chosen # 0 PROVE Edited(f, g, {k}) /\ Strip(g, k) = Strip(f, k)
  BY <1>3, <1>4, <1>5, PutEdits
<1> QED  BY <1>1, <1>5 DEF Put

-----------------------------------------------------------------------------
(* The same edit again                                                     *)

LEMMA LinesFrom ==
  ASSUME NEW L, NEW f \in Seq(L), NEW S, NEW i \in DOMAIN LinesAt(f, S)
  PROVE  LinesAt(f, S)[i] \in Range(f)
<1> DEFINE R == Range(f)
<1>1. f \in Seq(R)
  BY DEF Range
<1> HIDE DEF R
<1>2. LinesAt(f, S) \in Seq(R)
  BY <1>1, LinesType
<1> QED  BY <1>2 DEF R

LEMMA StripLines ==
  ASSUME NEW f \in Seq(Lines), NEW k, NEW i \in DOMAIN Strip(f, k)
  PROVE  Strip(f, k)[i] \in Range(f)
<1> QED  BY LinesFrom DEF Strip

\* Which header is chosen depends on the file without the block only.
LEMMA HeaderAgain ==
  ASSUME NEW f \in Seq(Lines), Nested(f), NEW k \in Keys, NEW lines, Payload(lines),
         NEW headers, NEW g, g = InjectAfterHeader(f, k, lines, headers), g # NoBlockFound,
         NEW again,
         \A i \in DOMAIN Strip(f, k) : Strip(f, k)[i] \in headers <=> Strip(f, k)[i] \in again
  PROVE  InjectAfterHeader(g, k, lines, again) = g
<1> DEFINE src == Strip(f, k)
           at == {i \in DOMAIN src : src[i] \in headers}
           later == {i \in DOMAIN src : src[i] \in again}
<1>1. Strip(g, k) = src
  BY HeaderEdits DEF Put
<1>2. later = at
  OBVIOUS
<1>3. g = IF at = {} THEN NoBlockFound ELSE InsertAfter(src, Min(at), Marked(k, lines, TRUE))
  BY DEF InjectAfterHeader
<1>4. InjectAfterHeader(g, k, lines, again)
        = IF later = {} THEN NoBlockFound ELSE InsertAfter(src, Min(later), Marked(k, lines, TRUE))
  BY <1>1 DEF InjectAfterHeader
<1> HIDE DEF at, later
<1> QED  BY <1>2, <1>3, <1>4

LEMMA HaproxyAgain ==
  ASSUME NEW f \in Seq(Lines), Nested(f), NEW k \in Keys, NEW selector,
         NEW mode \in Words, NEW realIp \in BOOLEAN,
         NEW g, g = HaproxyInject(f, k, selector, mode, realIp), g # NoBlockFound
  PROVE  HaproxyInject(g, k, selector, mode, realIp) = g
<1> DEFINE lines == HaproxyPayload(k, mode, realIp)
           headers == {line \in Range(f) : HaproxyFrontend(selector, line)}
           again == {line \in Range(g) : HaproxyFrontend(selector, line)}
<1>1. Payload(lines)
  BY HaproxyPayloads
<1>2. g \in Seq(Lines) /\ Strip(g, k) = Strip(f, k)
  BY HaproxyEdits DEF Put, Edited
<1>3. \A i \in DOMAIN Strip(f, k) : Strip(f, k)[i] \in Range(f) /\ Strip(f, k)[i] \in Range(g)
  <2> TAKE i \in DOMAIN Strip(f, k)
  <2>1. Strip(f, k)[i] \in Range(f)
    BY StripLines
  <2>2. Strip(g, k)[i] \in Range(g)
    BY <1>2, StripLines
  <2> QED  BY <1>2, <2>1, <2>2
<1>4. \A i \in DOMAIN Strip(f, k) : Strip(f, k)[i] \in headers <=> Strip(f, k)[i] \in again
  BY <1>3
<1>5. g = InjectAfterHeader(f, k, lines, headers)
  BY DEF HaproxyInject
<1>6. HaproxyInject(g, k, selector, mode, realIp) = InjectAfterHeader(g, k, lines, again)
  BY DEF HaproxyInject
<1> HIDE DEF lines, headers, again
<1> QED  BY <1>1, <1>4, <1>5, <1>6, HeaderAgain

LEMMA CaddyAgain ==
  ASSUME NEW f \in Seq(Lines), Nested(f), NEW k \in Keys, NEW j, NEW selector, NEW ranges,
         NEW realIp, ~realIp,
         NEW g, g = CaddyInject(f, k, j, selector, realIp, ranges), g # NoBlockFound
  PROVE  CaddyInject(g, k, j, selector, realIp, ranges) = g
<1> DEFINE lines == <<Line(FALSE, <<"import", k>>)>>
           headers == {line \in Range(f) : CaddySite(selector, line)}
           again == {line \in Range(g) : CaddySite(selector, line)}
<1>1. Payload(lines)
  BY CaddyPayloads
<1>2. g = InjectAfterHeader(f, k, lines, headers)
  BY DEF CaddyInject
<1>3. CaddyInject(g, k, j, selector, realIp, ranges) = InjectAfterHeader(g, k, lines, again)
  BY DEF CaddyInject
<1>4. g \in Seq(Lines) /\ Strip(g, k) = Strip(f, k)
  <2> HIDE DEF lines, headers
  <2> QED  BY <1>1, <1>2, HeaderEdits DEF Put, Edited
<1>5. \A i \in DOMAIN Strip(f, k) : Strip(f, k)[i] \in Range(f) /\ Strip(f, k)[i] \in Range(g)
  <2> TAKE i \in DOMAIN Strip(f, k)
  <2>1. Strip(f, k)[i] \in Range(f)
    BY StripLines
  <2>2. Strip(g, k)[i] \in Range(g)
    BY <1>4, StripLines
  <2> QED  BY <1>4, <2>1, <2>2
<1>6. \A i \in DOMAIN Strip(f, k) : Strip(f, k)[i] \in headers <=> Strip(f, k)[i] \in again
  BY <1>5
<1> HIDE DEF lines, headers, again
<1> QED  BY <1>1, <1>2, <1>3, <1>6, HeaderAgain

LEMMA NginxAgain ==
  ASSUME NEW f \in Seq(Lines), Nested(f), NEW k \in Keys, NEW selector,
         NEW g, g = NginxInject(f, k, selector), g # NoBlockFound
  PROVE  NginxInject(g, k, selector) = g
<1>1. Strip(g, k) = Strip(f, k)
  BY NginxEdits DEF Put
<1>2. NginxInject(g, k, selector) = NginxInject(f, k, selector)
  BY <1>1 DEF NginxInject
<1> QED  BY <1>2

\* Where a file ends that has blank lines behind its line n.
LEMMA TrimIs ==
  ASSUME NEW f \in Seq(Lines), NEW n \in 0 .. Len(f),
         \A i \in n + 1 .. Len(f) : f[i] = Blank, n # 0 => f[n] # Blank
  PROVE  Trimmed(f) = SubSeq(f, 1, n)
<1> DEFINE said == {i \in DOMAIN f : f[i] # Blank}
<1>1. said \subseteq 1 .. n
  OBVIOUS
<1>2. CASE n = 0
  <2>1. said = {} /\ SubSeq(f, 1, n) = <<>>
    BY <1>1, <1>2
  <2> QED  BY <2>1 DEF Trimmed
<1>3. CASE n # 0
  <2>1. n \in said
    BY <1>3
  <2> DEFINE m == Max(said)
  <2>2. n \in Nat
    OBVIOUS
  <2>3. m \in said /\ \A i \in said : i <= m
    <3> HIDE DEF said
    <3> QED  BY <1>1, <2>1, <2>2, GreatestOf
  <2>4. m = n
    <3> HIDE DEF said, m
    <3> QED  BY <1>1, <2>1, <2>2, <2>3
  <2> QED  BY <2>1, <2>4 DEF Trimmed
<1> QED  BY <1>2, <1>3

LEMMA TrimEnds ==
  ASSUME NEW f \in Seq(Lines)
  PROVE  \E n \in 0 .. Len(f) : Trimmed(f) = SubSeq(f, 1, n) /\ (n # 0 => f[n] # Blank)
<1> DEFINE said == {i \in DOMAIN f : f[i] # Blank}
<1>1. CASE said = {}
  <2>1. Trimmed(f) = <<>> /\ SubSeq(f, 1, 0) = <<>>
    BY <1>1 DEF Trimmed
  <2> QED  BY <2>1
<1>2. CASE said # {}
  <2>1. said \subseteq 1 .. Len(f) /\ Len(f) \in Nat
    OBVIOUS
  <2>2. Max(said) \in said
    <3> HIDE DEF said
    <3> QED  BY <1>2, <2>1, GreatestOf
  <2>3. Trimmed(f) = SubSeq(f, 1, Max(said))
    BY <1>2 DEF Trimmed
  <2> DEFINE n == Max(said)
  <2>4. n \in 0 .. Len(f) /\ f[n] # Blank
    BY <2>1, <2>2
  <2> HIDE DEF n
  <2> QED  BY <2>3, <2>4 DEF n
<1> QED  BY <1>1, <1>2

LEMMA OneMore ==
  ASSUME NEW L, NEW f \in Seq(L), NEW one \in Seq(L), Len(one) = 1
  PROVE  /\ f \o one \in Seq(L) /\ Len(f \o one) = Len(f) + 1
         /\ (f \o one)[Len(f) + 1] = one[1]
         /\ \A i \in 1 .. Len(f) : (f \o one)[i] = f[i]
BY ConcatProperties

\* The blank lines around an appended block do not grow in number.
LEMMA AppendAgain ==
  ASSUME NEW f \in Seq(Lines), Nested(f), NEW k \in Keys, NEW g, g = AppendInclude(f, k)
  PROVE  AppendInclude(g, k) = g
<1> DEFINE src == Strip(f, k)
           blank == <<Blank>>
           block == Marked(k, Include(k), FALSE)
           p == Trimmed(src)
           q == p \o blank
           z == q \o blank
<1>1. src \in Seq(Lines) /\ Nested(src) /\ Free(src, k)
  BY StripEdits DEF Edited
<1>2. Blank \in Lines
  BY EmptySeq DEF Blank, Line, Lines
<1>3. blank \in Seq(Lines) /\ Len(blank) = 1 /\ blank[1] = Blank
  BY <1>2
<1>4. /\ block \in Seq(Lines) /\ IsBlock(block, k, 1, Len(block))
      /\ \A l \in Keys \ {k} : Free(block, l)
  BY ApachePayloads, MarkedIs
<1>5. g = (q \o block) \o blank
  BY DEF AppendInclude
<1>6. AppendInclude(g, k) = ((Trimmed(Strip(g, k)) \o blank) \o block) \o blank
  BY DEF AppendInclude
<1>7. \E n \in Nat : n <= Len(src) /\ p = SubSeq(src, 1, n) /\ (n # 0 => src[n] # Blank)
  <2>1. \E n \in 0 .. Len(src) : p = SubSeq(src, 1, n) /\ (n # 0 => src[n] # Blank)
    BY <1>1, TrimEnds
  <2> QED  BY <2>1
<1> HIDE DEF src, blank, block
<1>8. p \in Seq(Lines) /\ Nested(p) /\ Free(p, k)
  BY <1>1, TrimEdits DEF Edited
<1>9. Len(p) # 0 => p[Len(p)] # Blank
  BY <1>1, <1>7
<1> HIDE DEF p
<1>10. q \in Seq(Lines) /\ Nested(q) /\ Free(q, k)
  <2>1. q = InsertAfter(p, Len(p), blank) /\ Len(p) \in 0 .. Len(p)
    BY <1>3, <1>8, PutAtEnds
  <2> HIDE DEF q
  <2> QED  BY <1>3, <1>8, <2>1, BlankEdits DEF Edited
<1>11. Len(q) = Len(p) + 1 /\ q[Len(p) + 1] = Blank /\ \A i \in 1 .. Len(p) : q[i] = p[i]
  BY <1>3, <1>8, OneMore
<1> HIDE DEF q
<1>12. z \in Seq(Lines) /\ Nested(z) /\ Free(z, k)
  <2>1. z = InsertAfter(q, Len(q), blank) /\ Len(q) \in 0 .. Len(q)
    BY <1>3, <1>10, PutAtEnds
  <2> HIDE DEF z
  <2> QED  BY <1>3, <1>10, <2>1, BlankEdits DEF Edited
<1>13. Len(z) = Len(p) + 2 /\ z[Len(p) + 2] = Blank /\ \A i \in 1 .. Len(p) + 1 : z[i] = q[i]
  <2>1. /\ Len(z) = Len(q) + 1 /\ z[Len(q) + 1] = Blank
        /\ \A i \in 1 .. Len(q) : z[i] = q[i]
    BY <1>3, <1>10, OneMore
  <2>2. Len(p) + 1 + 1 = Len(p) + 2
    BY <1>8
  <2> HIDE DEF z
  <2> QED  BY <1>11, <2>1, <2>2
<1>14. g = InsertAfter(z, Len(q), block)
  <2>1. SubSeq(z, 1, Len(q)) = q
    BY <1>9, <1>10, <1>11, <1>12, <1>13
  <2>2. SubSeq(z, Len(q) + 1, Len(z)) = blank
    <3> DEFINE y == SubSeq(z, Len(q) + 1, Len(z))
    <3>1. y \in Seq(Lines) /\ Len(y) = 1 /\ y[1] = z[Len(p) + 2]
      BY <1>9, <1>11, <1>12, <1>13
    <3> HIDE DEF y
    <3>2. y = blank
      BY <1>3, <1>13, <3>1
    <3> QED  BY <3>2 DEF y
  <2> QED  BY <1>5, <2>1, <2>2 DEF InsertAfter
<1> HIDE DEF z
<1>15. Strip(g, k) = z
  <2>1. Len(q) \in 0 .. Len(z)
    BY <1>9, <1>11, <1>13
  <2>2. /\ Edited(z, g, {k})
        /\ IsBlock(g, k, Len(q) + 1, Len(q) + Len(block))
        /\ Cut(g, Len(q) + 1, Len(q) + Len(block)) = z
    <3> DEFINE h == InsertAfter(z, Len(q), block)
    <3>1. /\ Edited(z, h, {k})
          /\ IsBlock(h, k, Len(q) + 1, Len(q) + Len(block))
          /\ Cut(h, Len(q) + 1, Len(q) + Len(block)) = z
      BY <1>4, <1>12, <2>1, BlockEdits
    <3>2. g = h
      BY <1>14
    <3> HIDE DEF h
    <3> QED  BY <3>1, <3>2
  <2>3. g \in Seq(Lines)
    BY <2>2 DEF Edited
  <2> QED  BY <2>2, <2>3, StripBlock
<1>16. Trimmed(z) = p
  <2>1. /\ Len(p) \in 0 .. Len(z) /\ \A i \in Len(p) + 1 .. Len(z) : z[i] = Blank
        /\ Len(p) # 0 => z[Len(p)] # Blank
    BY <1>9, <1>11, <1>13
  <2>2. Trimmed(z) = SubSeq(z, 1, Len(p))
    BY <1>12, <2>1, TrimIs
  <2>3. SubSeq(z, 1, Len(p)) = p
    BY <1>8, <1>9, <1>11, <1>12, <1>13
  <2> QED  BY <2>2, <2>3
<1> QED  BY <1>5, <1>6, <1>15, <1>16 DEF q

LEMMA ApacheAgain ==
  ASSUME NEW f \in Seq(Lines), Nested(f), NEW k \in Keys, NEW selector,
         NEW g, g = ApacheInject(f, k, selector), g # NoBlockFound
  PROVE  ApacheInject(g, k, selector) = g
<1>1. CASE selector = ""
  BY <1>1, AppendAgain DEF ApacheInject
<1>2. CASE selector # ""
  <2>1. Strip(g, k) = Strip(f, k)
    BY <1>2, ApacheEdits DEF Put
  <2> QED  BY <1>2, <2>1 DEF ApacheInject, InjectVhost
<1> QED  BY <1>1, <1>2

-----------------------------------------------------------------------------
(* The applies and removals of all targets                                 *)

\* As long as no operator has broken a block: the blocks in the file are
\* whole and do not cross, what is outside of them is the operator's, and a
\* target has blocks only if it is installed, in the global options only with
\* caddy.
FileInv ==
  /\ own \in Layouts
  /\ settings \in [Targets -> Settings[own.engine]]
  /\ installed \in [Targets -> Versions[own.engine] \cup {None}]
  /\ ~damaged =>
       /\ file \in Seq(Lines) /\ Nested(file) /\ Theirs(file) = Text(own.lines)
       /\ \A t \in Targets : installed[t] = None => Free(file, t) /\ Free(file, GlobalKey[t])
       /\ own.engine # "caddy" => \A t \in Targets : Free(file, GlobalKey[t])

\* Without any marker, all lines that say something are the operator's.
LEMMA FreeIsTheirs ==
  ASSUME NEW f \in Seq(Lines), \A k \in Keys : Free(f, k)
  PROVE  Nested(f) /\ Theirs(f) = Text(f)
<1>1. Nested(f)
  BY DEF Nested, Free, IsBlock, IsMark
<1>2. OwnAt(f) = {i \in DOMAIN f : f[i] # Blank}
  <2>1. ASSUME NEW i \in DOMAIN f, NEW k \in Keys, NEW b \in 1 .. i, NEW e \in i .. Len(f)
        PROVE  f[b].words # BeginMark(k)
    <3>1. b \in DOMAIN f
      BY <2>1
    <3> QED  BY <3>1 DEF Free, IsMark
  <2> QED  BY <2>1 DEF OwnAt
<1> QED  BY <1>1, <1>2 DEF Theirs, Text

LEMMA FileInit == Init => FileInv
<1> SUFFICES ASSUME Init PROVE FileInv
  OBVIOUS
<1>1. own \in Layouts /\ file = own.lines /\ settings \in [Targets -> Settings[own.engine]]
      /\ installed = [t \in Targets |-> None]
  BY DEF Init
<1>2. file \in Seq(Lines) /\ \A k \in Keys : Free(file, k)
  BY <1>1, LayoutAssumption DEF LayoutAssumption, Free, IsMark
<1>3. Nested(file) /\ Theirs(file) = Text(own.lines)
  BY <1>1, <1>2, FreeIsTheirs
<1>4. \A t \in Targets : t \in Keys /\ GlobalKey[t] \in Keys
  BY DEF Keys
<1> QED  BY <1>1, <1>2, <1>3, <1>4 DEF FileInv

\* The edits of every engine keep the operator's lines, and touch no block but
\* the target's own.
LEMMA InjectEdits ==
  ASSUME FileInv, ~damaged, NEW t \in Targets, NEW v \in Versions[own.engine]
  PROVE  IF own.engine = "caddy" THEN Tried(file, Inject(file, t, v), {t, GlobalKey[t]})
         ELSE Tried(file, Inject(file, t, v), {t})
<1>1. /\ file \in Seq(Lines) /\ Nested(file) /\ t \in Keys /\ GlobalKey[t] \in Keys
      /\ v \in Words /\ settings[t] \in Settings[own.engine]
  BY LayoutAssumption DEF FileInv, LayoutAssumption, Keys
<1>2. settings[t].realIp \in BOOLEAN
  BY <1>1, LayoutAssumption DEF LayoutAssumption, FileInv
<1>3. own.engine \in {"nginx", "caddy", "apache", "haproxy"}
  BY LayoutAssumption DEF LayoutAssumption, FileInv
<1>4. CASE own.engine = "nginx"
  <2>1. Inject(file, t, v) = NginxInject(file, t, settings[t].selector)
    BY <1>4 DEF Inject
  <2> QED  BY <1>1, <1>4, <2>1, NginxEdits DEF Put, Tried
<1>5. CASE own.engine = "caddy"
  <2>1. Inject(file, t, v) = CaddyInject(file, t, GlobalKey[t], settings[t].selector,
                                         settings[t].realIp, v)
    BY <1>5 DEF Inject
  <2>2. Tried(file, CaddyInject(file, t, GlobalKey[t], settings[t].selector,
                                settings[t].realIp, v), {t, GlobalKey[t]})
    BY <1>1, <1>2, CaddyEdits
  <2> QED  BY <1>5, <2>1, <2>2
<1>6. CASE own.engine = "apache"
  <2>1. Inject(file, t, v) = ApacheInject(file, t, settings[t].selector)
    BY <1>6 DEF Inject
  <2> QED  BY <1>1, <1>6, <2>1, ApacheEdits
<1>7. CASE own.engine = "haproxy"
  <2>1. Inject(file, t, v) = HaproxyInject(file, t, settings[t].selector, v, settings[t].realIp)
    BY <1>7 DEF Inject
  <2>2. Tried(file, HaproxyInject(file, t, settings[t].selector, v, settings[t].realIp), {t})
    BY <1>1, <1>2, HaproxyEdits DEF Put, Tried
  <2> QED  BY <1>7, <2>1, <2>2
<1> QED  BY <1>3, <1>4, <1>5, <1>6, <1>7

LEMMA WithoutEdits ==
  ASSUME FileInv, ~damaged, NEW t \in Targets
  PROVE  /\ Edited(file, Without(file, t), {t, GlobalKey[t]})
         /\ Free(Without(file, t), t) /\ Free(Without(file, t), GlobalKey[t])
         /\ own.engine # "caddy" => Edited(file, Without(file, t), {t})
<1> DEFINE g == Strip(file, t)
           j == GlobalKey[t]
<1>1. /\ file \in Seq(Lines) /\ Nested(file) /\ t \in Keys /\ j \in Keys /\ j # t
      /\ own.engine # "caddy" => Free(file, j)
  BY KeyAssumption DEF FileInv, Keys, KeyAssumption
<1>2. Edited(file, g, {t}) /\ Free(g, t) /\ g \in Seq(Lines) /\ Nested(g)
  BY <1>1, StripEdits DEF Edited
<1>3. Edited(file, g, {t, j})
  BY <1>2 DEF Edited
<1> HIDE DEF g, j
<1>4. CASE own.engine = "caddy"
  <2>1. Without(file, t) = Strip(g, j)
    BY <1>4 DEF Without, g, j
  <2>2. Edited(g, Strip(g, j), {j}) /\ Free(Strip(g, j), j)
    BY <1>1, <1>2, StripEdits
  <2>3. Free(Strip(g, j), t)
    BY <1>1, <1>2, <2>2 DEF Edited
  <2>4. Edited(file, Strip(g, j), {t} \cup {j})
    BY <1>2, <2>2, EditsCompose
  <2>5. {t} \cup {j} = {t, j}
    OBVIOUS
  <2> QED  BY <1>4, <2>1, <2>2, <2>3, <2>4, <2>5 DEF j
<1>5. CASE own.engine # "caddy"
  <2>1. Without(file, t) = g
    BY <1>5 DEF Without, g
  <2>2. Free(g, j)
    BY <1>1, <1>2, <1>5 DEF Edited
  <2> QED  BY <1>2, <1>3, <2>1, <2>2 DEF j
<1> QED  BY <1>4, <1>5

\* What an edit of the target t keeps of the invariant.
LEMMA EditKeeps ==
  ASSUME FileInv, ~damaged, NEW t \in Targets, NEW g,
         own.engine # "caddy" => Edited(file, g, {t}),
         Edited(file, g, {t, GlobalKey[t]})
  PROVE  /\ g \in Seq(Lines) /\ Nested(g) /\ Theirs(g) = Text(own.lines)
         /\ \A u \in Targets \ {t} :
              installed[u] = None => Free(g, u) /\ Free(g, GlobalKey[u])
         /\ own.engine # "caddy" => \A u \in Targets : Free(g, GlobalKey[u])
<1>1. g \in Seq(Lines) /\ Nested(g) /\ Theirs(g) = Text(own.lines)
  BY DEF FileInv, Edited
<1>2. \A u \in Targets : /\ u \in Keys /\ GlobalKey[u] \in Keys
                         /\ GlobalKey[u] # t
                         /\ u # t => u # GlobalKey[t] /\ GlobalKey[u] # GlobalKey[t]
  BY KeyAssumption DEF Keys, KeyAssumption
<1>3. \A u \in Targets \ {t} : installed[u] = None => Free(g, u) /\ Free(g, GlobalKey[u])
  BY <1>2 DEF FileInv, Edited
<1>4. own.engine # "caddy" => \A u \in Targets : Free(g, GlobalKey[u])
  BY <1>2 DEF FileInv, Edited
<1> QED  BY <1>1, <1>3, <1>4

LEMMA FileInstall ==
  ASSUME FileInv, NEW t \in Targets, NEW v \in Versions[own.engine], Install(t, v)
  PROVE  FileInv'
<1> DEFINE new == Inject(file, t, v)
<1>1. /\ own' = own /\ settings' = settings /\ damaged' = damaged
      /\ \/ file' = file /\ installed' = installed
         \/ new # NoBlockFound /\ file' = new /\ installed' = [installed EXCEPT ![t] = v]
  BY Zenon DEF Install
<1>2. CASE file' = file /\ installed' = installed
  <2>1. ~damaged' => ~damaged
    BY <1>1, Zenon
  <2>2. /\ Nested(file)' <=> Nested(file)
        /\ Theirs(file)' = Theirs(file)
        /\ Text(own.lines)' = Text(own.lines)
        /\ \A k : Free(file, k)' <=> Free(file, k)
    BY <1>1, <1>2 DEF Nested, Theirs, OwnAt, Text, Free, IsBlock, IsMark
  <2> QED  BY <1>1, <1>2, <2>1, <2>2 DEF FileInv
<1>3. CASE new # NoBlockFound /\ file' = new /\ installed' = [installed EXCEPT ![t] = v]
  <2>1. /\ own' \in Layouts /\ settings' \in [Targets -> Settings[own'.engine]]
        /\ installed' \in [Targets -> Versions[own'.engine] \cup {None}]
    BY <1>1, <1>3 DEF FileInv
  <2>2. ASSUME ~damaged
        PROVE  /\ new \in Seq(Lines) /\ Nested(new) /\ Theirs(new) = Text(own.lines)
               /\ \A u \in Targets \ {t} :
                    installed[u] = None => Free(new, u) /\ Free(new, GlobalKey[u])
               /\ own.engine # "caddy" => \A u \in Targets : Free(new, GlobalKey[u])
    <3>1. /\ own.engine # "caddy" => Edited(file, new, {t})
          /\ own.engine = "caddy" => Edited(file, new, {t, GlobalKey[t]})
      BY <1>3, <2>2, InjectEdits DEF Tried
    <3>2. Edited(file, new, {t, GlobalKey[t]})
      BY <3>1 DEF Edited
    <3> HIDE DEF new
    <3> QED  BY <2>2, <3>1, <3>2, EditKeeps
  <2>3. installed'[t] # None
    BY <1>3, LayoutAssumption DEF FileInv, LayoutAssumption
  <2>4. \A u \in Targets \ {t} : installed'[u] = installed[u]
    BY <1>3 DEF FileInv
  <2> HIDE DEF new
  <2>5. ASSUME ~damaged'
        PROVE  /\ file' \in Seq(Lines) /\ Nested(file)' /\ Theirs(file)' = Text(own.lines)'
               /\ \A u \in Targets : installed'[u] = None => Free(file, u)' /\ Free(file, GlobalKey[u])'
               /\ own'.engine # "caddy" => \A u \in Targets : Free(file, GlobalKey[u])'
    <3>1. ~damaged
      BY <1>1, <2>5, Zenon
    <3>2. /\ Nested(file)' <=> Nested(new)
          /\ Theirs(file)' = Theirs(new)
          /\ Text(own.lines)' = Text(own.lines)
          /\ \A k : Free(file, k)' <=> Free(new, k)
      BY <1>1, <1>3 DEF Nested, Theirs, OwnAt, Text, Free, IsBlock, IsMark
    <3> QED  BY <1>1, <1>3, <2>2, <2>3, <2>4, <3>1, <3>2
  <2> QED  BY <2>1, <2>5 DEF FileInv
<1> QED  BY <1>1, <1>2, <1>3

LEMMA FileUninstall ==
  ASSUME FileInv, NEW t \in Targets, Uninstall(t)
  PROVE  FileInv'
<1> DEFINE new == Without(file, t)
<1>1. /\ own' = own /\ settings' = settings /\ damaged' = damaged
      /\ file' = new /\ installed' = [installed EXCEPT ![t] = None]
  BY Zenon DEF Uninstall
<1>2. /\ own' \in Layouts /\ settings' \in [Targets -> Settings[own'.engine]]
      /\ installed' \in [Targets -> Versions[own'.engine] \cup {None}]
  BY <1>1 DEF FileInv
<1>3. ASSUME ~damaged
      PROVE  /\ new \in Seq(Lines) /\ Nested(new) /\ Theirs(new) = Text(own.lines)
             /\ \A u \in Targets \ {t} :
                  installed[u] = None => Free(new, u) /\ Free(new, GlobalKey[u])
             /\ own.engine # "caddy" => \A u \in Targets : Free(new, GlobalKey[u])
             /\ Free(new, t) /\ Free(new, GlobalKey[t])
  <2>1. /\ Edited(file, new, {t, GlobalKey[t]})
        /\ Free(new, t) /\ Free(new, GlobalKey[t])
        /\ own.engine # "caddy" => Edited(file, new, {t})
    BY <1>3, WithoutEdits
  <2> HIDE DEF new
  <2> QED  BY <1>3, <2>1, EditKeeps
<1>4. \A u \in Targets \ {t} : installed'[u] = installed[u]
  BY <1>1 DEF FileInv
<1> HIDE DEF new
<1>5. ASSUME ~damaged'
      PROVE  /\ file' \in Seq(Lines) /\ Nested(file)' /\ Theirs(file)' = Text(own.lines)'
             /\ \A u \in Targets : installed'[u] = None => Free(file, u)' /\ Free(file, GlobalKey[u])'
             /\ own'.engine # "caddy" => \A u \in Targets : Free(file, GlobalKey[u])'
  <2>1. ~damaged
    BY <1>1, <1>5, Zenon
  <2>2. /\ Nested(file)' <=> Nested(new)
        /\ Theirs(file)' = Theirs(new)
        /\ Text(own.lines)' = Text(own.lines)
        /\ \A k : Free(file, k)' <=> Free(new, k)
    BY <1>1 DEF Nested, Theirs, OwnAt, Text, Free, IsBlock, IsMark
  <2> QED  BY <1>1, <1>3, <1>4, <2>1, <2>2
<1> QED  BY <1>2, <1>5 DEF FileInv

LEMMA FileStep == FileInv /\ [Next]_vars => FileInv'
<1> SUFFICES ASSUME FileInv, [Next]_vars PROVE FileInv'
  OBVIOUS
<1>1. ASSUME NEW t \in Targets, NEW v \in Versions[own.engine], Install(t, v) PROVE FileInv'
  BY <1>1, FileInstall
<1>2. ASSUME NEW t \in Targets, Uninstall(t) PROVE FileInv'
  BY <1>2, FileUninstall
<1>3. ASSUME NEW t \in Targets, LoseMarker(t) PROVE FileInv'
  BY <1>3 DEF LoseMarker, FileInv
<1>4. CASE UNCHANGED vars
  BY <1>4 DEF vars, FileInv, Theirs, OwnAt, Text, Nested, Free, IsBlock, IsMark
<1> QED  BY <1>1, <1>2, <1>3, <1>4 DEF Next

LEMMA FileInvKeepsLines == FileInv => OwnLinesKept
<1> SUFFICES ASSUME FileInv, ~damaged
             PROVE  /\ LinesAt(file, OwnAt(file)) = Text(own.lines)
                    /\ (\A t \in Targets : installed[t] = None) => Text(file) = Text(own.lines)
  BY DEF OwnLinesKept
<1>1. file \in Seq(Lines) /\ Theirs(file) = Text(own.lines)
  BY DEF FileInv
<1>2. ASSUME \A t \in Targets : installed[t] = None PROVE Text(file) = Text(own.lines)
  <2>1. \A k \in Keys : Free(file, k)
    BY <1>2 DEF FileInv, Keys
  <2> QED  BY <1>1, <2>1, FreeIsTheirs
<1> QED  BY <1>1, <1>2 DEF Theirs

\* Whatever targets of whichever engine are applied and removed in one file,
\* in any order, the lines that the operator wrote are all there and in their
\* order, and nothing else is left when no target is installed: the edits of
\* blockedit.go and inject.go take out and put in whole blocks only.
THEOREM OwnLinesStay == Spec => []OwnLinesKept
<1>1. Init => FileInv
  BY FileInit
<1>2. FileInv /\ [Next]_vars => FileInv'
  BY FileStep
<1>3. FileInv => OwnLinesKept
  BY FileInvKeepsLines
<1> QED  BY <1>1, <1>2, <1>3, PTL DEF Spec

\* What was just applied is there already, unless it is caddy's block in the
\* global options.
AgainNoop == (own.engine = "caddy" => ~settings[last.target].realIp) => ReapplyIsNoop

LEMMA InstallAgain ==
  ASSUME FileInv, NEW t \in Targets, NEW v \in Versions[own.engine], Install(t, v)
  PROVE  AgainNoop'
<1> DEFINE new == Inject(file, t, v)
<1> SUFFICES ASSUME last'.op = "apply", ~damaged',
                    own'.engine = "caddy" => ~settings'[last'.target].realIp
             PROVE  Inject(file, last.target, last.version)' = file'
  BY DEF AgainNoop, ReapplyIsNoop
<1>1. /\ own' = own /\ settings' = settings /\ damaged' = damaged
      /\ new # NoBlockFound /\ file' = new
      /\ last'.target = t /\ last'.version = v
  <2>1. /\ own' = own /\ settings' = settings /\ damaged' = damaged
    BY Zenon DEF Install
  <2>2. \/ last' = [op |-> "refuse", target |-> t, version |-> v]
        \/ new # NoBlockFound /\ file' = new /\ last' = [op |-> "apply", target |-> t, version |-> v]
    BY Zenon DEF Install
  <2> QED  BY <2>1, <2>2
<1>2. ~damaged
  BY <1>1, Zenon
<1>3. /\ file \in Seq(Lines) /\ Nested(file) /\ t \in Keys /\ GlobalKey[t] \in Keys
      /\ v \in Words /\ settings[t] \in Settings[own.engine]
  BY <1>2, LayoutAssumption DEF FileInv, LayoutAssumption, Keys
<1>4. /\ settings[t].realIp \in BOOLEAN
      /\ own.engine \in {"nginx", "caddy", "apache", "haproxy"}
  BY <1>3, LayoutAssumption DEF LayoutAssumption, FileInv
<1>5. Inject(file, last.target, last.version)' = Inject(new, t, v)
  BY <1>1 DEF Inject
<1> DEFINE selector == settings[t].selector
           realIp == settings[t].realIp
<1>6. CASE own.engine = "nginx"
  <2>1. \A f : Inject(f, t, v) = NginxInject(f, t, selector)
    BY <1>6 DEF Inject
  <2> HIDE DEF selector
  <2>2. Inject(new, t, v) = new
    BY <1>1, <1>3, <2>1, NginxAgain
  <2> QED  BY <1>1, <1>5, <2>2
<1>7. CASE own.engine = "caddy"
  <2>1. \A f : Inject(f, t, v) = CaddyInject(f, t, GlobalKey[t], selector, realIp, v)
    BY <1>7 DEF Inject
  <2>2. ~realIp
    BY <1>1, <1>7
  <2> HIDE DEF selector, realIp
  <2>3. Inject(new, t, v) = new
    BY <1>1, <1>3, <2>1, <2>2, CaddyAgain
  <2> QED  BY <1>1, <1>5, <2>3
<1>8. CASE own.engine = "apache"
  <2>1. \A f : Inject(f, t, v) = ApacheInject(f, t, selector)
    BY <1>8 DEF Inject
  <2> HIDE DEF selector
  <2>2. Inject(new, t, v) = new
    BY <1>1, <1>3, <2>1, ApacheAgain
  <2> QED  BY <1>1, <1>5, <2>2
<1>9. CASE own.engine = "haproxy"
  <2>1. \A f : Inject(f, t, v) = HaproxyInject(f, t, selector, v, realIp)
    BY <1>9 DEF Inject
  <2>2. realIp \in BOOLEAN
    BY <1>4
  <2> HIDE DEF selector, realIp
  <2>3. Inject(new, t, v) = new
    BY <1>1, <1>3, <2>1, <2>2, HaproxyAgain
  <2> QED  BY <1>1, <1>5, <2>3
<1> QED  BY <1>4, <1>6, <1>7, <1>8, <1>9

LEMMA AgainStep == FileInv /\ AgainNoop /\ [Next]_vars => AgainNoop'
<1> SUFFICES ASSUME FileInv, AgainNoop, [Next]_vars PROVE AgainNoop'
  OBVIOUS
<1>1. ASSUME NEW t \in Targets, NEW v \in Versions[own.engine], Install(t, v) PROVE AgainNoop'
  BY <1>1, InstallAgain
<1>2. ASSUME NEW t \in Targets, Uninstall(t) PROVE AgainNoop'
  BY <1>2 DEF Uninstall, AgainNoop, ReapplyIsNoop
<1>3. ASSUME NEW t \in Targets, LoseMarker(t) PROVE AgainNoop'
  BY <1>3 DEF LoseMarker, AgainNoop, ReapplyIsNoop
<1>4. CASE UNCHANGED vars
  BY <1>4 DEF vars, AgainNoop, ReapplyIsNoop, Inject
<1> QED  BY <1>1, <1>2, <1>3, <1>4 DEF Next

\* An apply that repeats the last one finds every line as it should be, so
\* that safe.go has nothing to write and nothing to reload: for all engines,
\* and for caddy as far as the block in the site goes.
THEOREM ReapplyStaysNoop ==
  Spec => []((own.engine = "caddy" => ~settings[last.target].realIp) => ReapplyIsNoop)
<1>1. Init => FileInv /\ AgainNoop
  BY FileInit DEF Init, AgainNoop, ReapplyIsNoop
<1>2. FileInv /\ AgainNoop /\ [Next]_vars => FileInv' /\ AgainNoop'
  BY FileStep, AgainStep
<1> QED  BY <1>1, <1>2, PTL DEF Spec, AgainNoop
=============================================================================
