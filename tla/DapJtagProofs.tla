---------------------------- MODULE DapJtagProofs ----------------------------
(***************************************************************************)
(* Proofs about DapJtag, for chains of any length and any description of   *)
(* them by the host: the remembered instruction is the one loaded, and     *)
(* every access reaches the device it is meant for.                        *)
(***************************************************************************)
EXTENDS DapJtag, SequenceTheorems, WellFoundedInduction, TLAPS

\* Induction over the naturals, for a set of them.
LEMMA Induct ==
  ASSUME NEW T \in SUBSET Nat, 0 \in T, \A n \in T : n + 1 \in T
  PROVE  T = Nat
  <1> SUFFICES ASSUME Nat \ T # {} PROVE FALSE
    OBVIOUS
  <1>1. PICK n \in Nat \ T : \A k \in Nat \ T : ~(k < n)
    <2>1. PICK n \in Nat \ T : \A y \in SetLessThan(n, OpToRel(<, Nat), Nat) : y \notin Nat \ T
      <3>1. IsWellFoundedOn(OpToRel(<, Nat), Nat)
        BY NatLessThanWellFounded
      <3> QED BY <3>1, WFMin DEF SetLessThan
    <2> QED BY <2>1 DEF SetLessThan, OpToRel
  <1>2. n # 0 /\ n - 1 \in Nat /\ n - 1 < n
    OBVIOUS
  <1>3. n - 1 \in T
    BY <1>1, <1>2
  <1> QED BY <1>1, <1>2, <1>3
-----------------------------------------------------------------------------
(* Clocks one after the other. *)

\* The chains that clocks lead through from b.
Path(b, cs) == CHOOSE f : f = [k \in 0..Len(cs) |-> IF k = 0 THEN b ELSE Clock(f[k - 1], cs[k])]

LEMMA PathIs ==
  ASSUME NEW S, NEW b, NEW cs \in Seq(S)
  PROVE  /\ Path(b, cs)[0] = b
         /\ \A k \in 1..Len(cs) : Path(b, cs)[k] = Clock(Path(b, cs)[k - 1], cs[k])
         /\ After(b, cs) = Path(b, cs)[Len(cs)]
  <1> DEFINE T == {n \in Nat : \E f : f = [k \in 0..n |-> IF k = 0 THEN b ELSE Clock(f[k - 1], cs[k])]}
  <1>1. 0 \in T
    <2> DEFINE f == [k \in 0..0 |-> b]
    <2>1. f = [k \in 0..0 |-> IF k = 0 THEN b ELSE Clock(f[k - 1], cs[k])]
      OBVIOUS
    <2> HIDE DEF f
    <2>2. \E h : h = [k \in 0..0 |-> IF k = 0 THEN b ELSE Clock(h[k - 1], cs[k])]
      BY <2>1, Zenon
    <2> QED BY <2>2
  <1>2. ASSUME NEW n \in T PROVE n + 1 \in T
    <2>1. PICK f : f = [k \in 0..n |-> IF k = 0 THEN b ELSE Clock(f[k - 1], cs[k])]
      OBVIOUS
    <2> DEFINE g == [k \in 0..(n + 1) |-> IF k = n + 1 THEN Clock(f[n], cs[k]) ELSE f[k]]
    <2>2. \A k \in 0..(n + 1) : g[k] = IF k = 0 THEN b ELSE Clock(g[k - 1], cs[k])
      BY <2>1
    <2>3. g = [k \in 0..(n + 1) |-> IF k = 0 THEN b ELSE Clock(g[k - 1], cs[k])]
      BY <2>2
    <2> HIDE DEF g
    <2>4. \E h : h = [k \in 0..(n + 1) |-> IF k = 0 THEN b ELSE Clock(h[k - 1], cs[k])]
      BY <2>3, Zenon
    <2> QED BY <2>4
  <1>3. Len(cs) \in T
    <2> HIDE DEF T
    <2>1. T = Nat
      <3>1. T \subseteq Nat
        BY DEF T
      <3> QED BY ONLY <3>1, <1>1, <1>2, Induct
    <2> QED BY <2>1, LenProperties
  <1>4. PICK f : f = [k \in 0..Len(cs) |-> IF k = 0 THEN b ELSE Clock(f[k - 1], cs[k])]
    BY <1>3
  <1>5. Path(b, cs) = [k \in 0..Len(cs) |-> IF k = 0 THEN b ELSE Clock(Path(b, cs)[k - 1], cs[k])]
    BY <1>4, Zenon DEF Path
  <1>6. After(b, cs) = Path(b, cs)[Len(cs)]
    BY DEF After, Path
  <1> HIDE DEF T
  <1> QED BY <1>5, <1>6, LenProperties

\* The last of the chains is the only one there can be.
LEMMA AfterEnds ==
  ASSUME NEW S, NEW b, NEW cs \in Seq(S), NEW f, f[0] = b,
         \A k \in 1..Len(cs) : f[k] = Clock(f[k - 1], cs[k])
  PROVE  After(b, cs) = f[Len(cs)]
  <1> DEFINE g == Path(b, cs)
             T == {n \in Nat : n <= Len(cs) => f[n] = g[n]}
  <1>1. /\ g[0] = b /\ \A k \in 1..Len(cs) : g[k] = Clock(g[k - 1], cs[k])
        /\ After(b, cs) = g[Len(cs)]
    BY PathIs
  <1> HIDE DEF g
  <1>2. Len(cs) \in Nat
    BY LenProperties
  <1>3. 0 \in T
    BY <1>1
  <1>4. ASSUME NEW n \in T PROVE n + 1 \in T
    <2> SUFFICES ASSUME n + 1 <= Len(cs) PROVE f[n + 1] = g[n + 1]
      OBVIOUS
    <2>1. n + 1 \in 1..Len(cs) /\ (n + 1) - 1 = n /\ f[n] = g[n]
      BY <1>2
    <2> QED BY <1>1, <2>1
  <1>5. T \in SUBSET Nat
    OBVIOUS
  <1> HIDE DEF T
  <1>6. T = Nat
    BY ONLY <1>3, <1>4, <1>5, Induct
  <1> QED BY <1>1, <1>2, <1>6 DEF T

LEMMA AfterBoth ==
  ASSUME NEW S, NEW b, NEW s \in Seq(S), NEW t \in Seq(S)
  PROVE  After(b, s \o t) = After(After(b, s), t)
  <1> DEFINE u == s \o t
             f == Path(b, u)
             g == [k \in 0..Len(t) |-> f[Len(s) + k]]
  <1>1. /\ u \in Seq(S) /\ Len(u) = Len(s) + Len(t) /\ Len(s) \in Nat /\ Len(t) \in Nat
        /\ \A k \in 1..Len(s) : u[k] = s[k]
        /\ \A k \in 1..Len(t) : u[Len(s) + k] = t[k]
    OBVIOUS
  <1> HIDE DEF u
  <1>2. /\ f[0] = b /\ \A k \in 1..(Len(s) + Len(t)) : f[k] = Clock(f[k - 1], u[k])
        /\ After(b, u) = f[Len(s) + Len(t)]
    <2>1. f[0] = b /\ (\A k \in 1..Len(u) : f[k] = Clock(f[k - 1], u[k])) /\ After(b, u) = f[Len(u)]
      <3>1. u \in Seq(S)
        BY <1>1
      <3> QED BY <3>1, PathIs
    <2> HIDE DEF f
    <2> QED BY <1>1, <2>1
  <1> HIDE DEF f
  <1>3. After(b, s) = f[Len(s)]
    <2>1. \A k \in 1..Len(s) : f[k] = Clock(f[k - 1], s[k])
      BY <1>1, <1>2
    <2> QED BY <1>2, <2>1, AfterEnds
  <1>4. g[0] = f[Len(s)] /\ \A k \in 1..Len(t) : g[k] = Clock(g[k - 1], t[k])
    <2>1. g[0] = f[Len(s)]
      BY <1>1
    <2>2. ASSUME NEW k \in 1..Len(t) PROVE g[k] = Clock(g[k - 1], t[k])
      <3>1. Len(s) + k \in 1..(Len(s) + Len(t)) /\ (Len(s) + k) - 1 = Len(s) + (k - 1) /\ k - 1 \in 0..Len(t)
        BY <1>1
      <3>2. f[Len(s) + k] = Clock(f[Len(s) + (k - 1)], t[k])
        BY <1>1, <1>2, <3>1
      <3> QED BY <3>1, <3>2
    <2> QED BY <2>1, <2>2
  <1>5. g[Len(t)] = f[Len(s) + Len(t)]
    BY <1>1
  <1> HIDE DEF g
  <1>6. After(f[Len(s)], t) = g[Len(t)]
    BY <1>4, AfterEnds
  <1> QED BY <1>2, <1>3, <1>5, <1>6 DEF u
-----------------------------------------------------------------------------
(* Sums and joined sequences. *)

\* The sums of the first numbers of s.
Sums(s) == CHOOSE f : f = [k \in 0..Len(s) |-> IF k = 0 THEN 0 ELSE f[k - 1] + s[k]]

LEMMA TotalIs ==
  ASSUME NEW s \in Seq(Nat)
  PROVE  /\ Total(s, 0) = 0
         /\ \A k \in 1..Len(s) : Total(s, k) = Total(s, k - 1) + s[k]
  <1> DEFINE T == {n \in Nat : \E f : f = [k \in 0..n |-> IF k = 0 THEN 0 ELSE f[k - 1] + s[k]]}
  <1>1. 0 \in T
    <2> DEFINE f == [k \in 0..0 |-> 0]
    <2>1. f = [k \in 0..0 |-> IF k = 0 THEN 0 ELSE f[k - 1] + s[k]]
      OBVIOUS
    <2> HIDE DEF f
    <2>2. \E h : h = [k \in 0..0 |-> IF k = 0 THEN 0 ELSE h[k - 1] + s[k]]
      BY <2>1, Zenon
    <2> QED BY <2>2
  <1>2. ASSUME NEW n \in T PROVE n + 1 \in T
    <2>1. PICK f : f = [k \in 0..n |-> IF k = 0 THEN 0 ELSE f[k - 1] + s[k]]
      OBVIOUS
    <2> DEFINE g == [k \in 0..(n + 1) |-> IF k = n + 1 THEN f[n] + s[k] ELSE f[k]]
    <2>2. \A k \in 0..(n + 1) : g[k] = IF k = 0 THEN 0 ELSE g[k - 1] + s[k]
      BY <2>1
    <2>3. g = [k \in 0..(n + 1) |-> IF k = 0 THEN 0 ELSE g[k - 1] + s[k]]
      BY <2>2
    <2> HIDE DEF g
    <2>4. \E h : h = [k \in 0..(n + 1) |-> IF k = 0 THEN 0 ELSE h[k - 1] + s[k]]
      BY <2>3, Zenon
    <2> QED BY <2>4
  <1>3. Len(s) \in T
    <2> HIDE DEF T
    <2>1. T = Nat
      <3>1. T \subseteq Nat
        BY DEF T
      <3> QED BY ONLY <3>1, <1>1, <1>2, Induct
    <2> QED BY <2>1, LenProperties
  <1>4. PICK f : f = [k \in 0..Len(s) |-> IF k = 0 THEN 0 ELSE f[k - 1] + s[k]]
    BY <1>3
  <1>5. Sums(s) = [k \in 0..Len(s) |-> IF k = 0 THEN 0 ELSE Sums(s)[k - 1] + s[k]]
    BY <1>4, Zenon DEF Sums
  <1>6. \A n : Total(s, n) = Sums(s)[n]
    BY DEF Total, Sums
  <1>7. Len(s) \in Nat /\ 0 \in 0..Len(s) /\ \A k \in 1..Len(s) : k \in 0..Len(s) /\ k # 0
    OBVIOUS
  <1> HIDE DEF T
  <1>8. Sums(s)[0] = 0
    BY <1>5, <1>7
  <1>9. \A k \in 1..Len(s) : Sums(s)[k] = Sums(s)[k - 1] + s[k]
    BY <1>5, <1>7
  <1> QED BY <1>6, <1>8, <1>9

LEMMA TotalNat ==
  ASSUME NEW s \in Seq(Nat)
  PROVE  \A k \in 0..Len(s) : Total(s, k) \in Nat
  <1> DEFINE T == {n \in Nat : n <= Len(s) => Total(s, n) \in Nat}
  <1>1. Len(s) \in Nat /\ \A k \in 1..Len(s) : s[k] \in Nat
    OBVIOUS
  <1>2. 0 \in T
    BY TotalIs
  <1>3. ASSUME NEW n \in T PROVE n + 1 \in T
    <2> SUFFICES ASSUME n + 1 <= Len(s) PROVE Total(s, n + 1) \in Nat
      OBVIOUS
    <2>1. n + 1 \in 1..Len(s) /\ (n + 1) - 1 = n /\ Total(s, n) \in Nat
      BY <1>1
    <2>2. Total(s, n + 1) = Total(s, n) + s[n + 1]
      BY <2>1, TotalIs
    <2> QED BY <1>1, <2>1, <2>2
  <1>4. T \in SUBSET Nat
    OBVIOUS
  <1> HIDE DEF T
  <1>5. T = Nat
    BY ONLY <1>2, <1>3, <1>4, Induct
  <1> QED BY <1>1, <1>5 DEF T

LEMMA TotalGrows ==
  ASSUME NEW s \in Seq(Nat), NEW i \in 0..Len(s), NEW j \in i..Len(s)
  PROVE  Total(s, i) <= Total(s, j)
  <1> DEFINE T == {n \in Nat : i + n <= Len(s) => Total(s, i) <= Total(s, i + n)}
  <1>1. Len(s) \in Nat /\ i \in Nat /\ j - i \in Nat /\ i + (j - i) = j /\ j <= Len(s)
    OBVIOUS
  <1>2. \A k \in 0..Len(s) : Total(s, k) \in Nat
    BY TotalNat
  <1>3. 0 \in T
    BY <1>1, <1>2
  <1>4. ASSUME NEW n \in T PROVE n + 1 \in T
    <2> SUFFICES ASSUME i + (n + 1) <= Len(s) PROVE Total(s, i) <= Total(s, i + (n + 1))
      OBVIOUS
    <2>1. i + (n + 1) \in 1..Len(s) /\ (i + (n + 1)) - 1 = i + n /\ i + n \in 0..Len(s)
      BY <1>1
    <2>2. Total(s, i + (n + 1)) = Total(s, i + n) + s[i + (n + 1)]
      BY <2>1, TotalIs
    <2>3. s[i + (n + 1)] \in Nat
      BY <2>1
    <2>4. Total(s, i) <= Total(s, i + n)
      BY <1>1, <2>1
    <2> QED BY <1>1, <1>2, <2>1, <2>2, <2>3, <2>4
  <1>5. T \in SUBSET Nat
    OBVIOUS
  <1> HIDE DEF T
  <1>6. T = Nat
    BY ONLY <1>3, <1>4, <1>5, Induct
  <1> QED BY <1>1, <1>6 DEF T

Cat(s, t) == s \o t

\* The sequences that the joining of ss leads through.
Joins(ss) == CHOOSE f : f = [k \in 1..Len(ss) |-> IF k = 1 THEN ss[k] ELSE Cat(f[k - 1], ss[k])]

LEMMA JoinsAre ==
  ASSUME NEW S, NEW ss \in Seq(S), Len(ss) > 0
  PROVE  /\ Joins(ss)[1] = ss[1]
         /\ \A k \in 2..Len(ss) : Joins(ss)[k] = Cat(Joins(ss)[k - 1], ss[k])
         /\ FlattenSeq(ss) = Joins(ss)[Len(ss)]
  <1> DEFINE T == {n \in Nat : \E f : f = [k \in 1..(n + 1) |-> IF k = 1 THEN ss[k] ELSE Cat(f[k - 1], ss[k])]}
  <1>1. 0 \in T
    <2> DEFINE f == [k \in 1..1 |-> ss[k]]
    <2>1. f = [k \in 1..(0 + 1) |-> IF k = 1 THEN ss[k] ELSE Cat(f[k - 1], ss[k])]
      OBVIOUS
    <2> HIDE DEF f
    <2>2. \E h : h = [k \in 1..(0 + 1) |-> IF k = 1 THEN ss[k] ELSE Cat(h[k - 1], ss[k])]
      BY <2>1, Zenon
    <2> QED BY <2>2
  <1>2. ASSUME NEW n \in T PROVE n + 1 \in T
    <2>1. PICK f : f = [k \in 1..(n + 1) |-> IF k = 1 THEN ss[k] ELSE Cat(f[k - 1], ss[k])]
      OBVIOUS
    <2> DEFINE g == [k \in 1..((n + 1) + 1) |-> IF k = (n + 1) + 1 THEN Cat(f[n + 1], ss[k]) ELSE f[k]]
    <2>2. \A k \in 1..((n + 1) + 1) : g[k] = IF k = 1 THEN ss[k] ELSE Cat(g[k - 1], ss[k])
      BY <2>1
    <2>3. g = [k \in 1..((n + 1) + 1) |-> IF k = 1 THEN ss[k] ELSE Cat(g[k - 1], ss[k])]
      BY <2>2
    <2> HIDE DEF g
    <2>4. \E h : h = [k \in 1..((n + 1) + 1) |-> IF k = 1 THEN ss[k] ELSE Cat(h[k - 1], ss[k])]
      BY <2>3, Zenon
    <2> QED BY <2>4
  <1>3. Len(ss) - 1 \in T
    <2> HIDE DEF T
    <2>1. T = Nat
      <3>1. T \subseteq Nat
        BY DEF T
      <3> QED BY ONLY <3>1, <1>1, <1>2, Induct
    <2>2. Len(ss) - 1 \in Nat
      OBVIOUS
    <2> QED BY <2>1, <2>2
  <1>4. PICK f : f = [k \in 1..Len(ss) |-> IF k = 1 THEN ss[k] ELSE Cat(f[k - 1], ss[k])]
    <2>1. (Len(ss) - 1) + 1 = Len(ss)
      OBVIOUS
    <2> QED BY <1>3, <2>1
  <1>5. Joins(ss) = [k \in 1..Len(ss) |-> IF k = 1 THEN ss[k] ELSE Cat(Joins(ss)[k - 1], ss[k])]
    BY <1>4, Zenon DEF Joins
  <1>6. FlattenSeq(ss) = Joins(ss)[Len(ss)]
    BY DEF FlattenSeq, Joins, Cat
  <1>7. Len(ss) \in Nat /\ \A k \in 2..Len(ss) : k \in 1..Len(ss) /\ k # 1
    OBVIOUS
  <1> HIDE DEF T
  <1>8. Joins(ss)[1] = ss[1]
    BY <1>5, <1>7
  <1>9. \A k \in 2..Len(ss) : Joins(ss)[k] = Cat(Joins(ss)[k - 1], ss[k])
    BY <1>5, <1>7
  <1> QED BY <1>6, <1>8, <1>9

\* The lengths of sequences, and what the first n of them make when joined.
Sizes(ss) == [d \in 1..Len(ss) |-> Len(ss[d])]
IsJoin(j, ss, n, S) ==
    /\ j \in Seq(S) /\ Len(j) = Total(Sizes(ss), n)
    /\ \A d \in 1..n : \A k \in 1..Len(ss[d]) : j[Total(Sizes(ss), d - 1) + k] = ss[d][k]

LEMMA SizesAre ==
  ASSUME NEW S, NEW ss \in Seq(Seq(S))
  PROVE  Sizes(ss) \in Seq(Nat) /\ Len(Sizes(ss)) = Len(ss) /\ \A d \in 1..Len(ss) : Sizes(ss)[d] = Len(ss[d])
  <1>1. \A d \in 1..Len(ss) : Len(ss[d]) \in Nat
    <2> TAKE d \in 1..Len(ss)
    <2>1. ss[d] \in Seq(S)
      OBVIOUS
    <2> QED BY <2>1, LenProperties
  <1>2. Len(ss) \in Nat
    OBVIOUS
  <1> QED BY <1>1, <1>2 DEF Sizes

LEMMA JoinStep ==
  ASSUME NEW S, NEW ss \in Seq(Seq(S)), NEW n \in 1..Len(ss), n > 1, NEW j, IsJoin(j, ss, n - 1, S)
  PROVE  IsJoin(Cat(j, ss[n]), ss, n, S)
  <1> DEFINE L == Sizes(ss)
             c == Cat(j, ss[n])
  <1>1. L \in Seq(Nat) /\ Len(L) = Len(ss) /\ L[n] = Len(ss[n]) /\ Len(ss) \in Nat
    BY SizesAre, LenProperties
  <1> HIDE DEF L
  <1>2. ss[n] \in Seq(S) /\ j \in Seq(S) /\ Len(j) = Total(L, n - 1)
    BY DEF IsJoin, L
  <1>3. /\ c \in Seq(S) /\ Len(c) = Len(j) + Len(ss[n])
        /\ \A k \in 1..Len(j) : c[k] = j[k]
        /\ \A k \in 1..Len(ss[n]) : c[Len(j) + k] = ss[n][k]
    <2> DEFINE z == ss[n]
    <2>1. z \in Seq(S)
      BY <1>2
    <2> HIDE DEF z
    <2>2. /\ Cat(j, z) \in Seq(S) /\ Len(Cat(j, z)) = Len(j) + Len(z)
          /\ \A k \in 1..Len(j) : Cat(j, z)[k] = j[k]
          /\ \A k \in 1..Len(z) : Cat(j, z)[Len(j) + k] = z[k]
      <3>1. j \in Seq(S)
        BY <1>2
      <3> QED BY ONLY <3>1, <2>1 DEF Cat
    <2> QED BY <2>2 DEF z
  <1> HIDE DEF c
  <1>4. Total(L, n) = Total(L, n - 1) + Len(ss[n])
    BY <1>1, TotalIs
  <1>5. ASSUME NEW d \in 1..n, NEW k \in 1..Len(ss[d])
        PROVE  c[Total(L, d - 1) + k] = ss[d][k]
    <2>1. CASE d = n
      BY <1>2, <1>3, <2>1
    <2>2. CASE d # n
      <3>1. d \in 1..(n - 1) /\ d \in 1..Len(L) /\ d - 1 \in 0..Len(L) /\ n - 1 \in d..Len(L)
        BY <1>1, <2>2
      <3>2. j[Total(L, d - 1) + k] = ss[d][k]
        BY <3>1 DEF IsJoin, L
      <3>3. Total(L, d - 1) \in Nat /\ Total(L, d) = Total(L, d - 1) + L[d] /\ L[d] = Len(ss[d])
        <4>1. L[d] = Len(ss[d])
          BY <1>1, <3>1, SizesAre DEF L
        <4> QED BY <1>1, <3>1, <4>1, TotalIs, TotalNat
      <3>4. Total(L, d) <= Total(L, n - 1)
        <4>1. d \in 0..Len(L)
          BY <3>1
        <4> QED BY <1>1, <3>1, <4>1, TotalGrows
      <3>5. Len(ss[d]) \in Nat
        <4>1. ss[d] \in Seq(S)
          BY <1>1, <3>1
        <4> QED BY <4>1, LenProperties
      <3>6. Len(j) \in Nat
        BY <1>2, LenProperties
      <3>7. Total(L, d - 1) + k \in 1..Len(j)
        BY SMTT(30), <1>2, <3>3, <3>4, <3>5, <3>6
      <3> QED BY <1>3, <3>2, <3>7
    <2> QED BY <2>1, <2>2
  <1>6. c \in Seq(S) /\ Len(c) = Total(L, n)
    BY <1>2, <1>3, <1>4
  <1> QED BY <1>5, <1>6 DEF IsJoin, L, c

\* What FlattenSeq makes of sequences.
LEMMA FlattenIs ==
  ASSUME NEW S, NEW ss \in Seq(Seq(S)), Len(ss) > 0
  PROVE  IsJoin(FlattenSeq(ss), ss, Len(ss), S)
  <1> DEFINE j == Joins(ss)
             T == {n \in Nat : n + 1 <= Len(ss) => IsJoin(j[n + 1], ss, n + 1, S)}
  <1>1. /\ j[1] = ss[1] /\ FlattenSeq(ss) = j[Len(ss)]
        /\ \A k \in 2..Len(ss) : j[k] = Cat(j[k - 1], ss[k])
    BY JoinsAre
  <1> HIDE DEF j
  <1>2. Len(ss) \in Nat /\ Len(ss) - 1 \in Nat /\ (Len(ss) - 1) + 1 = Len(ss) /\ 1 \in 1..Len(ss)
    BY LenProperties
  <1>3. 0 \in T
    <2>1. ss[1] \in Seq(S)
      BY <1>2
    <2>2. Sizes(ss) \in Seq(Nat) /\ Len(Sizes(ss)) = Len(ss) /\ Sizes(ss)[1] = Len(ss[1])
      BY <1>2, SizesAre
    <2>3. Total(Sizes(ss), 0) = 0 /\ Total(Sizes(ss), 1) = Total(Sizes(ss), 0) + Sizes(ss)[1]
      <3>1. 1 - 1 = 0 /\ 1 \in 1..Len(Sizes(ss))
        BY <1>2, <2>2
      <3> HIDE DEF Sizes
      <3> QED BY <2>2, <3>1, TotalIs
    <2>4. Len(ss[1]) \in Nat
      BY <2>1, LenProperties
    <2>5. \A d \in 1..1 : \A k \in 1..Len(ss[d]) : ss[1][Total(Sizes(ss), d - 1) + k] = ss[d][k]
      BY <2>3, <2>4
    <2>6. Len(ss[1]) = Total(Sizes(ss), 1)
      BY <2>2, <2>3, <2>4
    <2>7. IsJoin(ss[1], ss, 1, S)
      BY <2>1, <2>5, <2>6 DEF IsJoin
    <2> QED BY <1>1, <2>7
  <1>4. ASSUME NEW n \in T PROVE n + 1 \in T
    <2> SUFFICES ASSUME (n + 1) + 1 <= Len(ss) PROVE IsJoin(j[(n + 1) + 1], ss, (n + 1) + 1, S)
      OBVIOUS
    <2> DEFINE m == (n + 1) + 1
    <2>1. m \in 1..Len(ss) /\ m \in 2..Len(ss) /\ m > 1 /\ m - 1 = n + 1
      BY <1>2
    <2>2. IsJoin(j[n + 1], ss, n + 1, S)
      BY <1>2
    <2> HIDE DEF m
    <2>3. IsJoin(Cat(j[m - 1], ss[m]), ss, m, S)
      BY <2>1, <2>2, JoinStep
    <2> QED BY <1>1, <2>1, <2>3 DEF m
  <1>5. T \in SUBSET Nat
    OBVIOUS
  <1> HIDE DEF T
  <1>6. T = Nat
    BY ONLY <1>3, <1>4, <1>5, Induct
  <1>7. Len(ss) - 1 \in T
    BY <1>2, <1>6
  <1>8. IsJoin(j[(Len(ss) - 1) + 1], ss, (Len(ss) - 1) + 1, S)
    BY <1>2, <1>7 DEF T
  <1> QED BY <1>1, <1>2, <1>8
-----------------------------------------------------------------------------
(* One clock. *)

Jt(tap, sr, tdo, irs, drs, ack, data) ==
    [tap |-> tap, sr |-> sr, tdo |-> tdo, irs |-> irs, drs |-> drs, ack |-> ack, data |-> data]
Pin(m, b) == [tms |-> m, tdi |-> b]

\* Changes of a chain.
WithTap(t, a) == [t EXCEPT !.tap = a]
WithSr(t, a) == [t EXCEPT !.sr = a]
WithTdo(t, a) == [t EXCEPT !.tdo = a]
WithIrs(t, a) == [t EXCEPT !.irs = a]
WithDrs(t, a) == [t EXCEPT !.drs = a]
WithAck(t, a) == [t EXCEPT !.ack = a]
WithData(t, a) == [t EXCEPT !.data = a]

LEMMA JtFields ==
  ASSUME NEW tap, NEW s, NEW o, NEW i, NEW d, NEW a, NEW v
  PROVE  LET t == Jt(tap, s, o, i, d, a, v)
         IN /\ t.tap = tap /\ t.sr = s /\ t.tdo = o /\ t.irs = i /\ t.drs = d /\ t.ack = a /\ t.data = v
            /\ \A x : WithTap(t, x) = Jt(x, s, o, i, d, a, v)
            /\ \A x : WithSr(t, x) = Jt(tap, x, o, i, d, a, v)
            /\ \A x : WithTdo(t, x) = Jt(tap, s, x, i, d, a, v)
            /\ \A x : WithIrs(t, x) = Jt(tap, s, o, x, d, a, v)
            /\ \A x : WithDrs(t, x) = Jt(tap, s, o, i, x, a, v)
            /\ \A x : WithAck(t, x) = Jt(tap, s, o, i, d, x, v)
            /\ \A x : WithData(t, x) = Jt(tap, s, o, i, d, a, x)
  <1> DEFINE t == Jt(tap, s, o, i, d, a, v)
  <1>1. t.tap = tap /\ t.sr = s /\ t.tdo = o /\ t.irs = i /\ t.drs = d /\ t.ack = a /\ t.data = v
    BY DEF Jt
  <1>2. \A x : WithTap(t, x) = Jt(x, s, o, i, d, a, v)
    BY DEF Jt, WithTap
  <1>3. \A x : WithSr(t, x) = Jt(tap, x, o, i, d, a, v)
    BY DEF Jt, WithSr
  <1>4. \A x : WithTdo(t, x) = Jt(tap, s, x, i, d, a, v)
    BY DEF Jt, WithTdo
  <1>5. \A x : WithIrs(t, x) = Jt(tap, s, o, x, d, a, v)
    BY DEF Jt, WithIrs
  <1>6. \A x : WithDrs(t, x) = Jt(tap, s, o, i, x, a, v)
    BY DEF Jt, WithDrs
  <1>7. \A x : WithAck(t, x) = Jt(tap, s, o, i, d, x, v)
    BY DEF Jt, WithAck
  <1>8. \A x : WithData(t, x) = Jt(tap, s, o, i, d, a, x)
    BY DEF Jt, WithData
  <1> HIDE DEF t
  <1> QED BY <1>1, <1>2, <1>3, <1>4, <1>5, <1>6, <1>7, <1>8 DEF t

LEMMA ClockCases ==
  ASSUME NEW t, NEW p
  PROVE  LET u == WithTap(t, TapNext(t.tap, p.tms))
         IN /\ t.tap \in {"Shift-DR", "Shift-IR"} =>
                  Clock(t, p) = WithTdo(WithSr(u, Append(Tail(t.sr), p.tdi)), Append(t.tdo, Head(t.sr)))
            /\ t.tap = "Capture-IR" =>
                  Clock(t, p) = WithSr(u, FlattenSeq([d \in DOMAIN t.irs |-> Bypass(Len(t.irs[d]))]))
            /\ t.tap = "Capture-DR" =>
                  Clock(t, p) = WithSr(u, FlattenSeq([d \in DOMAIN t.irs |-> Captured(t, d)]))
            /\ t.tap = "Update-IR" =>
                  Clock(t, p) = WithIrs(u, [d \in DOMAIN t.irs |-> Segment(t.sr, IrLens(t), d)])
            /\ t.tap = "Update-DR" =>
                  Clock(t, p) = WithDrs(u, [d \in DOMAIN t.irs |-> Segment(t.sr, DrLens(t), d)])
            /\ t.tap \notin {"Shift-DR", "Shift-IR", "Capture-IR", "Capture-DR", "Update-IR", "Update-DR"} =>
                  Clock(t, p) = u
  <1> DEFINE u == WithTap(t, TapNext(t.tap, p.tms))
             cIr == FlattenSeq([d \in DOMAIN t.irs |-> Bypass(Len(t.irs[d]))])
             cDr == FlattenSeq([d \in DOMAIN t.irs |-> Captured(t, d)])
             uIr == [d \in DOMAIN t.irs |-> Segment(t.sr, IrLens(t), d)]
             uDr == [d \in DOMAIN t.irs |-> Segment(t.sr, DrLens(t), d)]
             sh == Append(Tail(t.sr), p.tdi)
             ou == Append(t.tdo, Head(t.sr))
  <1>1. Clock(t, p) = CASE t.tap \in {"Shift-DR", "Shift-IR"} -> [u EXCEPT !.sr = sh, !.tdo = ou]
                        [] t.tap = "Capture-IR" -> [u EXCEPT !.sr = cIr]
                        [] t.tap = "Capture-DR" -> [u EXCEPT !.sr = cDr]
                        [] t.tap = "Update-IR" -> [u EXCEPT !.irs = uIr]
                        [] t.tap = "Update-DR" -> [u EXCEPT !.drs = uDr]
                        [] OTHER -> u
    BY Zenon DEF Clock, WithTap
  <1> HIDE DEF u, cIr, cDr, uIr, uDr, sh, ou
  <1>2. [u EXCEPT !.sr = sh, !.tdo = ou] = WithTdo(WithSr(u, sh), ou)
    BY DEF WithTdo, WithSr
  <1>3. [u EXCEPT !.sr = cIr] = WithSr(u, cIr) /\ [u EXCEPT !.sr = cDr] = WithSr(u, cDr)
    BY DEF WithSr
  <1>4. [u EXCEPT !.irs = uIr] = WithIrs(u, uIr) /\ [u EXCEPT !.drs = uDr] = WithDrs(u, uDr)
    BY DEF WithIrs, WithDrs
  <1>5. Clock(t, p) = CASE t.tap \in {"Shift-DR", "Shift-IR"} -> WithTdo(WithSr(u, sh), ou)
                        [] t.tap = "Capture-IR" -> WithSr(u, cIr)
                        [] t.tap = "Capture-DR" -> WithSr(u, cDr)
                        [] t.tap = "Update-IR" -> WithIrs(u, uIr)
                        [] t.tap = "Update-DR" -> WithDrs(u, uDr)
                        [] OTHER -> u
    BY <1>1, <1>2, <1>3, <1>4, Zenon
  <1> DEFINE tap == t.tap
             c == Clock(t, p)
  <1>6. /\ tap \in {"Shift-DR", "Shift-IR"} => c = WithTdo(WithSr(u, sh), ou)
        /\ tap = "Capture-IR" => c = WithSr(u, cIr)
        /\ tap = "Capture-DR" => c = WithSr(u, cDr)
        /\ tap = "Update-IR" => c = WithIrs(u, uIr)
        /\ tap = "Update-DR" => c = WithDrs(u, uDr)
        /\ tap \notin {"Shift-DR", "Shift-IR", "Capture-IR", "Capture-DR", "Update-IR", "Update-DR"} => c = u
    <2> HIDE DEF c, tap
    <2> QED BY <1>5 DEF c, tap
  <1> QED BY <1>6 DEF u, cIr, cDr, uIr, uDr, sh, ou
-----------------------------------------------------------------------------
(* Shifting: bits that come out of the register and bits that go in are one stream S, of
   which the register, n bits long, is the part behind k, and what came out since j the
   part before it. *)

Sh(tap, S, n, j, k, i, d, a, v) == Jt(tap, SubSeq(S, k + 1, k + n), SubSeq(S, j + 1, k), i, d, a, v)

LEMMA PartOf ==
  ASSUME NEW B, NEW S \in Seq(B), NEW i \in Nat, NEW j \in Nat, i <= j, j <= Len(S)
  PROVE  /\ SubSeq(S, i + 1, j) \in Seq(B) /\ Len(SubSeq(S, i + 1, j)) = j - i
         /\ \A x \in 1..(j - i) : SubSeq(S, i + 1, j)[x] = S[i + x]
  <1>1. Len(S) \in Nat
    BY LenProperties
  <1>2. CASE i = j
    <2>1. SubSeq(S, i + 1, j) = <<>>
      BY <1>1, <1>2
    <2> QED BY <1>2, <2>1
  <1>3. CASE i < j
    <2>1. i + 1 \in 1..Len(S) /\ j \in 1..Len(S)
      BY <1>1, <1>3
    <2> QED BY <1>1, <1>3, <2>1
  <1> QED BY <1>2, <1>3

\* A step of the window, and one of what came out.
LEMMA WindowMoves ==
  ASSUME NEW S \in Seq(Bits), NEW n \in Nat \ {0}, NEW k \in Nat, k + n + 1 <= Len(S)
  PROVE  LET w == SubSeq(S, k + 1, k + n)
         IN /\ Append(Tail(w), S[k + n + 1]) = SubSeq(S, (k + 1) + 1, (k + 1) + n)
            /\ Head(w) = S[k + 1]
  <1> DEFINE w == SubSeq(S, k + 1, k + n)
             x == SubSeq(S, (k + 1) + 1, (k + 1) + n)
             y == Append(Tail(w), S[k + n + 1])
  <1>1. w \in Seq(Bits) /\ Len(w) = n /\ \A z \in 1..n : w[z] = S[k + z]
    <2>1. k \in Nat /\ k + n \in Nat /\ k <= k + n /\ k + n <= Len(S) /\ (k + n) - k = n
      BY LenProperties
    <2> QED BY <2>1, PartOf
  <1>2. x \in Seq(Bits) /\ Len(x) = n /\ \A z \in 1..n : x[z] = S[(k + 1) + z]
    <2>1. k + 1 \in Nat /\ (k + 1) + n \in Nat /\ k + 1 <= (k + 1) + n /\ (k + 1) + n <= Len(S)
          /\ ((k + 1) + n) - (k + 1) = n
      BY LenProperties
    <2> QED BY <2>1, PartOf
  <1>3. S[k + n + 1] \in Bits
    <2>1. k + n + 1 \in 1..Len(S)
      BY LenProperties
    <2> QED BY <2>1
  <1> HIDE DEF w, x
  <1>4. Head(w) = w[1] /\ Tail(w) \in Seq(Bits) /\ Len(Tail(w)) = n - 1
           /\ \A z \in 1..(n - 1) : Tail(w)[z] = w[z + 1]
    BY <1>1
  <1>5. y \in Seq(Bits) /\ Len(y) = n /\ (\A z \in 1..(n - 1) : y[z] = w[z + 1]) /\ y[n] = S[k + n + 1]
    <2> DEFINE u == Tail(w)
    <2>1. u \in Seq(Bits) /\ Len(u) = n - 1 /\ \A z \in 1..(n - 1) : u[z] = w[z + 1]
      BY <1>4
    <2> HIDE DEF u
    <2>2. LET e == S[k + n + 1] IN Append(u, e) \in Seq(Bits) /\ Len(Append(u, e)) = n
          /\ (\A z \in 1..(n - 1) : Append(u, e)[z] = u[z]) /\ Append(u, e)[n] = e
      BY <1>3, <2>1
    <2> QED BY <2>1, <2>2 DEF u
  <1> HIDE DEF y
  <1>6. \A z \in 1..n : y[z] = x[z]
    <2> TAKE z \in 1..n
    <2>1. CASE z = n
      <3>1. (k + 1) + n = k + n + 1 /\ n \in 1..n
        OBVIOUS
      <3> QED BY <1>2, <1>5, <2>1, <3>1
    <2>2. CASE z # n
      <3>1. z \in 1..(n - 1) /\ z + 1 \in 1..n /\ k + (z + 1) = (k + 1) + z
        BY <2>2
      <3> QED BY ZenonT(60), <1>1, <1>2, <1>5, <3>1
    <2> QED BY <2>1, <2>2
  <1>7. y = x
    BY <1>2, <1>5, <1>6, SeqEqual
  <1>8. Head(w) = S[k + 1]
    BY <1>1, <1>4
  <1> QED BY <1>7, <1>8 DEF w, x, y

LEMMA OutMoves ==
  ASSUME NEW S \in Seq(Bits), NEW j \in Nat, NEW k \in Nat, j <= k, k + 1 <= Len(S)
  PROVE  Append(SubSeq(S, j + 1, k), S[k + 1]) = SubSeq(S, j + 1, k + 1)
  <1> DEFINE w == SubSeq(S, j + 1, k)
             x == SubSeq(S, j + 1, k + 1)
             e == S[k + 1]
             y == Append(w, e)
  <1>0. Len(S) \in Nat
    BY LenProperties
  <1>1. w \in Seq(Bits) /\ Len(w) = k - j /\ \A z \in 1..(k - j) : w[z] = S[j + z]
    <2>1. k <= Len(S)
      BY <1>0
    <2> QED BY <2>1, PartOf
  <1>2. x \in Seq(Bits) /\ Len(x) = (k + 1) - j /\ \A z \in 1..((k + 1) - j) : x[z] = S[j + z]
    <2>1. k + 1 \in Nat /\ j <= k + 1
      OBVIOUS
    <2> QED BY <2>1, PartOf
  <1>3. e \in Bits
    <2>1. k + 1 \in 1..Len(S)
      BY <1>0
    <2> QED BY <2>1
  <1> HIDE DEF w, x, e
  <1>5. y \in Seq(Bits) /\ Len(y) = (k - j) + 1 /\ (\A z \in 1..(k - j) : y[z] = w[z]) /\ y[(k - j) + 1] = e
    BY <1>1, <1>3
  <1> HIDE DEF y
  <1>6. \A z \in 1..((k - j) + 1) : y[z] = x[z]
    <2> TAKE z \in 1..((k - j) + 1)
    <2>0. z \in 1..((k + 1) - j)
      OBVIOUS
    <2>1. CASE z = (k - j) + 1
      <3>1. j + z = k + 1
        BY <2>1
      <3> QED BY <1>2, <1>5, <2>0, <2>1, <3>1 DEF e
    <2>2. CASE z # (k - j) + 1
      <3>1. z \in 1..(k - j)
        BY <2>2
      <3> QED BY <1>1, <1>2, <1>5, <2>0, <3>1
    <2> QED BY <2>1, <2>2
  <1>7. Len(y) = Len(x)
    BY <1>2, <1>5
  <1>8. y = x
    BY <1>2, <1>5, <1>6, <1>7, SeqEqual
  <1> QED BY <1>8 DEF w, x, y, e

LEMMA ShiftOne ==
  ASSUME NEW S \in Seq(Bits), NEW n \in Nat \ {0}, NEW j \in Nat, NEW k \in Nat, j <= k,
         k + n + 1 <= Len(S), NEW tap \in {"Shift-DR", "Shift-IR"}, NEW m,
         NEW i, NEW d, NEW a, NEW v
  PROVE  Clock(Sh(tap, S, n, j, k, i, d, a, v), Pin(m, S[k + n + 1]))
            = Sh(TapNext(tap, m), S, n, j, k + 1, i, d, a, v)
  <1> DEFINE w == SubSeq(S, k + 1, k + n)
             o == SubSeq(S, j + 1, k)
             e == S[k + n + 1]
             t == Jt(tap, w, o, i, d, a, v)
             p == Pin(m, e)
             x == SubSeq(S, (k + 1) + 1, (k + 1) + n)
             y == SubSeq(S, j + 1, k + 1)
  <1>1. Append(Tail(w), e) = x /\ Head(w) = S[k + 1]
    BY WindowMoves
  <1>2. Append(o, S[k + 1]) = y
    <2>1. k + 1 <= Len(S)
      BY LenProperties
    <2> QED BY <2>1, OutMoves
  <1> HIDE DEF w, o, e, x, y
  <1>3. p.tms = m /\ p.tdi = e
    BY DEF Pin
  <1>4. t.tap = tap /\ t.sr = w /\ t.tdo = o
    BY JtFields
  <1> HIDE DEF p
  <1>5. Clock(t, p) = WithTdo(WithSr(WithTap(t, TapNext(tap, m)), x), y)
    <2> HIDE DEF t
    <2> QED BY <1>1, <1>2, <1>3, <1>4, ClockCases
  <1>6. WithTap(t, TapNext(tap, m)) = Jt(TapNext(tap, m), w, o, i, d, a, v)
    BY JtFields
  <1>7. Clock(t, p) = Jt(TapNext(tap, m), x, y, i, d, a, v)
    <2> HIDE DEF t
    <2> DEFINE q == TapNext(tap, m)
    <2> HIDE DEF q
    <2> QED BY <1>5, <1>6, JtFields DEF q
  <1> QED BY <1>7 DEF t, p, w, o, e, x, y, Sh

\* Clocks that shift the bits of S behind place x in.
Pins == [tms : Bits, tdi : Bits]
Runs(cs, m, S, x) == cs \in Seq(Pins) /\ Len(cs) = m /\ \A z \in 1..m : cs[z] = Pin(0, S[x + z])

LEMMA ShiftRun ==
  ASSUME NEW S \in Seq(Bits), NEW n \in Nat \ {0}, NEW j \in Nat, NEW k \in Nat, j <= k,
         NEW m \in Nat, k + n + m <= Len(S), NEW tap \in {"Shift-DR", "Shift-IR"},
         NEW i, NEW d, NEW a, NEW v, NEW cs, Runs(cs, m, S, k + n)
  PROVE  After(Sh(tap, S, n, j, k, i, d, a, v), cs) = Sh(tap, S, n, j, k + m, i, d, a, v)
  <1> DEFINE b == Sh(tap, S, n, j, k, i, d, a, v)
             f == Path(b, cs)
             T == {x \in Nat : x <= m => f[x] = Sh(tap, S, n, j, k + x, i, d, a, v)}
  <1>1. cs \in Seq(Pins) /\ Len(cs) = m /\ \A z \in 1..m : cs[z] = Pin(0, S[(k + n) + z])
    BY DEF Runs
  <1>2. /\ f[0] = b /\ \A z \in 1..m : f[z] = Clock(f[z - 1], cs[z])
        /\ After(b, cs) = f[m]
    <2> HIDE DEF b
    <2>1. f[0] = b /\ (\A z \in 1..Len(cs) : f[z] = Clock(f[z - 1], cs[z])) /\ After(b, cs) = f[Len(cs)]
      <3>1. cs \in Seq(Pins)
        BY <1>1
      <3> QED BY ONLY <3>1, PathIs
    <2> HIDE DEF f
    <2> QED BY <1>1, <2>1
  <1> HIDE DEF f
  <1>3. 0 \in T
    BY <1>2
  <1>4. ASSUME NEW x \in T PROVE x + 1 \in T
    <2> SUFFICES ASSUME x + 1 <= m PROVE f[x + 1] = Sh(tap, S, n, j, k + (x + 1), i, d, a, v)
      OBVIOUS
    <2> DEFINE g == Sh(tap, S, n, j, k + x, i, d, a, v)
    <2>1. x + 1 \in 1..m /\ (x + 1) - 1 = x /\ x <= m /\ f[x] = g
      OBVIOUS
    <2>2. cs[x + 1] = Pin(0, S[(k + x) + n + 1])
      <3>1. (k + n) + (x + 1) = (k + x) + n + 1
        OBVIOUS
      <3> QED BY <1>1, <2>1, <3>1
    <2>3. Clock(g, Pin(0, S[(k + x) + n + 1])) = Sh(TapNext(tap, 0), S, n, j, (k + x) + 1, i, d, a, v)
      <3>1. k + x \in Nat /\ j <= k + x /\ (k + x) + n + 1 <= Len(S)
        BY LenProperties
      <3> QED BY <3>1, ShiftOne
    <2>4. TapNext(tap, 0) = tap
      BY DEF TapNext
    <2>5. (k + x) + 1 = k + (x + 1)
      OBVIOUS
    <2> HIDE DEF g
    <2>6. f[x + 1] = Clock(g, Pin(0, S[(k + x) + n + 1]))
      BY <1>2, <2>1, <2>2
    <2> QED BY <2>3, <2>4, <2>5, <2>6
  <1>5. T \in SUBSET Nat
    OBVIOUS
  <1> HIDE DEF T
  <1>6. T = Nat
    BY ONLY <1>3, <1>4, <1>5, Induct
  <1>7. m \in T
    BY <1>6
  <1>8. f[m] = Sh(tap, S, n, j, k + m, i, d, a, v)
    BY <1>7 DEF T
  <1> QED BY <1>2, <1>8

LEMMA PinsAre ==
  ASSUME NEW m \in Bits, NEW b \in Bits
  PROVE  Pin(m, b) \in Pins
  BY DEF Pin, Pins

LEMMA ClocksAre ==
  ASSUME NEW m \in Bits, NEW b \in Bits, NEW n \in Nat
  PROVE  /\ Clocks(m, b, n) \in Seq(Pins) /\ Len(Clocks(m, b, n)) = n
         /\ \A z \in 1..n : Clocks(m, b, n)[z] = Pin(m, b)
  <1>1. Clocks(m, b, n) = [k \in 1..n |-> Pin(m, b)]
    BY DEF Clocks, Pin
  <1>2. Pin(m, b) \in Pins
    BY PinsAre
  <1> QED BY <1>1, <1>2

LEMMA ShiftAre ==
  ASSUME NEW m \in Bits, NEW bits \in Seq(Bits)
  PROVE  /\ Shift(bits, m) \in Seq(Pins) /\ Len(Shift(bits, m)) = Len(bits)
         /\ \A z \in 1..Len(bits) : Shift(bits, m)[z] = Pin(m, bits[z])
  <1>1. Shift(bits, m) = [k \in 1..Len(bits) |-> Pin(m, bits[k])]
    BY DEF Shift, Pin
  <1>2. \A k \in 1..Len(bits) : Pin(m, bits[k]) \in Pins
    BY PinsAre
  <1>3. Len(bits) \in Nat
    BY LenProperties
  <1> QED BY <1>1, <1>2, <1>3

LEMMA ClocksRun ==
  ASSUME NEW S, NEW x \in Nat, NEW m \in Nat, \A z \in 1..m : S[x + z] = 1
  PROVE  Runs(Clocks(0, 1, m), m, S, x)
  <1>1. 0 \in Bits /\ 1 \in Bits
    BY DEF Bits
  <1>2. /\ Clocks(0, 1, m) \in Seq(Pins) /\ Len(Clocks(0, 1, m)) = m
        /\ \A z \in 1..m : Clocks(0, 1, m)[z] = Pin(0, 1)
    BY <1>1, ClocksAre
  <1>3. \A z \in 1..m : Clocks(0, 1, m)[z] = Pin(0, S[x + z])
    BY <1>2
  <1> QED BY <1>2, <1>3 DEF Runs

LEMMA BitsRun ==
  ASSUME NEW S, NEW x \in Nat, NEW bits \in Seq(Bits), \A z \in 1..Len(bits) : S[x + z] = bits[z]
  PROVE  Runs(Shift(bits, 0), Len(bits), S, x)
  <1>1. 0 \in Bits
    BY DEF Bits
  <1> QED BY <1>1, ShiftAre DEF Runs

LEMMA ClockOnce ==
  ASSUME NEW t, NEW m \in Bits, NEW b \in Bits
  PROVE  After(t, Clocks(m, b, 1)) = Clock(t, Pin(m, b))
  <1> DEFINE cs == Clocks(m, b, 1)
  <1>1. cs \in Seq(Pins) /\ Len(cs) = 1 /\ cs[1] = Pin(m, b)
    <2>1. 1 \in Nat /\ 1 \in 1..1
      OBVIOUS
    <2>2. cs \in Seq(Pins) /\ Len(cs) = 1 /\ \A z \in 1..1 : cs[z] = Pin(m, b)
      BY ONLY <2>1, m \in Bits, b \in Bits, ClocksAre
    <2> QED BY <2>1, <2>2
  <1> HIDE DEF cs
  <1>2. /\ \A k \in 1..1 : Path(t, cs)[k] = Clock(Path(t, cs)[k - 1], cs[k])
        /\ Path(t, cs)[0] = t /\ After(t, cs) = Path(t, cs)[1]
    BY <1>1, PathIs
  <1>3. Path(t, cs)[1] = Clock(Path(t, cs)[0], cs[1])
    BY <1>2
  <1>4. After(t, cs) = Clock(t, Pin(m, b))
    BY <1>1, <1>2, <1>3
  <1> QED BY <1>4 DEF cs

LEMMA ClockTwice ==
  ASSUME NEW t, NEW m \in Bits, NEW b \in Bits
  PROVE  After(t, Clocks(m, b, 2)) = Clock(Clock(t, Pin(m, b)), Pin(m, b))
  <1> DEFINE cs == Clocks(m, b, 2)
  <1>1. cs \in Seq(Pins) /\ Len(cs) = 2 /\ cs[1] = Pin(m, b) /\ cs[2] = Pin(m, b)
    <2>1. 2 \in Nat /\ 1 \in 1..2 /\ 2 \in 1..2
      OBVIOUS
    <2>2. cs \in Seq(Pins) /\ Len(cs) = 2 /\ \A z \in 1..2 : cs[z] = Pin(m, b)
      BY ONLY <2>1, m \in Bits, b \in Bits, ClocksAre
    <2> QED BY <2>1, <2>2
  <1> HIDE DEF cs
  <1>2. /\ \A k \in 1..2 : Path(t, cs)[k] = Clock(Path(t, cs)[k - 1], cs[k])
        /\ Path(t, cs)[0] = t /\ After(t, cs) = Path(t, cs)[2]
    BY <1>1, PathIs
  <1>3. Path(t, cs)[1] = Clock(Path(t, cs)[0], cs[1]) /\ Path(t, cs)[2] = Clock(Path(t, cs)[1], cs[2])
    BY <1>2
  <1>4. After(t, cs) = Clock(Clock(t, Pin(m, b)), Pin(m, b))
    BY <1>1, <1>2, <1>3
  <1> QED BY <1>4 DEF cs

LEMMA ShiftOnce ==
  ASSUME NEW t, NEW m \in Bits, NEW bits \in Seq(Bits), Len(bits) = 1
  PROVE  After(t, Shift(bits, m)) = Clock(t, Pin(m, bits[1]))
  <1> DEFINE cs == Shift(bits, m)
  <1>1. cs \in Seq(Pins) /\ Len(cs) = 1 /\ cs[1] = Pin(m, bits[1])
    BY ShiftAre
  <1> HIDE DEF cs
  <1>2. /\ \A k \in 1..1 : Path(t, cs)[k] = Clock(Path(t, cs)[k - 1], cs[k])
        /\ Path(t, cs)[0] = t /\ After(t, cs) = Path(t, cs)[1]
    BY <1>1, PathIs
  <1>3. Path(t, cs)[1] = Clock(Path(t, cs)[0], cs[1])
    BY <1>2
  <1>4. After(t, cs) = Clock(t, Pin(m, bits[1]))
    BY <1>1, <1>2, <1>3
  <1> QED BY <1>4 DEF cs

\* One sequence of clocks behind another.
LEMMA Then ==
  ASSUME NEW t, NEW s \in Seq(Pins), NEW u \in Seq(Pins)
  PROVE  After(t, Cat(s, u)) = After(After(t, s), u) /\ Cat(s, u) \in Seq(Pins)
  <1>1. Cat(s, u) \in Seq(Pins)
    BY DEF Cat
  <1>2. After(t, s \o u) = After(After(t, s), u)
    BY AfterBoth
  <1> QED BY <1>1, <1>2 DEF Cat

\* A clock in a state in which nothing but the state changes.
LEMMA Passes ==
  ASSUME NEW tap, tap \notin {"Shift-DR", "Shift-IR", "Capture-IR", "Capture-DR", "Update-IR", "Update-DR"},
         NEW s, NEW o, NEW i, NEW d, NEW a, NEW v, NEW m, NEW b
  PROVE  Clock(Jt(tap, s, o, i, d, a, v), Pin(m, b)) = Jt(TapNext(tap, m), s, o, i, d, a, v)
  <1> DEFINE t == Jt(tap, s, o, i, d, a, v)
             p == Pin(m, b)
  <1>1. p.tms = m
    BY DEF Pin
  <1>2. t.tap = tap /\ \A x : WithTap(t, x) = Jt(x, s, o, i, d, a, v)
    BY JtFields
  <1> HIDE DEF t, p
  <1>3. Clock(t, p) = WithTap(t, TapNext(t.tap, p.tms))
    BY <1>2, ClockCases
  <1>4. Clock(t, p) = Jt(TapNext(tap, m), s, o, i, d, a, v)
    BY <1>1, <1>2, <1>3
  <1> QED BY <1>4 DEF t, p
-----------------------------------------------------------------------------
(* The scan of the instruction registers. *)

\* The instruction registers of a chain are as long as its devices have them.
IrsOk(i) == /\ i \in Seq(Seq(Bits)) /\ Len(i) = Len(lens)
            /\ \A e \in 1..Len(lens) : Len(i[e]) = lens[e]
LensOk == lens \in Seq(Nat) /\ Len(lens) > 0 /\ \A e \in 1..Len(lens) : lens[e] > 0
AllBits == Total(lens, Len(lens))

LEMMA AllBitsAre ==
  ASSUME LensOk
  PROVE  AllBits \in Nat \ {0} /\ Len(lens) \in Nat /\ \A e \in 0..Len(lens) : Total(lens, e) \in 0..AllBits
  <1>1. lens \in Seq(Nat) /\ Len(lens) \in Nat /\ Len(lens) > 0 /\ lens[1] > 0 /\ lens[1] \in Nat
    BY DEF LensOk
  <1>2. \A e \in 0..Len(lens) : Total(lens, e) \in Nat
    BY <1>1, TotalNat
  <1>3. ASSUME NEW e \in 0..Len(lens) PROVE Total(lens, e) <= AllBits
    <2>1. Len(lens) \in e..Len(lens)
      BY <1>1
    <2> QED BY <1>1, <2>1, TotalGrows DEF AllBits
  <1>4. AllBits \in Nat
    BY <1>1, <1>2 DEF AllBits
  <1>5. Total(lens, 1) = lens[1]
    <2>1. 1 \in 1..Len(lens) /\ 1 - 1 = 0
      BY <1>1
    <2>2. Total(lens, 0) = 0 /\ Total(lens, 1) = Total(lens, 0) + lens[1]
      BY <1>1, <2>1, TotalIs
    <2> QED BY <1>1, <2>2
  <1>6. AllBits > 0
    <2>1. 1 \in 0..Len(lens)
      BY <1>1
    <2> QED BY <1>1, <1>3, <1>4, <1>5, <2>1
  <1> QED BY <1>1, <1>2, <1>3, <1>4, <1>6

LEMMA BypassIs ==
  ASSUME NEW n \in Nat
  PROVE  Bypass(n) \in Seq(Bits) /\ Bypass(n) \in Seq({1}) /\ Len(Bypass(n)) = n
     /\ \A z \in 1..n : Bypass(n)[z] = 1
  BY DEF Bypass, Bits

LEMMA IrLensAre ==
  ASSUME LensOk, NEW i, IrsOk(i)
  PROVE  [e \in DOMAIN i |-> Len(i[e])] = lens /\ DOMAIN i = 1..Len(lens)
  <1>1. DOMAIN i = 1..Len(lens) /\ lens = [e \in 1..Len(lens) |-> lens[e]]
    BY DEF IrsOk, LensOk
  <1> QED BY <1>1 DEF IrsOk

\* Every device puts ones into its instruction register.
LEMMA IrCapture ==
  ASSUME LensOk, NEW i, IrsOk(i)
  PROVE  FlattenSeq([e \in DOMAIN i |-> Bypass(Len(i[e]))]) = Bypass(AllBits)
  <1> DEFINE ss == [e \in DOMAIN i |-> Bypass(Len(i[e]))]
             j == FlattenSeq(ss)
  <1>1. DOMAIN i = 1..Len(lens) /\ Len(lens) \in Nat /\ Len(lens) > 0 /\ lens \in Seq(Nat)
    BY IrLensAre DEF LensOk
  <1>2. \A e \in 1..Len(lens) : lens[e] \in Nat /\ Len(i[e]) = lens[e]
    BY DEF IrsOk, LensOk
  <1>3. \A e \in 1..Len(lens) : Bypass(Len(i[e])) \in Seq({1}) /\ Len(Bypass(Len(i[e]))) = lens[e]
    BY <1>2, BypassIs
  <1>4. ss \in Seq(Seq({1})) /\ Len(ss) = Len(lens) /\ \A e \in 1..Len(lens) : Len(ss[e]) = lens[e]
    BY <1>1, <1>3
  <1> HIDE DEF ss
  <1>5. Sizes(ss) = lens
    <2>1. Sizes(ss) \in Seq(Nat) /\ Len(Sizes(ss)) = Len(ss) /\ \A e \in 1..Len(ss) : Sizes(ss)[e] = Len(ss[e])
      <3>1. ss \in Seq(Seq({1}))
        BY <1>4
      <3> QED BY ONLY <3>1, SizesAre
    <2> HIDE DEF Sizes
    <2>2. \A e \in 1..Len(Sizes(ss)) : Sizes(ss)[e] = lens[e]
      BY <1>4, <2>1
    <2> QED BY <1>1, <1>4, <2>1, <2>2, SeqEqual
  <1>6. IsJoin(j, ss, Len(ss), {1})
    <2>1. ss \in Seq(Seq({1})) /\ Len(ss) > 0
      BY <1>1, <1>4
    <2> QED BY <2>1, FlattenIs
  <1>7. j \in Seq({1}) /\ Len(j) = AllBits
    BY <1>4, <1>5, <1>6 DEF IsJoin, AllBits
  <1>8. AllBits \in Nat
    BY AllBitsAre
  <1> HIDE DEF j
  <1>9. Bypass(AllBits) \in Seq({1}) /\ Len(Bypass(AllBits)) = AllBits
    BY <1>8, BypassIs
  <1>10. \A z \in 1..Len(j) : j[z] = Bypass(AllBits)[z]
    <2> DEFINE q == Bypass(AllBits)
    <2> HIDE DEF q
    <2>1. \A z \in 1..Len(j) : j[z] \in {1} /\ q[z] \in {1}
      BY <1>7, <1>9 DEF q
    <2> QED BY <2>1 DEF q
  <1>11. j = Bypass(AllBits)
    BY <1>7, <1>9, <1>10, SeqEqual
  <1> QED BY <1>11 DEF j, ss

LEMMA CaptureIr ==
  ASSUME LensOk, NEW i, IrsOk(i), NEW s, NEW o, NEW d, NEW a, NEW v, NEW b
  PROVE  Clock(Jt("Capture-IR", s, o, i, d, a, v), Pin(0, b)) = Jt("Shift-IR", Bypass(AllBits), o, i, d, a, v)
  <1> DEFINE t == Jt("Capture-IR", s, o, i, d, a, v)
             p == Pin(0, b)
  <1>1. p.tms = 0
    BY DEF Pin
  <1>2. t.tap = "Capture-IR" /\ t.irs = i /\ \A x : WithTap(t, x) = Jt(x, s, o, i, d, a, v)
    BY JtFields
  <1>3. \A x : WithSr(Jt("Shift-IR", s, o, i, d, a, v), x) = Jt("Shift-IR", x, o, i, d, a, v)
    BY JtFields
  <1> HIDE DEF t, p
  <1> DEFINE f == FlattenSeq([e \in DOMAIN i |-> Bypass(Len(i[e]))])
             g == FlattenSeq([e \in DOMAIN t.irs |-> Bypass(Len(t.irs[e]))])
  <1>4. f = g /\ f = Bypass(AllBits)
    BY <1>2, IrCapture
  <1>5. Clock(t, p) = WithSr(WithTap(t, TapNext(t.tap, p.tms)), g)
    BY <1>2, ClockCases
  <1> HIDE DEF f, g
  <1>6. TapNext("Capture-IR", 0) = "Shift-IR"
    BY DEF TapNext
  <1>7. Clock(t, p) = Jt("Shift-IR", Bypass(AllBits), o, i, d, a, v)
    BY <1>1, <1>2, <1>3, <1>4, <1>5, <1>6
  <1> QED BY <1>7 DEF t, p

\* What a scan of W puts into the instruction registers.
Loaded(W) == [e \in 1..Len(lens) |-> Segment(W, lens, e)]

LEMMA UpdateIr ==
  ASSUME LensOk, NEW i, IrsOk(i), NEW W, NEW o, NEW d, NEW a, NEW v, NEW b
  PROVE  Clock(Jt("Update-IR", W, o, i, d, a, v), Pin(0, b)) = Jt("Idle", W, o, Loaded(W), d, a, v)
  <1> DEFINE t == Jt("Update-IR", W, o, i, d, a, v)
             p == Pin(0, b)
  <1>1. p.tms = 0
    BY DEF Pin
  <1>2. t.tap = "Update-IR" /\ t.irs = i /\ t.sr = W /\ \A x : WithTap(t, x) = Jt(x, W, o, i, d, a, v)
    BY JtFields
  <1>3. \A x : WithIrs(Jt("Idle", W, o, i, d, a, v), x) = Jt("Idle", W, o, x, d, a, v)
    BY JtFields
  <1> HIDE DEF t, p
  <1> DEFINE g == [e \in DOMAIN t.irs |-> Segment(t.sr, IrLens(t), e)]
  <1>4. g = Loaded(W)
    <2>1. IrLens(t) = lens /\ DOMAIN i = 1..Len(lens)
      BY <1>2, IrLensAre DEF IrLens
    <2> QED BY <1>2, <2>1 DEF Loaded
  <1>5. Clock(t, p) = WithIrs(WithTap(t, TapNext(t.tap, p.tms)), g)
    BY <1>2, ClockCases
  <1> HIDE DEF g
  <1>6. TapNext("Update-IR", 0) = "Idle"
    BY DEF TapNext
  <1>7. Clock(t, p) = Jt("Idle", W, o, Loaded(W), d, a, v)
    BY <1>1, <1>2, <1>3, <1>4, <1>5, <1>6
  <1> QED BY <1>7 DEF t, p

\* The bits of a scan of the instruction registers: what they captured, ones, ir and ones.
IrStream(ir, B, A) == [z \in 1..(AllBits + B + 4 + A) |->
                          IF z \in (AllBits + B + 1)..(AllBits + B + 4) THEN ir[z - (AllBits + B)] ELSE 1]
IrOut(ir, B, A) == SubSeq(IrStream(ir, B, A), 1, B + 4 + A)
IrIn(ir, B, A) == SubSeq(IrStream(ir, B, A), (B + 4 + A) + 1, (B + 4 + A) + AllBits)

LEMMA IrStreamIs ==
  ASSUME LensOk, NEW ir \in [1..4 -> Bits], NEW B \in Nat, NEW A \in Nat
  PROVE  LET S == IrStream(ir, B, A)
         IN /\ S \in Seq(Bits) /\ Len(S) = AllBits + B + 4 + A
            /\ \A z \in 1..(AllBits + B) : S[z] = 1
            /\ \A z \in 1..4 : S[(AllBits + B) + z] = ir[z]
            /\ \A z \in 1..A : S[(AllBits + B + 4) + z] = 1
  <1>1. AllBits \in Nat
    BY AllBitsAre
  <1>2. \A z \in 1..4 : ir[z] \in Bits
    OBVIOUS
  <1> DEFINE n == AllBits
             S == [z \in 1..(n + B + 4 + A) |-> IF z \in (n + B + 1)..(n + B + 4) THEN ir[z - (n + B)] ELSE 1]
  <1> HIDE DEF n
  <1>3. \A z \in 1..(n + B + 4 + A) : (z \in (n + B + 1)..(n + B + 4) => z - (n + B) \in 1..4)
    BY <1>1 DEF n
  <1>4. 1 \in Bits
    BY DEF Bits
  <1>5. \A z \in 1..(n + B + 4 + A) : (IF z \in (n + B + 1)..(n + B + 4) THEN ir[z - (n + B)] ELSE 1) \in Bits
    BY <1>2, <1>3, <1>4
  <1>6. n + B + 4 + A \in Nat /\ n \in Nat
    BY <1>1 DEF n
  <1>7. S \in Seq(Bits) /\ Len(S) = n + B + 4 + A
    BY <1>5, <1>6
  <1>8. \A z \in 1..(n + B) : S[z] = 1
    BY <1>6
  <1>9. \A z \in 1..4 : S[(n + B) + z] = ir[z]
    <2> TAKE z \in 1..4
    <2>1. (n + B) + z \in 1..(n + B + 4 + A) /\ (n + B) + z \in (n + B + 1)..(n + B + 4)
             /\ ((n + B) + z) - (n + B) = z
      BY <1>6
    <2> QED BY <2>1
  <1>10. \A z \in 1..A : S[(n + B + 4) + z] = 1
    <2> TAKE z \in 1..A
    <2>1. (n + B + 4) + z \in 1..(n + B + 4 + A) /\ (n + B + 4) + z \notin (n + B + 1)..(n + B + 4)
      BY <1>6
    <2> QED BY <2>1
  <1>11. S = IrStream(ir, B, A)
    BY DEF IrStream, n
  <1> HIDE DEF S
  <1> QED BY <1>7, <1>8, <1>9, <1>10, <1>11 DEF n

\* The last clock of a scan.
LEMMA Leaves ==
  ASSUME NEW S \in Seq(Bits), NEW n \in Nat \ {0}, NEW j \in Nat, NEW k \in Nat, j <= k,
         k + n + 1 <= Len(S), NEW i, NEW d, NEW a, NEW v
  PROVE  /\ S[k + n + 1] = 1 =>
              After(Sh("Shift-IR", S, n, j, k, i, d, a, v), Clocks(1, 1, 1))
                    = Sh("Exit1-IR", S, n, j, k + 1, i, d, a, v)
         /\ S[k + n + 1] = 1 =>
              After(Sh("Shift-DR", S, n, j, k, i, d, a, v), Clocks(1, 1, 1))
                    = Sh("Exit1-DR", S, n, j, k + 1, i, d, a, v)
         /\ \A bits \in Seq(Bits) : Len(bits) = 1 /\ bits[1] = S[k + n + 1] =>
              /\ After(Sh("Shift-IR", S, n, j, k, i, d, a, v), Shift(bits, 1))
                    = Sh("Exit1-IR", S, n, j, k + 1, i, d, a, v)
              /\ After(Sh("Shift-DR", S, n, j, k, i, d, a, v), Shift(bits, 1))
                    = Sh("Exit1-DR", S, n, j, k + 1, i, d, a, v)
  <1> DEFINE I == Sh("Shift-IR", S, n, j, k, i, d, a, v)
             D == Sh("Shift-DR", S, n, j, k, i, d, a, v)
             P == Pin(1, S[k + n + 1])
  <1>1. TapNext("Shift-IR", 1) = "Exit1-IR" /\ TapNext("Shift-DR", 1) = "Exit1-DR"
    BY DEF TapNext
  <1>2. Clock(I, P) = Sh("Exit1-IR", S, n, j, k + 1, i, d, a, v)
    <2>1. "Shift-IR" \in {"Shift-DR", "Shift-IR"}
      OBVIOUS
    <2>2. Clock(I, P) = Sh(TapNext("Shift-IR", 1), S, n, j, k + 1, i, d, a, v)
      BY <2>1, ShiftOne
    <2> QED BY <1>1, <2>2
  <1>3. Clock(D, P) = Sh("Exit1-DR", S, n, j, k + 1, i, d, a, v)
    <2>1. "Shift-DR" \in {"Shift-DR", "Shift-IR"}
      OBVIOUS
    <2>2. Clock(D, P) = Sh(TapNext("Shift-DR", 1), S, n, j, k + 1, i, d, a, v)
      BY <2>1, ShiftOne
    <2> QED BY <1>1, <2>2
  <1> HIDE DEF I, D
  <1>4. 1 \in Bits
    BY DEF Bits
  <1>5. S[k + n + 1] = 1 => After(I, Clocks(1, 1, 1)) = Clock(I, P) /\ After(D, Clocks(1, 1, 1)) = Clock(D, P)
    BY <1>4, ClockOnce
  <1>6. ASSUME NEW bits \in Seq(Bits), Len(bits) = 1, bits[1] = S[k + n + 1]
        PROVE  After(I, Shift(bits, 1)) = Clock(I, P) /\ After(D, Shift(bits, 1)) = Clock(D, P)
    BY <1>4, <1>6, ShiftOnce
  <1> HIDE DEF P
  <1> QED BY <1>2, <1>3, <1>5, <1>6 DEF I, D

\* Idle to Shift-IR.
LEMMA IrHead ==
  ASSUME LensOk, NEW i, IrsOk(i), NEW s, NEW o, NEW d, NEW a, NEW v
  PROVE  After(After(Jt("Idle", s, o, i, d, a, v), Clocks(1, 1, 2)), Clocks(0, 1, 2))
            = Jt("Shift-IR", Bypass(AllBits), o, i, d, a, v)
  <1>1. 0 \in Bits /\ 1 \in Bits
    BY DEF Bits
  <1>2. /\ TapNext("Idle", 1) = "Select-DR" /\ TapNext("Select-DR", 1) = "Select-IR"
        /\ TapNext("Select-IR", 0) = "Capture-IR"
    BY DEF TapNext
  <1>3. Clock(Jt("Idle", s, o, i, d, a, v), Pin(1, 1)) = Jt("Select-DR", s, o, i, d, a, v)
    <2>1. Clock(Jt("Idle", s, o, i, d, a, v), Pin(1, 1)) = Jt(TapNext("Idle", 1), s, o, i, d, a, v)
      BY Passes
    <2> QED BY <1>2, <2>1
  <1>4. Clock(Jt("Select-DR", s, o, i, d, a, v), Pin(1, 1)) = Jt("Select-IR", s, o, i, d, a, v)
    <2>1. Clock(Jt("Select-DR", s, o, i, d, a, v), Pin(1, 1)) = Jt(TapNext("Select-DR", 1), s, o, i, d, a, v)
      BY Passes
    <2> QED BY <1>2, <2>1
  <1>5. Clock(Jt("Select-IR", s, o, i, d, a, v), Pin(0, 1)) = Jt("Capture-IR", s, o, i, d, a, v)
    <2>1. Clock(Jt("Select-IR", s, o, i, d, a, v), Pin(0, 1)) = Jt(TapNext("Select-IR", 0), s, o, i, d, a, v)
      BY Passes
    <2> QED BY <1>2, <2>1
  <1>6. Clock(Jt("Capture-IR", s, o, i, d, a, v), Pin(0, 1)) = Jt("Shift-IR", Bypass(AllBits), o, i, d, a, v)
    BY CaptureIr
  <1>7. After(Jt("Idle", s, o, i, d, a, v), Clocks(1, 1, 2)) = Jt("Select-IR", s, o, i, d, a, v)
    BY <1>1, <1>3, <1>4, ClockTwice
  <1>8. After(Jt("Select-IR", s, o, i, d, a, v), Clocks(0, 1, 2))
              = Jt("Shift-IR", Bypass(AllBits), o, i, d, a, v)
    BY <1>1, <1>5, <1>6, ClockTwice
  <1> QED BY <1>7, <1>8

\* Exit1-IR to Idle.
LEMMA IrTail ==
  ASSUME LensOk, NEW i, IrsOk(i), NEW s, NEW o, NEW d, NEW a, NEW v
  PROVE  After(After(Jt("Exit1-IR", s, o, i, d, a, v), Clocks(1, 1, 1)), Clocks(0, 1, 1))
            = Jt("Idle", s, o, Loaded(s), d, a, v)
  <1>1. 0 \in Bits /\ 1 \in Bits
    BY DEF Bits
  <1>2. TapNext("Exit1-IR", 1) = "Update-IR"
    BY DEF TapNext
  <1>3. Clock(Jt("Exit1-IR", s, o, i, d, a, v), Pin(1, 1)) = Jt("Update-IR", s, o, i, d, a, v)
    <2>1. Clock(Jt("Exit1-IR", s, o, i, d, a, v), Pin(1, 1)) = Jt(TapNext("Exit1-IR", 1), s, o, i, d, a, v)
      BY Passes
    <2> QED BY <1>2, <2>1
  <1>4. After(Jt("Exit1-IR", s, o, i, d, a, v), Clocks(1, 1, 1)) = Jt("Update-IR", s, o, i, d, a, v)
    BY <1>1, <1>3, ClockOnce
  <1>5. Clock(Jt("Update-IR", s, o, i, d, a, v), Pin(0, 1)) = Jt("Idle", s, o, Loaded(s), d, a, v)
    BY UpdateIr
  <1>6. After(Jt("Update-IR", s, o, i, d, a, v), Clocks(0, 1, 1)) = Jt("Idle", s, o, Loaded(s), d, a, v)
    BY <1>1, <1>5, ClockOnce
  <1> QED BY <1>4, <1>6

LEMMA ThenThen ==
  ASSUME NEW t, NEW s \in Seq(Pins), NEW u \in Seq(Pins), NEW w \in Seq(Pins)
  PROVE  After(t, Cat(Cat(s, u), w)) = After(After(After(t, s), u), w) /\ Cat(Cat(s, u), w) \in Seq(Pins)
  <1>1. Cat(s, u) \in Seq(Pins) /\ After(t, Cat(s, u)) = After(After(t, s), u)
    BY Then
  <1> DEFINE c == Cat(s, u)
  <1> HIDE DEF c
  <1>2. Cat(c, w) \in Seq(Pins) /\ After(t, Cat(c, w)) = After(After(t, c), w)
    BY <1>1, Then DEF c
  <1> QED BY <1>1, <1>2 DEF c

LEMMA Regroup ==
  ASSUME NEW e \in Seq(Pins), NEW x \in Seq(Pins), NEW y \in Seq(Pins), NEW z \in Seq(Pins)
  PROVE  Cat(Cat(Cat(e, x), y), z) = Cat(e, Cat(Cat(x, y), z))
  <1>1. Cat(x, y) \in Seq(Pins)
    BY DEF Cat
  <1>2. Cat(Cat(e, x), y) = Cat(e, Cat(x, y))
    BY ConcatAssociative DEF Cat
  <1> DEFINE q == Cat(x, y)
  <1> HIDE DEF q
  <1>3. Cat(Cat(e, q), z) = Cat(e, Cat(q, z))
    BY SMTT(30), <1>1, ConcatAssociative DEF Cat, q
  <1> QED BY <1>2, <1>3 DEF q

\* The bits of a scan of the instruction registers, from the first to the last.
EndBits(last, A) == IF A > 0 THEN Cat(Cat(Shift(last, 0), Clocks(0, 1, A - 1)), Clocks(1, 1, 1)) ELSE Shift(last, 1)
IrBits(ir, B, A) == Cat(Cat(Clocks(0, 1, B), Shift(SubSeq(ir, 1, 3), 0)), EndBits(SubSeq(ir, 4, 4), A))

LEMMA FunSeq ==
  ASSUME NEW n \in Nat, NEW f \in [1..n -> Bits]
  PROVE  f \in Seq(Bits) /\ Len(f) = n
  OBVIOUS

LEMMA IrParts ==
  ASSUME NEW ir \in [1..4 -> Bits]
  PROVE  /\ SubSeq(ir, 1, 3) \in Seq(Bits) /\ Len(SubSeq(ir, 1, 3)) = 3
     /\ \A z \in 1..3 : SubSeq(ir, 1, 3)[z] = ir[z]
         /\ SubSeq(ir, 4, 4) \in Seq(Bits) /\ Len(SubSeq(ir, 4, 4)) = 1 /\ SubSeq(ir, 4, 4)[1] = ir[4]
  <1>0. ir \in Seq(Bits) /\ Len(ir) = 4
    <2>1. 4 \in Nat
      OBVIOUS
    <2> QED BY ONLY <2>1, ir \in [1..4 -> Bits], FunSeq
  <1>1. SubSeq(ir, 0 + 1, 3) \in Seq(Bits) /\ Len(SubSeq(ir, 0 + 1, 3)) = 3 - 0
           /\ \A z \in 1..(3 - 0) : SubSeq(ir, 0 + 1, 3)[z] = ir[0 + z]
    <2>1. 0 \in Nat /\ 3 \in Nat /\ 0 <= 3 /\ 3 <= Len(ir)
      BY <1>0
    <2> QED BY <1>0, <2>1, PartOf
  <1>2. SubSeq(ir, 3 + 1, 4) \in Seq(Bits) /\ Len(SubSeq(ir, 3 + 1, 4)) = 4 - 3
           /\ \A z \in 1..(4 - 3) : SubSeq(ir, 3 + 1, 4)[z] = ir[3 + z]
    <2>1. 3 \in Nat /\ 4 \in Nat /\ 3 <= 4 /\ 4 <= Len(ir)
      BY <1>0
    <2> QED BY <1>0, <2>1, PartOf
  <1>3. 0 + 1 = 1 /\ 3 + 1 = 4 /\ 3 - 0 = 3 /\ 4 - 3 = 1 /\ 1 \in 1..1
    OBVIOUS
  <1>4. \A z \in 1..3 : 0 + z = z
    OBVIOUS
  <1>5. SubSeq(ir, 1, 3) \in Seq(Bits) /\ Len(SubSeq(ir, 1, 3)) = 3
           /\ \A z \in 1..3 : SubSeq(ir, 1, 3)[z] = ir[z]
    BY <1>1, <1>3, <1>4
  <1>6. SubSeq(ir, 4, 4) \in Seq(Bits) /\ Len(SubSeq(ir, 4, 4)) = 1 /\ SubSeq(ir, 4, 4)[1] = ir[4]
    BY <1>2, <1>3
  <1> QED BY <1>5, <1>6

\* What is shifted in behind the word last: nothing, or bits of bypass.
IsEnd(S, x, last, A) == /\ last \in Seq(Bits) /\ Len(last) = 1 /\ last[1] = S[x]
                        /\ \A z \in 1..A : S[x + z] = 1

LEMMA IrEnd ==
  ASSUME NEW n \in Nat \ {0}, NEW k \in Nat, NEW A \in Nat, NEW S \in Seq(Bits), k + n + 1 + A <= Len(S),
         NEW last, IsEnd(S, k + n + 1, last, A),
         NEW i, NEW d, NEW a, NEW v
  PROVE  /\ After(Sh("Shift-IR", S, n, 0, k, i, d, a, v), EndBits(last, A))
               = Sh("Exit1-IR", S, n, 0, k + 1 + A, i, d, a, v)
         /\ EndBits(last, A) \in Seq(Pins)
  <1> DEFINE T(kk) == Sh("Shift-IR", S, n, 0, kk, i, d, a, v)
             E == Sh("Exit1-IR", S, n, 0, k + 1 + A, i, d, a, v)
             x == Shift(last, 0)
             y == Clocks(0, 1, A - 1)
             z == Clocks(1, 1, 1)
  <1>b. 0 \in Bits /\ 1 \in Bits /\ 0 \in Nat /\ 1 \in Nat /\ Len(S) \in Nat
    BY LenProperties DEF Bits
  <1>e. /\ last \in Seq(Bits) /\ Len(last) = 1 /\ last[1] = S[k + n + 1]
        /\ \A w \in 1..A : S[(k + n + 1) + w] = 1
    BY DEF IsEnd
  <1>1. CASE A = 0
    <2>1. After(T(k), Shift(last, 1)) = Sh("Exit1-IR", S, n, 0, k + 1, i, d, a, v)
      <3>1. 0 <= k /\ k + n + 1 <= Len(S)
        BY <1>b
      <3> QED BY <1>b, <1>e, <3>1, Leaves
    <2>2. k + 1 = k + 1 + A /\ ~(A > 0)
      BY <1>1
    <2>3. Shift(last, 1) \in Seq(Pins)
      BY <1>b, <1>e, ShiftAre
    <2>4. EndBits(last, A) = Shift(last, 1)
      BY <2>2, Zenon DEF EndBits
    <2> QED BY <2>1, <2>2, <2>3, <2>4
  <1>2. CASE A > 0
    <2>1. After(T(k), x) = T(k + 1)
      <3>1. Runs(x, 1, S, k + n)
        <4>1. \A w \in 1..Len(last) : S[(k + n) + w] = last[w]
          <5>1. \A w \in 1..Len(last) : w = 1
            BY <1>e
          <5> QED BY <1>e, <5>1
        <4>2. Runs(x, Len(last), S, k + n)
          <5>1. k + n \in Nat
            OBVIOUS
          <5> QED BY <1>e, <4>1, <5>1, BitsRun
        <4> QED BY <1>e, <4>2
      <3>2. k + n + 1 <= Len(S) /\ 0 <= k
        BY <1>b
      <3>3. "Shift-IR" \in {"Shift-DR", "Shift-IR"}
        OBVIOUS
      <3> HIDE DEF x
      <3> QED BY <1>b, <3>1, <3>2, <3>3, ShiftRun
    <2>2. After(T(k + 1), y) = T(k + 1 + (A - 1))
      <3>1. A - 1 \in Nat /\ k + 1 \in Nat /\ (k + 1) + n \in Nat /\ (k + 1) + n + (A - 1) <= Len(S)
               /\ 0 <= k + 1
        BY <1>b, <1>2
      <3>2. \A w \in 1..(A - 1) : S[((k + 1) + n) + w] = 1
        <4>1. \A w \in 1..(A - 1) : w \in 1..A /\ ((k + 1) + n) + w = (k + n + 1) + w
          OBVIOUS
        <4> QED BY <1>e, <4>1
      <3>3. Runs(y, A - 1, S, (k + 1) + n)
        BY <3>1, <3>2, ClocksRun
      <3>4. "Shift-IR" \in {"Shift-DR", "Shift-IR"}
        OBVIOUS
      <3> DEFINE g == A - 1
                 h == k + 1
      <3>5. g \in Nat /\ h \in Nat /\ h + n + g <= Len(S) /\ 0 <= h /\ Runs(y, g, S, h + n)
        BY <3>1, <3>3
      <3> HIDE DEF y, g, h
      <3>6. After(T(h), y) = T(h + g)
        BY <1>b, <3>4, <3>5, ShiftRun
      <3> QED BY <3>6 DEF g, h
    <2>3. After(T(k + 1 + (A - 1)), z) = E
      <3> DEFINE g == k + 1 + (A - 1)
      <3>1. g \in Nat /\ 0 <= g /\ g + n + 1 <= Len(S) /\ g + 1 = k + 1 + A
               /\ g + n + 1 = (k + n + 1) + A /\ A \in 1..A
        BY <1>b, <1>2
      <3> HIDE DEF g
      <3>2. S[g + n + 1] = 1
        BY <1>e, <3>1
      <3>3. After(T(g), z) = Sh("Exit1-IR", S, n, 0, g + 1, i, d, a, v)
        BY <1>b, <3>1, <3>2, Leaves
      <3> QED BY <3>1, <3>3 DEF g
    <2>4. x \in Seq(Pins) /\ y \in Seq(Pins) /\ z \in Seq(Pins)
      <3>1. A - 1 \in Nat
        BY <1>2
      <3>2. x \in Seq(Pins)
        BY <1>b, <1>e, ShiftAre
      <3>3. y \in Seq(Pins) /\ z \in Seq(Pins)
        BY <1>b, <3>1, ClocksAre
      <3> QED BY <3>2, <3>3
    <2> DEFINE t == T(k)
               t1 == T(k + 1)
               t2 == T(k + 1 + (A - 1))
               c == Cat(Cat(x, y), z)
    <2>5. EndBits(last, A) = c
      BY <1>2, Zenon DEF EndBits
    <2> HIDE DEF x, y, z, E, t, t1, t2
    <2>6. After(t, Cat(Cat(x, y), z)) = After(After(After(t, x), y), z) /\ c \in Seq(Pins)
      BY ONLY <2>4, ThenThen
    <2>7. After(t, c) = E
      <3>1. After(t, x) = t1
        BY <2>1 DEF t, t1
      <3>2. After(t1, y) = t2
        BY <2>2 DEF t1, t2
      <3>3. After(t2, z) = E
        BY <2>3 DEF t2
      <3> QED BY <2>6, <3>1, <3>2, <3>3
    <2> HIDE DEF c
    <2> QED BY <2>5, <2>6, <2>7 DEF E, t
  <1> QED BY <1>1, <1>2

IsIrStream(S, n, ir, B, A) ==
    /\ S \in Seq(Bits) /\ n + B + 4 + A <= Len(S)
    /\ \A z \in 1..(n + B) : S[z] = 1
    /\ \A z \in 1..4 : S[(n + B) + z] = ir[z]
    /\ \A z \in 1..A : S[(n + B + 4) + z] = 1

LEMMA IrBody ==
  ASSUME NEW n \in Nat \ {0}, NEW B \in Nat, NEW A \in Nat, NEW ir \in [1..4 -> Bits],
         NEW S, IsIrStream(S, n, ir, B, A),
         NEW i, NEW d, NEW a, NEW v
  PROVE  /\ After(Sh("Shift-IR", S, n, 0, 0, i, d, a, v), IrBits(ir, B, A))
               = Sh("Exit1-IR", S, n, 0, B + 4 + A, i, d, a, v)
         /\ IrBits(ir, B, A) \in Seq(Pins)
  <1> DEFINE T(kk) == Sh("Shift-IR", S, n, 0, kk, i, d, a, v)
             E == Sh("Exit1-IR", S, n, 0, B + 4 + A, i, d, a, v)
             x == Clocks(0, 1, B)
             q == SubSeq(ir, 1, 3)
             y == Shift(q, 0)
             last == SubSeq(ir, 4, 4)
             z == EndBits(last, A)
  <1>s. /\ S \in Seq(Bits) /\ n + B + 4 + A <= Len(S)
        /\ \A w \in 1..(n + B) : S[w] = 1
        /\ \A w \in 1..4 : S[(n + B) + w] = ir[w]
        /\ \A w \in 1..A : S[(n + B + 4) + w] = 1
    BY DEF IsIrStream
  <1>b. 0 \in Bits /\ 1 \in Bits /\ 0 \in Nat /\ 1 \in Nat /\ Len(S) \in Nat
           /\ "Shift-IR" \in {"Shift-DR", "Shift-IR"}
    BY <1>s, LenProperties DEF Bits
  <1>p. /\ q \in Seq(Bits) /\ Len(q) = 3 /\ \A w \in 1..3 : q[w] = ir[w]
        /\ last \in Seq(Bits) /\ Len(last) = 1 /\ last[1] = ir[4]
    BY IrParts
  <1> HIDE DEF q, last
  <1>1. After(T(0), x) = T(B) /\ x \in Seq(Pins)
    <2>1. 0 + n \in Nat /\ 0 + n + B <= Len(S) /\ 0 + B = B /\ 0 <= 0
             /\ \A w \in 1..B : (0 + n) + w \in 1..(n + B)
      BY <1>b, <1>s
    <2>2. \A w \in 1..B : S[(0 + n) + w] = 1
      BY <1>s, <2>1
    <2>3. Runs(x, B, S, 0 + n)
      BY <2>1, <2>2, ClocksRun
    <2>4. x \in Seq(Pins)
      BY <1>b, ClocksAre
    <2> HIDE DEF x
    <2>5. After(T(0), x) = T(0 + B)
      BY <1>b, <1>s, <2>1, <2>3, ShiftRun
    <2> QED BY <2>1, <2>4, <2>5
  <1>2. After(T(B), y) = T(B + 3) /\ y \in Seq(Pins)
    <2>1. B + n \in Nat /\ B + n + 3 <= Len(S) /\ 0 <= B /\ 3 \in Nat /\ \A w \in 1..3 : w \in 1..4
             /\ (B + n) + w = (n + B) + w
      BY <1>b, <1>s
    <2>2. \A w \in 1..Len(q) : S[(B + n) + w] = q[w]
      BY <1>p, <1>s, <2>1
    <2>3. Runs(y, Len(q), S, B + n)
      BY <1>p, <2>1, <2>2, BitsRun
    <2>4. y \in Seq(Pins)
      BY <1>b, <1>p, ShiftAre
    <2>5. Runs(y, 3, S, B + n)
      BY <1>p, <2>3
    <2> HIDE DEF y
    <2>6. After(T(B), y) = T(B + 3)
      BY <1>b, <1>s, <2>1, <2>5, ShiftRun
    <2> QED BY <2>4, <2>6
  <1>3. After(T(B + 3), z) = E /\ z \in Seq(Pins)
    <2> DEFINE k == B + 3
    <2>1. k \in Nat /\ k + n + 1 + A <= Len(S) /\ 4 \in 1..4 /\ (n + B) + 4 = k + n + 1
             /\ k + 1 + A = B + 4 + A /\ k + n + 1 = n + B + 4
      BY <1>b, <1>s
    <2> HIDE DEF k
    <2>2. last[1] = S[k + n + 1]
      BY <1>p, <1>s, <2>1
    <2>3. IsEnd(S, k + n + 1, last, A)
      BY <1>p, <1>s, <2>1, <2>2 DEF IsEnd
    <2>4. After(T(k), z) = Sh("Exit1-IR", S, n, 0, k + 1 + A, i, d, a, v) /\ z \in Seq(Pins)
      BY SMTT(30), <1>s, <2>1, <2>3, IrEnd
    <2> QED BY <2>1, <2>4 DEF k
  <1> DEFINE t == T(0)
             t1 == T(B)
             t2 == T(B + 3)
  <1>4. IrBits(ir, B, A) = Cat(Cat(x, y), z)
    BY Zenon DEF IrBits, q, last
  <1> HIDE DEF x, y, z, t, t1, t2, E
  <1>5. After(t, Cat(Cat(x, y), z)) = After(After(After(t, x), y), z) /\ Cat(Cat(x, y), z) \in Seq(Pins)
    BY ONLY <1>1, <1>2, <1>3, ThenThen
  <1>7. After(t, Cat(Cat(x, y), z)) = E
    <2>1. After(t, x) = t1
      BY <1>1 DEF t, t1
    <2>2. After(t1, y) = t2
      BY <1>2 DEF t1, t2
    <2>3. After(t2, z) = E
      BY <1>3 DEF t2
    <2> QED BY <1>5, <2>1, <2>2, <2>3
  <1> QED BY <1>4, <1>5, <1>7 DEF t, E

LEMMA IrStart ==
  ASSUME NEW n \in Nat \ {0}, NEW S \in Seq(Bits), n <= Len(S), \A z \in 1..n : S[z] = 1
  PROVE  SubSeq(S, 0 + 1, 0 + n) = Bypass(n) /\ SubSeq(S, 0 + 1, 0) = <<>>
  <1> DEFINE w == SubSeq(S, 0 + 1, 0 + n)
  <1>0. Len(S) \in Nat
    BY LenProperties
  <1>1. w \in Seq(Bits) /\ Len(w) = (0 + n) - 0 /\ \A z \in 1..((0 + n) - 0) : w[z] = S[0 + z]
    <2>1. 0 \in Nat /\ 0 + n \in Nat /\ 0 <= 0 + n /\ 0 + n <= Len(S)
      BY <1>0
    <2> QED BY <2>1, PartOf
  <1>2. Bypass(n) \in Seq(Bits) /\ Len(Bypass(n)) = n /\ \A z \in 1..n : Bypass(n)[z] = 1
    BY BypassIs
  <1> HIDE DEF w
  <1>3. Len(w) = n /\ \A z \in 1..n : w[z] = Bypass(n)[z]
    BY <1>1, <1>2
  <1>4. w = Bypass(n)
    BY <1>1, <1>2, <1>3, SeqEqual
  <1>5. SubSeq(S, 0 + 1, 0) = <<>>
    BY <1>0
  <1> QED BY <1>4, <1>5 DEF w

\* dap_jtag_write_ir, whatever the host has said of the chain.
LEMMA IrScan ==
  ASSUME LensOk, NEW i, IrsOk(i), NEW s, NEW o, NEW d, NEW a, NEW v,
         NEW ir \in [1..4 -> Bits], NEW B \in Nat, NEW A \in Nat,
         ir_length[Device] = 4, ir_before[Device] = B, ir_after[Device] = A
  PROVE  Run(Jt("Idle", s, o, i, d, a, v), WriteIr(ir))
            = Jt("Idle", IrIn(ir, B, A), IrOut(ir, B, A), Loaded(IrIn(ir, B, A)), d, a, v)
  <1> DEFINE n == AllBits
             S == IrStream(ir, B, A)
             c1 == Clocks(1, 1, 2)
             c2 == Clocks(0, 1, 2)
             cb == IrBits(ir, B, A)
             c6 == Clocks(1, 1, 1)
             c7 == Clocks(0, 1, 1)
             t0 == Jt("Idle", s, <<>>, i, d, a, v)
             t1 == Sh("Shift-IR", S, n, 0, 0, i, d, a, v)
             E == Sh("Exit1-IR", S, n, 0, B + 4 + A, i, d, a, v)
             R == Jt("Idle", IrIn(ir, B, A), IrOut(ir, B, A), Loaded(IrIn(ir, B, A)), d, a, v)
  <1>1. n \in Nat \ {0}
    BY AllBitsAre
  <1>2. /\ S \in Seq(Bits) /\ Len(S) = n + B + 4 + A
        /\ \A z \in 1..(n + B) : S[z] = 1
        /\ \A z \in 1..4 : S[(n + B) + z] = ir[z]
        /\ \A z \in 1..A : S[(n + B + 4) + z] = 1
    BY IrStreamIs
  <1>b. 0 \in Bits /\ 1 \in Bits /\ 1 \in Nat /\ 2 \in Nat
    BY DEF Bits
  <1>3. WriteIr(ir) = Cat(Cat(Cat(Cat(c1, c2), cb), c6), c7)
    <2> DEFINE x == Clocks(0, 1, B)
               y == Shift(SubSeq(ir, 1, 3), 0)
               z == IF A > 0 THEN Shift(SubSeq(ir, 4, 4), 0) \o Clocks(0, 1, A - 1) \o Clocks(1, 1, 1)
                    ELSE Shift(SubSeq(ir, 4, 4), 1)
    <2>1. WriteIr(ir) = c1 \o c2 \o x \o y \o z \o c6 \o c7
      <3>1. 4 - 1 = 3
        OBVIOUS
      <3> QED BY <3>1, Zenon DEF WriteIr
    <2>2. cb = (x \o y) \o z
      BY Zenon DEF IrBits, EndBits, Cat
    <2>3. x \in Seq(Pins) /\ y \in Seq(Pins) /\ z \in Seq(Pins) /\ c1 \in Seq(Pins) /\ c2 \in Seq(Pins)
      <3>1. x \in Seq(Pins) /\ c1 \in Seq(Pins) /\ c2 \in Seq(Pins)
        BY <1>b, ClocksAre
      <3>2. y \in Seq(Pins)
        BY <1>b, IrParts, ShiftAre
      <3>3. z \in Seq(Pins)
        <4> DEFINE l == SubSeq(ir, 4, 4)
        <4>1. l \in Seq(Bits)
          BY IrParts
        <4> HIDE DEF l
        <4>2. Shift(l, 0) \in Seq(Pins) /\ Shift(l, 1) \in Seq(Pins)
          BY <1>b, <4>1, ShiftAre
        <4>3. Clocks(1, 1, 1) \in Seq(Pins)
          BY <1>b, ClocksAre
        <4>4. ASSUME A > 0 PROVE Clocks(0, 1, A - 1) \in Seq(Pins)
          <5>1. A - 1 \in Nat
            BY <4>4
          <5> QED BY <1>b, <5>1, ClocksAre
        <4> DEFINE f == Shift(l, 0)
                   g == Clocks(0, 1, A - 1)
                   h == Clocks(1, 1, 1)
                   u == Shift(l, 1)
        <4> HIDE DEF f, g, h, u
        <4>5. (IF A > 0 THEN f \o g \o h ELSE u) \in Seq(Pins)
          BY <4>2, <4>3, <4>4 DEF f, g, h, u
        <4> QED BY <4>5 DEF f, g, h, u, l
      <3> QED BY <3>1, <3>2, <3>3
    <2> HIDE DEF x, y, z, c1, c2
    <2>4. Cat(Cat(Cat(Cat(c1, c2), x), y), z) = Cat(Cat(c1, c2), Cat(Cat(x, y), z))
      <3> DEFINE e == Cat(c1, c2)
      <3>1. e \in Seq(Pins)
        BY <2>3 DEF Cat
      <3> HIDE DEF e
      <3>2. Cat(Cat(Cat(e, x), y), z) = Cat(e, Cat(Cat(x, y), z))
        BY ONLY <2>3, <3>1, Regroup
      <3> QED BY <3>2 DEF e
    <2> QED BY <2>1, <2>2, <2>4, Zenon DEF Cat
  <1>4. Run(Jt("Idle", s, o, i, d, a, v), WriteIr(ir)) = After(t0, Cat(Cat(Cat(Cat(c1, c2), cb), c6), c7))
    <2>1. [Jt("Idle", s, o, i, d, a, v) EXCEPT !.tdo = <<>>] = t0
      BY DEF Jt
    <2> HIDE DEF t0, c1, c2, c6, c7, cb
    <2> QED BY <1>3, <2>1, Zenon DEF Run
  <1>5. c1 \in Seq(Pins) /\ c2 \in Seq(Pins) /\ c6 \in Seq(Pins) /\ c7 \in Seq(Pins)
    BY <1>b, ClocksAre
  <1>6. After(After(t0, c1), c2) = t1
    <2>1. After(After(t0, c1), c2) = Jt("Shift-IR", Bypass(n), <<>>, i, d, a, v)
      BY IrHead
    <2>2. SubSeq(S, 0 + 1, 0 + n) = Bypass(n) /\ SubSeq(S, 0 + 1, 0) = <<>>
      <3> HIDE DEF S, n
      <3>1. n <= Len(S) /\ \A z \in 1..n : S[z] = 1
        <4>1. Len(S) \in Nat
          BY <1>2, LenProperties
        <4> QED BY <1>1, <1>2, <4>1
      <3> QED BY <1>1, <1>2, <3>1, IrStart
    <2> HIDE DEF S, n, t0, c1, c2
    <2> QED BY <2>1, <2>2 DEF Sh
  <1>7. After(t1, cb) = E /\ cb \in Seq(Pins)
    <2> HIDE DEF S, n
    <2>1. IsIrStream(S, n, ir, B, A)
      BY <1>1, <1>2 DEF IsIrStream
    <2>2. After(Sh("Shift-IR", S, n, 0, 0, i, d, a, v), IrBits(ir, B, A))
                = Sh("Exit1-IR", S, n, 0, B + 4 + A, i, d, a, v)
          /\ IrBits(ir, B, A) \in Seq(Pins)
      <3>1. n \in Nat \ {0} /\ B \in Nat /\ A \in Nat /\ ir \in [1..4 -> Bits]
        BY <1>1
      <3> QED BY ONLY <2>1, <3>1, IrBody
    <2> QED BY <2>2
  <1>8. After(After(E, c6), c7) = R
    <2>1. E = Jt("Exit1-IR", IrIn(ir, B, A), IrOut(ir, B, A), i, d, a, v)
      <3>1. 0 + 1 = 1
        OBVIOUS
      <3> QED BY <3>1, Zenon DEF Sh, IrIn, IrOut
    <2> HIDE DEF E
    <2> DEFINE w == IrIn(ir, B, A)
               u == IrOut(ir, B, A)
    <2> HIDE DEF w, u
    <2>2. After(After(Jt("Exit1-IR", w, u, i, d, a, v), c6), c7) = Jt("Idle", w, u, Loaded(w), d, a, v)
      BY IrTail
    <2> QED BY <2>1, <2>2 DEF w, u
  <1> HIDE DEF c1, c2, cb, c6, c7, t0, t1, E, R
  <1>9. After(t0, Cat(Cat(Cat(Cat(c1, c2), cb), c6), c7))
              = After(After(After(After(After(t0, c1), c2), cb), c6), c7)
    <2> DEFINE c == Cat(Cat(c1, c2), cb)
    <2>1. After(t0, c) = After(After(After(t0, c1), c2), cb) /\ c \in Seq(Pins)
      BY ONLY SMTT(30), <1>5, <1>7, ThenThen
    <2> HIDE DEF c
    <2>2. After(t0, Cat(Cat(c, c6), c7)) = After(After(After(t0, c), c6), c7)
      BY ONLY <1>5, <2>1, ThenThen
    <2> QED BY <2>1, <2>2 DEF c
  <1> QED BY <1>4, <1>6, <1>7, <1>8, <1>9 DEF R

\* A scan of as many bits as there are leaves instruction registers of the right lengths.
LEMMA LoadedOk ==
  ASSUME LensOk, NEW W \in Seq(Bits), Len(W) = AllBits
  PROVE  /\ IrsOk(Loaded(W))
         /\ \A e \in 1..Len(lens) : \A k \in 1..lens[e] : Loaded(W)[e][k] = W[Total(lens, e - 1) + k]
  <1>1. lens \in Seq(Nat) /\ Len(lens) \in Nat
    BY AllBitsAre DEF LensOk
  <1>2. ASSUME NEW e \in 1..Len(lens)
        PROVE  /\ Loaded(W)[e] \in Seq(Bits) /\ Len(Loaded(W)[e]) = lens[e]
               /\ \A k \in 1..lens[e] : Loaded(W)[e][k] = W[Total(lens, e - 1) + k]
    <2> DEFINE x == Total(lens, e - 1)
               y == Total(lens, e)
    <2>1. y = x + lens[e] /\ lens[e] \in Nat
      BY <1>1, TotalIs
    <2>2. x \in 0..AllBits /\ y \in 0..AllBits /\ AllBits \in Nat
      <3>1. e - 1 \in 0..Len(lens) /\ e \in 0..Len(lens)
        BY <1>1
      <3> QED BY <3>1, AllBitsAre
    <2>3. Loaded(W)[e] = SubSeq(W, x + 1, y)
      BY DEF Loaded, Segment
    <2> HIDE DEF x, y
    <2>4. x \in Nat /\ y \in Nat /\ x <= y /\ y <= Len(W) /\ y - x = lens[e]
      BY <2>1, <2>2
    <2>5. SubSeq(W, x + 1, y) \in Seq(Bits) /\ Len(SubSeq(W, x + 1, y)) = y - x
          /\ \A k \in 1..(y - x) : SubSeq(W, x + 1, y)[k] = W[x + k]
      BY <2>4, PartOf
    <2> DEFINE z == SubSeq(W, x + 1, y)
    <2> HIDE DEF z
    <2>6. z \in Seq(Bits) /\ Len(z) = lens[e] /\ \A k \in 1..lens[e] : z[k] = W[x + k]
      BY <2>4, <2>5 DEF z
    <2>7. Loaded(W)[e] = z
      BY <2>3 DEF z
    <2> QED BY <2>6, <2>7 DEF x
  <1>3. Loaded(W) = [e \in 1..Len(lens) |-> Loaded(W)[e]]
    BY DEF Loaded
  <1> DEFINE L == Loaded(W)
  <1> HIDE DEF L
  <1>4. L \in Seq(Seq(Bits)) /\ Len(L) = Len(lens)
    <2>1. L = [e \in 1..Len(lens) |-> L[e]] /\ \A e \in 1..Len(lens) : L[e] \in Seq(Bits)
      BY <1>2, <1>3 DEF L
    <2> DEFINE N == Len(lens)
    <2> HIDE DEF N
    <2>2. N \in Nat /\ L = [e \in 1..N |-> L[e]] /\ \A e \in 1..N : L[e] \in Seq(Bits)
      BY <1>1, <2>1 DEF N
    <2>3. L \in [1..N -> Seq(Bits)]
      BY ONLY <2>2
    <2>4. L \in Seq(Seq(Bits)) /\ Len(L) = N
      BY ONLY <2>2, <2>3
    <2> QED BY <2>4 DEF N
  <1> QED BY <1>2, <1>4 DEF IrsOk, L

LEMMA IrInIs ==
  ASSUME LensOk, NEW ir \in [1..4 -> Bits], NEW B \in Nat, NEW A \in Nat
  PROVE  /\ IrIn(ir, B, A) \in Seq(Bits) /\ Len(IrIn(ir, B, A)) = AllBits
         /\ \A x \in 1..AllBits : IrIn(ir, B, A)[x] = IrStream(ir, B, A)[(B + 4 + A) + x]
  <1> DEFINE S == IrStream(ir, B, A)
             m == B + 4 + A
             n == AllBits
  <1>1. n \in Nat
    BY AllBitsAre
  <1>2. S \in Seq(Bits) /\ Len(S) = n + B + 4 + A
    <2>1. /\ S \in Seq(Bits) /\ Len(S) = n + B + 4 + A
          /\ \A z \in 1..(n + B) : S[z] = 1
          /\ \A z \in 1..4 : S[(n + B) + z] = ir[z]
          /\ \A z \in 1..A : S[(n + B + 4) + z] = 1
      BY IrStreamIs
    <2> HIDE DEF S, n
    <2> QED BY <2>1
  <1> HIDE DEF S, n
  <1>3. m \in Nat /\ m + n \in Nat /\ m <= m + n /\ m + n <= Len(S) /\ (m + n) - m = n
    BY <1>1, <1>2
  <1> HIDE DEF m
  <1>4. SubSeq(S, m + 1, m + n) \in Seq(Bits) /\ Len(SubSeq(S, m + 1, m + n)) = (m + n) - m
        /\ \A x \in 1..((m + n) - m) : SubSeq(S, m + 1, m + n)[x] = S[m + x]
    BY <1>2, <1>3, PartOf
  <1>5. IrIn(ir, B, A) = SubSeq(S, m + 1, m + n)
    BY DEF IrIn, S, m, n
  <1> DEFINE w == SubSeq(S, m + 1, m + n)
  <1> HIDE DEF w
  <1>6. w \in Seq(Bits) /\ Len(w) = n /\ \A x \in 1..n : w[x] = S[m + x]
    BY <1>3, <1>4 DEF w
  <1>7. IrIn(ir, B, A) = w
    BY <1>5 DEF w
  <1> QED BY <1>6, <1>7 DEF S, m, n

\* The bits before device D and behind it.
PlaceIs(D, B, A) == B = Total(lens, D - 1) /\ A = Total(lens, Len(lens)) - Total(lens, D)

\* Where the host has the chain right, ir goes to the device and ones to the others.
LEMMA IrFits ==
  ASSUME LensOk, NEW D \in 1..Len(lens), lens[D] = 4, NEW ir \in [1..4 -> Bits],
         NEW B, NEW A, PlaceIs(D, B, A)
  PROVE  \A e \in 1..Len(lens) : Loaded(IrIn(ir, B, A))[e] = IF e = D THEN ir ELSE Bypass(lens[e])
  <1> DEFINE n == AllBits
             S == IrStream(ir, B, A)
             W == IrIn(ir, B, A)
  <1>1. lens \in Seq(Nat) /\ Len(lens) \in Nat /\ n \in Nat
    BY AllBitsAre DEF LensOk
  <1>2. /\ B \in Nat /\ A \in Nat /\ Total(lens, D) = B + 4 /\ n = B + 4 + A
    <2>1. D - 1 \in 0..Len(lens) /\ D \in 0..Len(lens) /\ Len(lens) \in D..Len(lens)
             /\ Len(lens) \in 0..Len(lens)
      BY <1>1
    <2>2. Total(lens, D) = Total(lens, D - 1) + lens[D]
      BY <1>1, TotalIs
    <2>3. Total(lens, D - 1) \in Nat /\ Total(lens, D) \in Nat /\ Total(lens, Len(lens)) \in Nat
      BY <1>1, <2>1, TotalNat
    <2>4. Total(lens, D) <= Total(lens, Len(lens))
      BY <1>1, <2>1, TotalGrows
    <2>5. n = Total(lens, Len(lens))
      BY DEF AllBits
    <2> HIDE DEF n
    <2>6. B = Total(lens, D - 1) /\ A = Total(lens, Len(lens)) - Total(lens, D)
      BY DEF PlaceIs
    <2> QED BY <2>2, <2>3, <2>4, <2>5, <2>6
  <1>3. /\ S \in Seq(Bits)
        /\ \A z \in 1..(n + B) : S[z] = 1
        /\ \A z \in 1..4 : S[(n + B) + z] = ir[z]
        /\ \A z \in 1..A : S[(n + B + 4) + z] = 1
    <2>1. /\ S \in Seq(Bits) /\ Len(S) = n + B + 4 + A
          /\ \A z \in 1..(n + B) : S[z] = 1
          /\ \A z \in 1..4 : S[(n + B) + z] = ir[z]
          /\ \A z \in 1..A : S[(n + B + 4) + z] = 1
      BY <1>2, IrStreamIs
    <2> HIDE DEF S, n
    <2> QED BY <2>1
  <1>4. W \in Seq(Bits) /\ Len(W) = n /\ \A x \in 1..n : W[x] = S[n + x]
    <2>1. /\ W \in Seq(Bits) /\ Len(W) = n
          /\ \A x \in 1..n : W[x] = S[(B + 4 + A) + x]
      BY <1>2, IrInIs
    <2> HIDE DEF W, S, n
    <2> QED BY <1>2, <2>1
  <1> HIDE DEF W, S
  <1>5. /\ IrsOk(Loaded(W))
        /\ \A e \in 1..Len(lens) : \A k \in 1..lens[e] : Loaded(W)[e][k] = W[Total(lens, e - 1) + k]
    BY <1>4, LoadedOk
  <1> HIDE DEF n
  <1>6. ASSUME NEW e \in 1..Len(lens) PROVE Loaded(W)[e] = IF e = D THEN ir ELSE Bypass(lens[e])
    <2> DEFINE g == Loaded(W)[e]
               l == lens[e]
               x == Total(lens, e - 1)
    <2>1. g \in Seq(Bits) /\ Len(g) = l /\ l \in Nat
      BY <1>1, <1>5 DEF IrsOk
    <2>2. \A k \in 1..l : g[k] = W[x + k]
      BY <1>5
    <2>3. x \in Nat /\ x + l <= n /\ Total(lens, e) = x + l
      <3>1. e - 1 \in 0..Len(lens) /\ e \in 0..Len(lens)
        BY <1>1
      <3>2. Total(lens, e) = Total(lens, e - 1) + lens[e]
        BY <1>1, TotalIs
      <3>3. Total(lens, e - 1) \in 0..n /\ Total(lens, e) \in 0..n
        BY <3>1, AllBitsAre DEF n
      <3> QED BY <1>1, <3>2, <3>3
    <2> HIDE DEF g
    <2>4. CASE e = D
      <3>1. l = 4 /\ x = B
        BY <2>4 DEF PlaceIs
      <3>2. ir \in Seq(Bits) /\ Len(ir) = 4
        <4>1. 4 \in Nat
          OBVIOUS
        <4> QED BY ONLY <4>1, ir \in [1..4 -> Bits], FunSeq
      <3> HIDE DEF l, x
      <3>3. ASSUME NEW k \in 1..4 PROVE g[k] = ir[k]
        <4>1. B + k \in 1..n /\ n + (B + k) = (n + B) + k
          BY <1>1, <1>2
        <4>2. g[k] = W[B + k]
          BY <2>2, <3>1
        <4> QED BY <1>3, <1>4, <4>1, <4>2
      <3>4. g = ir
        <4>1. Len(g) = 4
          BY <2>1, <3>1
        <4> QED BY <2>1, <3>2, <3>3, <4>1, SeqEqual
      <3> QED BY <2>4, <3>4 DEF g
    <2>5. CASE e # D
      <3>1. x + l <= B \/ x >= B + 4
        <4>1. CASE e < D
          <5>1. D - 1 \in e..Len(lens) /\ e \in 0..Len(lens)
            BY <1>1, <4>1
          <5>2. Total(lens, e) <= Total(lens, D - 1)
            BY <1>1, <5>1, TotalGrows
          <5> QED BY <2>3, <5>2 DEF PlaceIs
        <4>2. CASE e > D
          <5>1. e - 1 \in D..Len(lens) /\ D \in 0..Len(lens)
            BY <1>1, <4>2
          <5>2. Total(lens, D) <= Total(lens, e - 1)
            BY <1>1, <5>1, TotalGrows
          <5> QED BY <1>2, <5>2
        <4> QED BY <1>1, <2>5, <4>1, <4>2
      <3> HIDE DEF l, x
      <3>2. ASSUME NEW k \in 1..l PROVE g[k] = 1
        <4>1. x + k \in 1..n /\ g[k] = W[x + k]
          BY <1>1, <2>1, <2>2, <2>3
        <4>2. g[k] = S[n + (x + k)]
          BY <1>4, <4>1
        <4>3. CASE x + l <= B
          <5>1. n + (x + k) \in 1..(n + B)
            BY <1>1, <1>2, <2>1, <2>3, <4>1, <4>3
          <5> QED BY <1>3, <4>2, <5>1
        <4>4. CASE x >= B + 4
          <5> DEFINE y == (x + k) - (B + 4)
          <5>1. y \in 1..A /\ (n + B + 4) + y = n + (x + k)
            BY <1>1, <1>2, <2>1, <2>3, <4>1, <4>4
          <5> HIDE DEF y
          <5> QED BY <1>3, <4>2, <5>1
        <4> QED BY <3>1, <4>3, <4>4
      <3>3. Bypass(l) \in Seq(Bits) /\ Len(Bypass(l)) = l /\ \A z \in 1..l : Bypass(l)[z] = 1
        BY <2>1, BypassIs
      <3>4. g = Bypass(l)
        <4> DEFINE h == Bypass(l)
        <4> HIDE DEF h
        <4>1. h \in Seq(Bits) /\ Len(g) = Len(h) /\ \A k \in 1..Len(g) : g[k] = h[k]
          BY <2>1, <3>2, <3>3 DEF h
        <4>2. g = h
          BY ONLY <2>1, <4>1, SeqEqual
        <4> QED BY <4>2 DEF h
      <3> QED BY <2>5, <3>4 DEF g, l
    <2> QED BY <2>4, <2>5
  <1> QED BY <1>6 DEF W
-----------------------------------------------------------------------------
(* The scan of the data registers. *)

AckOk(a) == a \in [1..3 -> Bits]
DataOk(v) == \A e \in 1..Len(lens) : v[e] \in [1..DataBits -> Bits]

\* What the devices put into their data registers, and how many bits these have.
Cap(ir, a, w) == IF ir \in {ABORT, DPACC, APACC} THEN Cat(a, w) ELSE IF ir = IDCODE THEN w ELSE <<0>>
Caps(i, a, v) == [e \in 1..Len(lens) |-> Cap(i[e], a, v[e])]
DrSizes(i) == [e \in 1..Len(lens) |-> DrLen(i[e])]
DrIn(i, a, v) == FlattenSeq(Caps(i, a, v))
DrBits(i) == Total(DrSizes(i), Len(lens))

LEMMA DrLenIs ==
  ASSUME NEW ir
  PROVE  /\ DrLen(ir) \in Nat \ {0}
         /\ ir \in {ABORT, DPACC, APACC} => DrLen(ir) = DataBits + 3
         /\ ir = IDCODE => DrLen(ir) = DataBits
         /\ ir \notin {ABORT, DPACC, APACC, IDCODE} => DrLen(ir) = 1
  <1>1. DataBits \in Nat \ {0}
    BY DataAssumption
  <1>2. ABORT # IDCODE /\ DPACC # IDCODE /\ APACC # IDCODE
    BY DEF ABORT, DPACC, APACC, IDCODE
  <1>3. DrLen(ir) = IF ir \in {ABORT, DPACC, APACC} THEN DataBits + 3 ELSE IF ir = IDCODE THEN DataBits ELSE 1
    BY <1>2, Zenon DEF DrLen
  <1> QED BY <1>1, <1>2, <1>3

\* An access register holds the acknowledge and the word, that of IDCODE the word.
CapHolds(ir, a, w) ==
    /\ ir \in {ABORT, DPACC, APACC} =>
         /\ \A z \in 1..3 : Cap(ir, a, w)[z] = a[z]
         /\ \A z \in 1..DataBits : Cap(ir, a, w)[3 + z] = w[z]
    /\ ir = IDCODE => \A z \in 1..DataBits : Cap(ir, a, w)[z] = w[z]

LEMMA CapIs ==
  ASSUME NEW ir, NEW a, AckOk(a), NEW w \in [1..DataBits -> Bits]
  PROVE  Cap(ir, a, w) \in Seq(Bits) /\ Len(Cap(ir, a, w)) = DrLen(ir) /\ CapHolds(ir, a, w)
  <1>1. DataBits \in Nat \ {0} /\ 3 \in Nat
    BY DataAssumption
  <1>2. w \in Seq(Bits) /\ Len(w) = DataBits
    BY <1>1, FunSeq
  <1>3. a \in Seq(Bits) /\ Len(a) = 3
    <2>1. a \in [1..3 -> Bits]
      BY DEF AckOk
    <2> QED BY ONLY <1>1, <2>1, FunSeq
  <1>4. ABORT # IDCODE /\ DPACC # IDCODE /\ APACC # IDCODE
    BY DEF ABORT, DPACC, APACC, IDCODE
  <1> DEFINE g == Cap(ir, a, w)
  <1>5. CASE ir \in {ABORT, DPACC, APACC}
    <2>1. g = Cat(a, w)
      BY <1>5, Zenon DEF Cap
    <2>2. /\ Cat(a, w) \in Seq(Bits) /\ Len(Cat(a, w)) = Len(a) + Len(w)
          /\ \A k \in 1..Len(a) : Cat(a, w)[k] = a[k]
          /\ \A k \in 1..Len(w) : Cat(a, w)[Len(a) + k] = w[k]
      <3>1. a \in Seq(Bits) /\ w \in Seq(Bits)
        BY <1>2, <1>3
      <3> QED BY ONLY <3>1 DEF Cat
    <2> HIDE DEF g
    <2>3. g \in Seq(Bits) /\ Len(g) = DataBits + 3 /\ (\A k \in 1..3 : g[k] = a[k])
             /\ \A k \in 1..DataBits : g[3 + k] = w[k]
      BY <1>1, <1>2, <1>3, <2>1, <2>2
    <2>4. DrLen(ir) = DataBits + 3 /\ ir # IDCODE
      BY <1>4, <1>5, DrLenIs
    <2> QED BY <2>3, <2>4 DEF g, CapHolds
  <1>6. CASE ir = IDCODE
    <2>1. g = w /\ ir \notin {ABORT, DPACC, APACC}
      BY <1>4, <1>6, Zenon DEF Cap
    <2> HIDE DEF g
    <2>2. DrLen(ir) = DataBits
      BY <1>6, DrLenIs
    <2> QED BY <1>2, <1>6, <2>1, <2>2 DEF g, CapHolds
  <1>7. CASE ir \notin {ABORT, DPACC, APACC, IDCODE}
    <2>1. g = <<0>>
      BY <1>7, Zenon DEF Cap
    <2> HIDE DEF g
    <2>2. DrLen(ir) = 1
      BY <1>7, DrLenIs
    <2>3. g \in Seq(Bits) /\ Len(g) = 1
      BY <2>1 DEF Bits
    <2> QED BY <1>7, <2>2, <2>3 DEF g, CapHolds
  <1> QED BY <1>5, <1>6, <1>7

LEMMA CapsAre ==
  ASSUME LensOk, NEW i, NEW a, AckOk(a), NEW v, DataOk(v)
  PROVE  /\ Caps(i, a, v) \in Seq(Seq(Bits)) /\ Len(Caps(i, a, v)) = Len(lens)
         /\ Sizes(Caps(i, a, v)) = DrSizes(i)
         /\ DrSizes(i) \in Seq(Nat) /\ Len(DrSizes(i)) = Len(lens)
         /\ \A e \in 1..Len(lens) : DrSizes(i)[e] = DrLen(i[e]) /\ Caps(i, a, v)[e] = Cap(i[e], a, v[e])
  <1> DEFINE N == Len(lens)
             c == Caps(i, a, v)
             z == DrSizes(i)
  <1>1. N \in Nat
    BY AllBitsAre
  <1>2. \A e \in 1..N : v[e] \in [1..DataBits -> Bits]
    BY DEF DataOk
  <1>3. c = [e \in 1..N |-> Cap(i[e], a, v[e])] /\ z = [e \in 1..N |-> DrLen(i[e])]
    BY DEF Caps, DrSizes
  <1>4. \A e \in 1..N : Cap(i[e], a, v[e]) \in Seq(Bits) /\ Len(Cap(i[e], a, v[e])) = DrLen(i[e])
    BY <1>2, CapIs
  <1>5. \A e \in 1..N : DrLen(i[e]) \in Nat
    BY DrLenIs
  <1> HIDE DEF N, c, z
  <1>6. c \in Seq(Seq(Bits)) /\ Len(c) = N /\ \A e \in 1..N : c[e] = Cap(i[e], a, v[e])
    BY ONLY <1>1, <1>3, <1>4
  <1>7. z \in Seq(Nat) /\ Len(z) = N /\ \A e \in 1..N : z[e] = DrLen(i[e])
    BY ONLY <1>1, <1>3, <1>5
  <1>8. Sizes(c) = z
    <2>1. Sizes(c) \in Seq(Nat) /\ Len(Sizes(c)) = Len(c) /\ \A e \in 1..Len(c) : Sizes(c)[e] = Len(c[e])
      BY ONLY <1>6, SizesAre
    <2> DEFINE y == Sizes(c)
    <2> HIDE DEF y
    <2>2. y \in Seq(Nat) /\ Len(y) = Len(z) /\ \A e \in 1..Len(y) : y[e] = z[e]
      BY <1>4, <1>6, <1>7, <2>1 DEF y
    <2>3. y = z
      BY ONLY <1>7, <2>2, SeqEqual
    <2> QED BY <2>3 DEF y
  <1> QED BY <1>6, <1>7, <1>8 DEF N, c, z

LEMMA DrBitsAre ==
  ASSUME LensOk, NEW i, NEW a, AckOk(a), NEW v, DataOk(v)
  PROVE  /\ DrBits(i) \in Nat \ {0}
         /\ \A e \in 0..Len(lens) : Total(DrSizes(i), e) \in 0..DrBits(i)
         /\ IsJoin(DrIn(i, a, v), Caps(i, a, v), Len(lens), Bits)
         /\ DrIn(i, a, v) \in Seq(Bits) /\ Len(DrIn(i, a, v)) = DrBits(i)
  <1> DEFINE c == Caps(i, a, v)
             z == DrSizes(i)
             N == Len(lens)
             j == DrIn(i, a, v)
  <1>1. /\ c \in Seq(Seq(Bits)) /\ Len(c) = N /\ Sizes(c) = z /\ z \in Seq(Nat) /\ Len(z) = N
        /\ \A e \in 1..N : z[e] = DrLen(i[e])
    BY CapsAre
  <1>2. N \in Nat /\ N > 0
    BY AllBitsAre DEF LensOk
  <1> HIDE DEF c, z, N
  <1>3. IsJoin(j, c, N, Bits)
    <2>1. c \in Seq(Seq(Bits)) /\ Len(c) > 0
      BY <1>1, <1>2
    <2>2. IsJoin(FlattenSeq(c), c, Len(c), Bits)
      BY ONLY <2>1, FlattenIs
    <2> QED BY <1>1, <2>2 DEF DrIn, c
  <1>4. \A e \in 0..N : Total(z, e) \in Nat
    BY <1>1, TotalNat
  <1>5. ASSUME NEW e \in 0..N PROVE Total(z, e) <= Total(z, N)
    <2>1. N \in e..Len(z) /\ e \in 0..Len(z)
      BY <1>1, <1>2
    <2> QED BY <1>1, <2>1, TotalGrows
  <1>6. Total(z, 1) \in Nat \ {0}
    <2>1. 1 \in 1..Len(z) /\ 1 - 1 = 0
      BY <1>1, <1>2
    <2>2. Total(z, 0) = 0 /\ Total(z, 1) = Total(z, 0) + z[1]
      BY <1>1, <2>1, TotalIs
    <2>3. z[1] \in Nat \ {0}
      BY <1>1, <2>1, DrLenIs
    <2> QED BY <2>2, <2>3
  <1>7. DrBits(i) = Total(z, N)
    BY DEF DrBits, z, N
  <1>8. Total(z, N) \in Nat \ {0} /\ \A e \in 0..N : Total(z, e) \in 0..Total(z, N)
    <2>1. 1 \in 0..N /\ N \in 0..N
      BY <1>2
    <2> QED BY <1>4, <1>5, <1>6, <2>1
  <1>9. j \in Seq(Bits) /\ Len(j) = Total(z, N)
    BY <1>1, <1>3 DEF IsJoin
  <1> QED BY <1>3, <1>7, <1>8, <1>9 DEF c, z, N, j

LEMMA CaptureDr ==
  ASSUME LensOk, NEW i, IrsOk(i), NEW s, NEW o, NEW d, NEW a, NEW v, NEW b
  PROVE  Clock(Jt("Capture-DR", s, o, i, d, a, v), Pin(0, b)) = Jt("Shift-DR", DrIn(i, a, v), o, i, d, a, v)
  <1> DEFINE t == Jt("Capture-DR", s, o, i, d, a, v)
             p == Pin(0, b)
  <1>1. p.tms = 0
    BY DEF Pin
  <1>2. /\ t.tap = "Capture-DR" /\ t.irs = i /\ t.ack = a /\ t.data = v
        /\ \A x : WithTap(t, x) = Jt(x, s, o, i, d, a, v)
    BY JtFields
  <1>3. \A x : WithSr(Jt("Shift-DR", s, o, i, d, a, v), x) = Jt("Shift-DR", x, o, i, d, a, v)
    BY JtFields
  <1> HIDE DEF t, p
  <1> DEFINE g == FlattenSeq([e \in DOMAIN t.irs |-> Captured(t, e)])
  <1>4. g = DrIn(i, a, v)
    <2>1. DOMAIN i = 1..Len(lens)
      BY IrLensAre
    <2>2. ABORT # IDCODE /\ DPACC # IDCODE /\ APACC # IDCODE
      BY DEF ABORT, DPACC, APACC, IDCODE
    <2>3. ASSUME NEW e PROVE Captured(t, e) = Cap(i[e], a, v[e])
      <3>1. Captured(t, e) = CASE i[e] \in {ABORT, DPACC, APACC} -> Cat(a, v[e])
                               [] i[e] = IDCODE -> v[e]
                               [] OTHER -> <<0>>
        BY <1>2, Zenon DEF Captured, Cat
      <3> QED BY <2>2, <3>1, Zenon DEF Cap
    <2>4. [e \in DOMAIN t.irs |-> Captured(t, e)] = Caps(i, a, v)
      BY <1>2, <2>1, <2>3 DEF Caps
    <2> QED BY <2>4 DEF DrIn
  <1>5. Clock(t, p) = WithSr(WithTap(t, TapNext(t.tap, p.tms)), g)
    BY <1>2, ClockCases
  <1> HIDE DEF g
  <1>6. TapNext("Capture-DR", 0) = "Shift-DR"
    BY DEF TapNext
  <1>7. Clock(t, p) = Jt("Shift-DR", DrIn(i, a, v), o, i, d, a, v)
    BY <1>1, <1>2, <1>3, <1>4, <1>5, <1>6
  <1> QED BY <1>7 DEF t, p

\* What a scan of W leaves in the data registers.
Taken(i, W) == [e \in 1..Len(lens) |-> Segment(W, DrSizes(i), e)]

LEMMA UpdateDr ==
  ASSUME LensOk, NEW i, IrsOk(i), NEW W, NEW o, NEW d, NEW a, NEW v, NEW b
  PROVE  Clock(Jt("Update-DR", W, o, i, d, a, v), Pin(0, b)) = Jt("Idle", W, o, i, Taken(i, W), a, v)
  <1> DEFINE t == Jt("Update-DR", W, o, i, d, a, v)
             p == Pin(0, b)
  <1>1. p.tms = 0
    BY DEF Pin
  <1>2. t.tap = "Update-DR" /\ t.irs = i /\ t.sr = W /\ \A x : WithTap(t, x) = Jt(x, W, o, i, d, a, v)
    BY JtFields
  <1>3. \A x : WithDrs(Jt("Idle", W, o, i, d, a, v), x) = Jt("Idle", W, o, i, x, a, v)
    BY JtFields
  <1> HIDE DEF t, p
  <1> DEFINE g == [e \in DOMAIN t.irs |-> Segment(t.sr, DrLens(t), e)]
  <1>4. g = Taken(i, W)
    <2>1. DOMAIN i = 1..Len(lens)
      BY IrLensAre
    <2>2. DrLens(t) = DrSizes(i)
      BY <1>2, <2>1, Zenon DEF DrLens, DrSizes
    <2> QED BY <1>2, <2>1, <2>2 DEF Taken
  <1>5. Clock(t, p) = WithDrs(WithTap(t, TapNext(t.tap, p.tms)), g)
    BY <1>2, ClockCases
  <1> HIDE DEF g
  <1>6. TapNext("Update-DR", 0) = "Idle"
    BY DEF TapNext
  <1>7. Clock(t, p) = Jt("Idle", W, o, i, Taken(i, W), a, v)
    BY <1>1, <1>2, <1>3, <1>4, <1>5, <1>6
  <1> QED BY <1>7 DEF t, p

LEMMA ClocksSplit ==
  ASSUME NEW x \in Nat
  PROVE  Clocks(0, 1, 2 + x) = Cat(Clocks(0, 1, 2), Clocks(0, 1, x))
  <1> DEFINE a == Clocks(0, 1, 2 + x)
             b == Clocks(0, 1, 2)
             c == Clocks(0, 1, x)
  <1>1. 0 \in Bits /\ 1 \in Bits /\ 2 \in Nat /\ 2 + x \in Nat
    BY DEF Bits
  <1>2. a \in Seq(Pins) /\ Len(a) = 2 + x /\ \A z \in 1..(2 + x) : a[z] = Pin(0, 1)
    BY <1>1, ClocksAre
  <1>3. /\ b \in Seq(Pins) /\ Len(b) = 2 /\ \A z \in 1..2 : b[z] = Pin(0, 1)
        /\ c \in Seq(Pins) /\ Len(c) = x /\ \A z \in 1..x : c[z] = Pin(0, 1)
    BY <1>1, ClocksAre
  <1> HIDE DEF a, b, c
  <1> DEFINE e == Cat(b, c)
  <1>4. e \in Seq(Pins) /\ Len(e) = 2 + x /\ \A z \in 1..(2 + x) : e[z] = Pin(0, 1)
    <2>1. /\ e \in Seq(Pins) /\ Len(e) = Len(b) + Len(c)
          /\ \A k \in 1..Len(b) : e[k] = b[k]
          /\ \A k \in 1..Len(c) : e[Len(b) + k] = c[k]
      <3>1. b \in Seq(Pins) /\ c \in Seq(Pins)
        BY <1>3
      <3> QED BY ONLY <3>1 DEF Cat
    <2> HIDE DEF e
    <2>2. ASSUME NEW z \in 1..(2 + x) PROVE e[z] = Pin(0, 1)
      <3>1. CASE z <= 2
        BY <1>3, <2>1, <3>1
      <3>2. CASE z > 2
        <4> DEFINE y == z - 2
        <4>1. y \in 1..x /\ 2 + y = z
          BY <3>2
        <4> HIDE DEF y
        <4>2. e[2 + y] = c[y]
          BY <1>3, <2>1, <4>1
        <4>3. c[y] = Pin(0, 1)
          BY <1>3, <4>1
        <4> QED BY <4>1, <4>2, <4>3
      <3> QED BY <3>1, <3>2
    <2> QED BY <1>3, <2>1, <2>2
  <1> HIDE DEF e
  <1>5. Len(a) = Len(e) /\ \A z \in 1..Len(a) : a[z] = e[z]
    BY <1>2, <1>4
  <1>6. a = e
    BY ONLY <1>2, <1>4, <1>5, SeqEqual
  <1> QED BY <1>6 DEF a, b, c, e

\* A register of which nothing has been shifted, and one before the next piece of a scan.
LEMMA ShStart ==
  ASSUME NEW C \in Seq(Bits), NEW bits \in Seq(Bits), NEW tap, NEW i, NEW d, NEW a, NEW v
  PROVE  Jt(tap, C, <<>>, i, d, a, v) = Sh(tap, Cat(C, bits), Len(C), 0, 0, i, d, a, v)
  <1> DEFINE S == Cat(C, bits)
             n == Len(C)
             w == SubSeq(S, 0 + 1, 0 + n)
  <1>1. n \in Nat /\ Len(bits) \in Nat
    BY LenProperties
  <1>2. S \in Seq(Bits) /\ Len(S) = n + Len(bits) /\ \A k \in 1..n : S[k] = C[k]
    BY DEF Cat
  <1> HIDE DEF S
  <1>3. w \in Seq(Bits) /\ Len(w) = (0 + n) - 0 /\ \A z \in 1..((0 + n) - 0) : w[z] = S[0 + z]
    <2>1. 0 \in Nat /\ 0 + n \in Nat /\ 0 <= 0 + n /\ 0 + n <= Len(S)
      BY <1>1, <1>2
    <2> HIDE DEF n
    <2> QED BY <1>2, <2>1, PartOf
  <1> HIDE DEF w
  <1>4. w \in Seq(Bits) /\ Len(w) = Len(C) /\ \A z \in 1..Len(w) : w[z] = C[z]
    BY <1>1, <1>2, <1>3
  <1>5. w = C
    BY <1>4, SeqEqual
  <1>6. SubSeq(S, 0 + 1, 0) = <<>>
    BY <1>2
  <1> QED BY <1>5, <1>6 DEF Sh, S, n, w

LEMMA ShNext ==
  ASSUME NEW S \in Seq(Bits), NEW n, NEW j, NEW k \in Nat, NEW tap, NEW i, NEW d, NEW a, NEW v, NEW cs
  PROVE  Run(Sh(tap, S, n, j, k, i, d, a, v), cs) = After(Sh(tap, S, n, k, k, i, d, a, v), cs)
  <1>1. SubSeq(S, k + 1, k) = <<>>
    OBVIOUS
  <1> DEFINE w == SubSeq(S, k + 1, k + n)
             o == SubSeq(S, j + 1, k)
  <1> HIDE DEF w, o
  <1>2. [Jt(tap, w, o, i, d, a, v) EXCEPT !.tdo = <<>>] = Jt(tap, w, <<>>, i, d, a, v)
    BY DEF Jt
  <1>3. Sh(tap, S, n, j, k, i, d, a, v) = Jt(tap, w, o, i, d, a, v)
    BY Zenon DEF Sh, w, o
  <1>4. Sh(tap, S, n, k, k, i, d, a, v) = Jt(tap, w, <<>>, i, d, a, v)
    BY <1>1, Zenon DEF Sh, w
  <1> QED BY <1>2, <1>3, <1>4, Zenon DEF Run

LEMMA RunJt ==
  ASSUME NEW tap, NEW s, NEW o, NEW i, NEW d, NEW a, NEW v, NEW cs
  PROVE  Run(Jt(tap, s, o, i, d, a, v), cs) = After(Jt(tap, s, <<>>, i, d, a, v), cs)
  <1>1. [Jt(tap, s, o, i, d, a, v) EXCEPT !.tdo = <<>>] = Jt(tap, s, <<>>, i, d, a, v)
    BY DEF Jt
  <1> QED BY <1>1, Zenon DEF Run

\* Idle to Shift-DR, and ones for the first x bits.
DrWay(x) == Cat(Clocks(1, 1, 1), Clocks(0, 1, 2 + x))
Ahead(bits, x) == x <= Len(bits) /\ \A z \in 1..x : bits[z] = 1

LEMMA DrHead ==
  ASSUME LensOk, NEW i, IrsOk(i), NEW s, NEW d, NEW a, AckOk(a), NEW v, DataOk(v),
         NEW x \in Nat, NEW bits \in Seq(Bits), Ahead(bits, x)
  PROVE  /\ After(Jt("Idle", s, <<>>, i, d, a, v), DrWay(x))
               = Sh("Shift-DR", Cat(DrIn(i, a, v), bits), DrBits(i), 0, x, i, d, a, v)
         /\ DrWay(x) \in Seq(Pins)
  <1> DEFINE c1 == Clocks(1, 1, 1)
             c2 == Clocks(0, 1, 2)
             c3 == Clocks(0, 1, x)
             C == DrIn(i, a, v)
             n == DrBits(i)
             S == Cat(C, bits)
             T(k) == Sh("Shift-DR", S, n, 0, k, i, d, a, v)
             t0 == Jt("Idle", s, <<>>, i, d, a, v)
  <1>1. 0 \in Bits /\ 1 \in Bits /\ 1 \in Nat /\ 2 \in Nat /\ 0 \in Nat
    BY DEF Bits
  <1>2. /\ TapNext("Idle", 1) = "Select-DR" /\ TapNext("Select-DR", 0) = "Capture-DR"
    BY DEF TapNext
  <1>3. Clock(t0, Pin(1, 1)) = Jt("Select-DR", s, <<>>, i, d, a, v)
    <2>1. Clock(t0, Pin(1, 1)) = Jt(TapNext("Idle", 1), s, <<>>, i, d, a, v)
      BY Passes
    <2> QED BY <1>2, <2>1
  <1>4. Clock(Jt("Select-DR", s, <<>>, i, d, a, v), Pin(0, 1)) = Jt("Capture-DR", s, <<>>, i, d, a, v)
    <2>1. Clock(Jt("Select-DR", s, <<>>, i, d, a, v), Pin(0, 1))
                = Jt(TapNext("Select-DR", 0), s, <<>>, i, d, a, v)
      BY Passes
    <2> QED BY <1>2, <2>1
  <1>5. Clock(Jt("Capture-DR", s, <<>>, i, d, a, v), Pin(0, 1)) = Jt("Shift-DR", C, <<>>, i, d, a, v)
    BY CaptureDr
  <1>6. After(t0, c1) = Jt("Select-DR", s, <<>>, i, d, a, v)
    BY <1>1, <1>3, ClockOnce
  <1>7. After(Jt("Select-DR", s, <<>>, i, d, a, v), c2) = Jt("Shift-DR", C, <<>>, i, d, a, v)
    BY <1>1, <1>4, <1>5, ClockTwice
  <1>8. C \in Seq(Bits) /\ Len(C) = n /\ n \in Nat \ {0}
    BY DrBitsAre
  <1>9. Jt("Shift-DR", C, <<>>, i, d, a, v) = T(0)
    <2>1. Jt("Shift-DR", C, <<>>, i, d, a, v) = Sh("Shift-DR", Cat(C, bits), Len(C), 0, 0, i, d, a, v)
      BY <1>8, ShStart
    <2> QED BY <1>8, <2>1
  <1>10. /\ S \in Seq(Bits) /\ Len(S) = n + Len(bits) /\ \A k \in 1..Len(bits) : S[n + k] = bits[k]
    <2> HIDE DEF C, n
    <2>1. /\ S \in Seq(Bits) /\ Len(S) = Len(C) + Len(bits)
          /\ \A k \in 1..Len(C) : S[k] = C[k]
          /\ \A k \in 1..Len(bits) : S[Len(C) + k] = bits[k]
      <3>1. bits \in Seq(Bits)
        OBVIOUS
      <3> QED BY ONLY <1>8, <3>1 DEF Cat
    <2> HIDE DEF S
    <2> QED BY <1>8, <2>1
  <1>11. After(T(0), c3) = T(x)
    <2> HIDE DEF C, n, S
    <2>1. 0 + n \in Nat /\ 0 + n + x <= Len(S) /\ 0 + x = x /\ 0 <= 0 /\ "Shift-DR" \in {"Shift-DR", "Shift-IR"}
          /\ Len(bits) \in Nat /\ x <= Len(bits)
      BY <1>8, <1>10, LenProperties DEF Ahead
    <2>2. \A w \in 1..x : S[(0 + n) + w] = 1
      <3> TAKE w \in 1..x
      <3>1. w \in 1..Len(bits) /\ (0 + n) + w = n + w
        BY <1>8, <2>1
      <3> QED BY <1>10, <3>1 DEF Ahead
    <2>3. Runs(c3, x, S, 0 + n)
      BY <2>1, <2>2, ClocksRun
    <2> HIDE DEF c3
    <2>4. After(T(0), c3) = T(0 + x)
      BY <1>1, <1>8, <1>10, <2>1, <2>3, ShiftRun
    <2> QED BY <2>1, <2>4
  <1>12. c1 \in Seq(Pins) /\ c2 \in Seq(Pins) /\ c3 \in Seq(Pins)
    BY <1>1, ClocksAre
  <1>13. DrWay(x) = Cat(c1, Cat(c2, c3))
    BY ClocksSplit, Zenon DEF DrWay
  <1> DEFINE t1 == Jt("Select-DR", s, <<>>, i, d, a, v)
             e0 == T(0)
             ex == T(x)
  <1>14. After(t0, c1) = t1 /\ After(t1, c2) = e0 /\ After(e0, c3) = ex
    BY <1>6, <1>7, <1>9, <1>11
  <1> HIDE DEF c1, c2, c3, t0, t1, e0, ex
  <1>15. Cat(c2, c3) \in Seq(Pins) /\ After(t1, Cat(c2, c3)) = ex
    BY ONLY <1>12, <1>14, Then
  <1> DEFINE q == Cat(c2, c3)
  <1> HIDE DEF q
  <1>16. Cat(c1, q) \in Seq(Pins) /\ After(t0, Cat(c1, q)) = ex
    BY ONLY <1>12, <1>14, <1>15, Then DEF q
  <1> QED BY <1>13, <1>16 DEF q, t0, ex

\* Exit1-DR to Idle.
LEMMA DrTail ==
  ASSUME LensOk, NEW i, IrsOk(i), NEW s, NEW o, NEW d, NEW a, NEW v
  PROVE  Run(Jt("Exit1-DR", s, o, i, d, a, v), AccessTail) = Jt("Idle", s, <<>>, i, Taken(i, s), a, v)
  <1>1. 0 \in Bits /\ 1 \in Bits /\ 1 \in Nat
    BY DEF Bits
  <1>2. TapNext("Exit1-DR", 1) = "Update-DR"
    BY DEF TapNext
  <1> DEFINE t == Jt("Exit1-DR", s, <<>>, i, d, a, v)
             c6 == Clocks(1, 1, 1)
             c7 == Clocks(0, 1, 1)
             u == Jt("Update-DR", s, <<>>, i, d, a, v)
             R == Jt("Idle", s, <<>>, i, Taken(i, s), a, v)
  <1>3. Clock(t, Pin(1, 1)) = u
    <2>1. Clock(t, Pin(1, 1)) = Jt(TapNext("Exit1-DR", 1), s, <<>>, i, d, a, v)
      BY Passes
    <2> QED BY <1>2, <2>1
  <1>4. After(t, c6) = u
    BY <1>1, <1>3, ClockOnce
  <1>5. Clock(u, Pin(0, 1)) = R
    BY UpdateDr
  <1>6. After(u, c7) = R
    BY <1>1, <1>5, ClockOnce
  <1>7. c6 \in Seq(Pins) /\ c7 \in Seq(Pins)
    BY <1>1, ClocksAre
  <1>8. AccessTail = Cat(c6, c7)
    BY Zenon DEF AccessTail, Cat
  <1>9. Run(Jt("Exit1-DR", s, o, i, d, a, v), AccessTail) = After(t, AccessTail)
    BY RunJt
  <1> HIDE DEF c6, c7, t, u, R
  <1>10. After(t, Cat(c6, c7)) = R
    BY ONLY <1>4, <1>6, <1>7, Then
  <1> QED BY <1>8, <1>9, <1>10 DEF R

\* The first m bits that go into the data registers: ones for x devices, a request, a
\* word, ones.
InBits(x, request, word, m) ==
    [z \in 1..m |-> IF z \in (x + 1)..(x + 3) THEN request[z - x]
                    ELSE IF z \in (x + 4)..(x + 3 + DataBits) THEN word[z - (x + 3)] ELSE 1]

LEMMA InBitsAre ==
  ASSUME NEW x \in Nat, NEW request \in [1..3 -> Bits], NEW word \in [1..DataBits -> Bits], NEW m \in Nat
  PROVE  LET b == InBits(x, request, word, m)
         IN /\ b \in Seq(Bits) /\ Len(b) = m
            /\ \A z \in 1..x : z <= m => b[z] = 1
            /\ \A z \in 1..3 : x + z <= m => b[x + z] = request[z]
            /\ \A z \in 1..DataBits : (x + 3) + z <= m => b[(x + 3) + z] = word[z]
            /\ \A z \in 1..m : (x + 3 + DataBits) + z <= m => b[(x + 3 + DataBits) + z] = 1
  <1> DEFINE N == DataBits
             b == [z \in 1..m |-> IF z \in (x + 1)..(x + 3) THEN request[z - x]
                                  ELSE IF z \in (x + 4)..(x + 3 + N) THEN word[z - (x + 3)] ELSE 1]
  <1>1. N \in Nat
    BY DataAssumption
  <1>2. b = InBits(x, request, word, m)
    BY DEF InBits
  <1>3. word \in [1..N -> Bits]
    OBVIOUS
  <1> HIDE DEF N
  <1>4. 1 \in Bits
    BY DEF Bits
  <1>5. ASSUME NEW z \in 1..m
        PROVE  (IF z \in (x + 1)..(x + 3) THEN request[z - x]
                ELSE IF z \in (x + 4)..(x + 3 + N) THEN word[z - (x + 3)] ELSE 1) \in Bits
    <2>1. z \in (x + 1)..(x + 3) => z - x \in 1..3
      OBVIOUS
    <2>2. z \in (x + 4)..(x + 3 + N) => z - (x + 3) \in 1..N
      BY <1>1
    <2> QED BY <1>3, <1>4, <2>1, <2>2
  <1>6. b \in Seq(Bits) /\ Len(b) = m
    BY <1>5
  <1>7. \A z \in 1..x : z <= m => b[z] = 1
    BY <1>1
  <1>8. \A z \in 1..3 : x + z <= m => b[x + z] = request[z]
    <2> TAKE z \in 1..3
    <2> HAVE x + z <= m
    <2>1. x + z \in 1..m /\ x + z \in (x + 1)..(x + 3) /\ (x + z) - x = z
      OBVIOUS
    <2> QED BY <2>1
  <1>9. \A z \in 1..N : (x + 3) + z <= m => b[(x + 3) + z] = word[z]
    <2> TAKE z \in 1..N
    <2> HAVE (x + 3) + z <= m
    <2>1. (x + 3) + z \in 1..m /\ (x + 3) + z \notin (x + 1)..(x + 3) /\ (x + 3) + z \in (x + 4)..(x + 3 + N)
          /\ ((x + 3) + z) - (x + 3) = z
      BY <1>1
    <2> QED BY <2>1
  <1>10. \A z \in 1..m : (x + 3 + N) + z <= m => b[(x + 3 + N) + z] = 1
    <2> TAKE z \in 1..m
    <2> HAVE (x + 3 + N) + z <= m
    <2>1. (x + 3 + N) + z \in 1..m /\ (x + 3 + N) + z \notin (x + 1)..(x + 3)
             /\ (x + 3 + N) + z \notin (x + 4)..(x + 3 + N)
      BY <1>1
    <2> QED BY <2>1
  <1> HIDE DEF b
  <1> QED BY <1>2, <1>6, <1>7, <1>8, <1>9, <1>10 DEF N

\* The bits of the data registers and those that go into them.
Stream(i, a, v, x, request, word, m) == Cat(DrIn(i, a, v), InBits(x, request, word, m))
IsStream(S, i, a, v, x, request, word, m) ==
    /\ S \in Seq(Bits) /\ Len(S) = DrBits(i) + m
    /\ \A k \in 1..DrBits(i) : S[k] = DrIn(i, a, v)[k]
    /\ \A z \in 1..x : z <= m => S[DrBits(i) + z] = 1
    /\ \A z \in 1..3 : x + z <= m => S[DrBits(i) + (x + z)] = request[z]
    /\ \A z \in 1..DataBits : (x + 3) + z <= m => S[DrBits(i) + ((x + 3) + z)] = word[z]
    /\ \A z \in 1..m : (x + 3 + DataBits) + z <= m => S[DrBits(i) + ((x + 3 + DataBits) + z)] = 1

LEMMA StreamIs ==
  ASSUME LensOk, NEW i, NEW a, AckOk(a), NEW v, DataOk(v),
         NEW x \in Nat, NEW request \in [1..3 -> Bits], NEW word \in [1..DataBits -> Bits], NEW m \in Nat
  PROVE  IsStream(Stream(i, a, v, x, request, word, m), i, a, v, x, request, word, m)
  <1> DEFINE C == DrIn(i, a, v)
             n == DrBits(i)
             b == InBits(x, request, word, m)
             N == DataBits
             S == Cat(C, b)
  <1>1. /\ b \in Seq(Bits) /\ Len(b) = m
        /\ \A z \in 1..x : z <= m => b[z] = 1
        /\ \A z \in 1..3 : x + z <= m => b[x + z] = request[z]
        /\ \A z \in 1..N : (x + 3) + z <= m => b[(x + 3) + z] = word[z]
        /\ \A z \in 1..m : (x + 3 + N) + z <= m => b[(x + 3 + N) + z] = 1
    BY InBitsAre
  <1>2. C \in Seq(Bits) /\ Len(C) = n /\ n \in Nat
    BY DrBitsAre
  <1>n. N \in Nat
    BY DataAssumption
  <1> HIDE DEF C, n, b, N
  <1>3. /\ S \in Seq(Bits) /\ Len(S) = Len(C) + Len(b)
        /\ \A k \in 1..Len(C) : S[k] = C[k]
        /\ \A k \in 1..Len(b) : S[Len(C) + k] = b[k]
    <2>1. C \in Seq(Bits) /\ b \in Seq(Bits)
      BY <1>1, <1>2
    <2> QED BY ONLY <2>1 DEF Cat
  <1> HIDE DEF S
  <1>4. Len(S) = n + m /\ (\A k \in 1..n : S[k] = C[k]) /\ \A k \in 1..m : S[n + k] = b[k]
    BY <1>1, <1>2, <1>3
  <1>5. \A z \in 1..x : z <= m => S[n + z] = 1
    <2> TAKE z \in 1..x
    <2> HAVE z <= m
    <2>1. z \in 1..m
      OBVIOUS
    <2> QED BY <1>1, <1>4, <2>1
  <1>6. \A z \in 1..3 : x + z <= m => S[n + (x + z)] = request[z]
    <2> TAKE z \in 1..3
    <2> HAVE x + z <= m
    <2>1. x + z \in 1..m
      OBVIOUS
    <2> QED BY <1>1, <1>4, <2>1
  <1>7. \A z \in 1..N : (x + 3) + z <= m => S[n + ((x + 3) + z)] = word[z]
    <2> TAKE z \in 1..N
    <2> HAVE (x + 3) + z <= m
    <2>1. (x + 3) + z \in 1..m
      OBVIOUS
    <2> QED BY <1>1, <1>4, <2>1
  <1>8. \A z \in 1..m : (x + 3 + N) + z <= m => S[n + ((x + 3 + N) + z)] = 1
    <2> TAKE z \in 1..m
    <2> HAVE (x + 3 + N) + z <= m
    <2>1. (x + 3 + N) + z \in 1..m
      BY <1>n
    <2> QED BY <1>1, <1>4, <2>1
  <1>9. S = Stream(i, a, v, x, request, word, m)
    BY DEF S, C, b, Stream
  <1> QED BY <1>3, <1>4, <1>5, <1>6, <1>7, <1>8, <1>9 DEF IsStream, C, n, N

\* The bits q, or ones, are the next to go in behind place y.
Feeds(S, y, m, q) == q \in [1..m -> Bits] /\ \A z \in 1..m : S[y + z] = q[z]
FeedsOnes(S, y, m) == \A z \in 1..m : S[y + z] = 1

LEMMA Shifts ==
  ASSUME NEW S, NEW y \in Nat, NEW m \in Nat, NEW q, Feeds(S, y, m, q)
  PROVE  Runs(Shift(q, 0), m, S, y) /\ Shift(q, 0) \in Seq(Pins)
  <1>1. q \in Seq(Bits) /\ Len(q) = m /\ \A z \in 1..m : S[y + z] = q[z]
    <2>1. q \in [1..m -> Bits]
      BY DEF Feeds
    <2>2. q \in Seq(Bits) /\ Len(q) = m
      BY <2>1, FunSeq
    <2> QED BY <2>2 DEF Feeds
  <1>2. \A z \in 1..Len(q) : S[y + z] = q[z]
    BY <1>1
  <1>3. Runs(Shift(q, 0), Len(q), S, y)
    BY <1>1, <1>2, BitsRun
  <1> QED BY <1>1, <1>3 DEF Runs

LEMMA Ones ==
  ASSUME NEW S, NEW y \in Nat, NEW m \in Nat, FeedsOnes(S, y, m)
  PROVE  Runs(Clocks(0, 1, m), m, S, y) /\ Clocks(0, 1, m) \in Seq(Pins)
  <1>1. Runs(Clocks(0, 1, m), m, S, y)
    BY ClocksRun DEF FeedsOnes
  <1> QED BY <1>1 DEF Runs

\* The first half of an access: what comes out of the first bits.
LEMMA AccessAsks ==
  ASSUME LensOk, NEW i, IrsOk(i), NEW s, NEW o, NEW d, NEW a, AckOk(a), NEW v, DataOk(v),
         NEW request \in [1..3 -> Bits], NEW word \in [1..DataBits -> Bits],
         dev_index \in Nat, NEW m \in Nat, dev_index + 3 <= m
  PROVE  Run(Jt("Idle", s, o, i, d, a, v), AccessHead(request))
            = Sh("Shift-DR", Stream(i, a, v, dev_index, request, word, m), DrBits(i), 0, dev_index + 3, i, d, a, v)
  <1> DEFINE x == dev_index
             b == InBits(x, request, word, m)
             S == Stream(i, a, v, x, request, word, m)
             n == DrBits(i)
             c1 == DrWay(x)
             c2 == Shift(request, 0)
             t0 == Jt("Idle", s, <<>>, i, d, a, v)
             t1 == Sh("Shift-DR", S, n, 0, x, i, d, a, v)
             t2 == Sh("Shift-DR", S, n, 0, x + 3, i, d, a, v)
  <1>1. x \in Nat /\ x + 3 <= m /\ n \in Nat \ {0}
    BY DrBitsAre
  <1>2. After(t0, c1) = t1 /\ c1 \in Seq(Pins)
    <2> HIDE DEF x
    <2>1. b \in Seq(Bits) /\ Len(b) = m /\ \A z \in 1..x : z <= m => b[z] = 1
      <3>1. /\ b \in Seq(Bits) /\ Len(b) = m
            /\ \A z \in 1..x : z <= m => b[z] = 1
            /\ \A z \in 1..3 : x + z <= m => b[x + z] = request[z]
            /\ \A z \in 1..DataBits : (x + 3) + z <= m => b[(x + 3) + z] = word[z]
            /\ \A z \in 1..m : (x + 3 + DataBits) + z <= m => b[(x + 3 + DataBits) + z] = 1
        <4>1. m \in Nat /\ request \in [1..3 -> Bits] /\ word \in [1..DataBits -> Bits]
          OBVIOUS
        <4> QED BY ONLY ZenonT(60), <1>1, <4>1, InBitsAre
      <3> QED BY <3>1
    <2>2. Ahead(b, x)
      <3> HIDE DEF b
      <3> QED BY <1>1, <2>1 DEF Ahead
    <2> HIDE DEF b
    <2>3. /\ After(Jt("Idle", s, <<>>, i, d, a, v), DrWay(x))
               = Sh("Shift-DR", Cat(DrIn(i, a, v), b), DrBits(i), 0, x, i, d, a, v)
          /\ DrWay(x) \in Seq(Pins)
      BY <1>1, <2>1, <2>2, DrHead
    <2>4. S = Cat(DrIn(i, a, v), b)
      BY DEF Stream, b
    <2> QED BY <2>3, <2>4
  <1>3. After(t1, c2) = t2 /\ c2 \in Seq(Pins)
    <2> HIDE DEF x
    <2>1. IsStream(S, i, a, v, x, request, word, m)
      BY <1>1, StreamIs
    <2> HIDE DEF S
    <2>2. S \in Seq(Bits) /\ Len(S) = n + m /\ \A z \in 1..3 : x + z <= m => S[n + (x + z)] = request[z]
      BY <2>1 DEF IsStream
    <2> HIDE DEF n
    <2>3. Feeds(S, x + n, 3, request)
      <3> SUFFICES ASSUME NEW z \in 1..3 PROVE S[(x + n) + z] = request[z]
        BY DEF Feeds
      <3>1. x + z <= m /\ (x + n) + z = n + (x + z)
        BY <1>1
      <3> QED BY <2>2, <3>1
    <2>4. x + n + 3 <= Len(S) /\ 0 <= x /\ 0 \in Nat /\ 3 \in Nat
      BY <1>1, <2>2
    <2>5. S \in Seq(Bits) /\ n \in Nat \ {0} /\ x \in Nat /\ 0 <= x /\ x + n + 3 <= Len(S) /\ x + n \in Nat
      BY <1>1, <2>2, <2>4
    <2>6. Runs(c2, 3, S, x + n) /\ c2 \in Seq(Pins)
      BY <2>3, <2>4, <2>5, Shifts
    <2>7. "Shift-DR" \in {"Shift-DR", "Shift-IR"}
      OBVIOUS
    <2> HIDE DEF c2
    <2> QED BY <2>4, <2>5, <2>6, <2>7, ShiftRun
  <1>4. AccessHead(request) = Cat(c1, c2)
    BY Zenon DEF AccessHead, DrWay, Cat
  <1>5. Run(Jt("Idle", s, o, i, d, a, v), AccessHead(request)) = After(t0, AccessHead(request))
    BY RunJt
  <1> HIDE DEF c1, c2, t0, t1, t2
  <1>6. After(t0, Cat(c1, c2)) = t2
    BY ONLY <1>2, <1>3, Then
  <1> QED BY <1>4, <1>5, <1>6 DEF t2

\* The second half: the word, and ones for the devices behind.
AccessLength(x) == x + 3 + DataBits + Behind

LEMMA AccessMoves ==
  ASSUME LensOk, NEW i, NEW d, NEW a, AckOk(a), NEW v, DataOk(v),
         NEW request \in [1..3 -> Bits], NEW word \in [1..DataBits -> Bits],
         NEW x \in Nat, Behind \in Nat, NEW m, m = AccessLength(x)
  PROVE  LET S == Stream(i, a, v, x, request, word, m)
         IN Run(Sh("Shift-DR", S, DrBits(i), 0, x + 3, i, d, a, v), AccessData(word))
               = Sh("Exit1-DR", S, DrBits(i), x + 3, m, i, d, a, v)
  <1> DEFINE S == Stream(i, a, v, x, request, word, m)
             n == DrBits(i)
             N == DataBits
             h == Behind
             k == x + 3
             T(g) == Sh("Shift-DR", S, n, k, g, i, d, a, v)
             E == Sh("Exit1-DR", S, n, k, m, i, d, a, v)
  <1>1. n \in Nat \ {0} /\ N \in Nat \ {0} /\ h \in Nat /\ word \in [1..N -> Bits] /\ m = x + 3 + N + h
    BY DrBitsAre, DataAssumption DEF AccessLength
  <1>2. /\ S \in Seq(Bits) /\ Len(S) = n + m
        /\ \A z \in 1..N : (x + 3) + z <= m => S[n + ((x + 3) + z)] = word[z]
        /\ \A z \in 1..m : (x + 3 + N) + z <= m => S[n + ((x + 3 + N) + z)] = 1
    <2>1. m \in Nat
      BY <1>1
    <2>2. IsStream(S, i, a, v, x, request, word, m)
      BY <2>1, StreamIs
    <2> HIDE DEF S
    <2> QED BY <2>2 DEF IsStream
  <1> HIDE DEF S, n, N
  <1>3. Run(Sh("Shift-DR", S, n, 0, k, i, d, a, v), AccessData(word)) = After(T(k), AccessData(word))
    <2>1. k \in Nat
      OBVIOUS
    <2> QED BY <1>2, <2>1, ShNext
  <1>w. word \in Seq(Bits) /\ Len(word) = N /\ 0 \in Bits /\ 1 \in Bits /\ 0 \in Nat /\ 1 \in Nat
    BY <1>1, FunSeq DEF Bits
  <1>4. CASE h > 0
    <2> DEFINE c1 == Shift(word, 0)
               c2 == Clocks(0, 1, h - 1)
               c3 == Clocks(1, 1, 1)
    <2>1. After(T(k), c1) = T(k + N) /\ c1 \in Seq(Pins)
      <3>1. Feeds(S, k + n, N, word)
        <4> SUFFICES ASSUME NEW z \in 1..N PROVE S[(k + n) + z] = word[z]
          BY <1>1 DEF Feeds
        <4>1. (x + 3) + z <= m /\ (k + n) + z = n + ((x + 3) + z)
          BY <1>1
        <4> QED BY <1>2, <4>1
      <3>2. k + n \in Nat /\ k + n + N <= Len(S) /\ k <= k /\ k \in Nat /\ N \in Nat /\ S \in Seq(Bits)
        BY <1>1, <1>2
      <3> HIDE DEF k
      <3>3. Runs(c1, N, S, k + n) /\ c1 \in Seq(Pins)
        BY <3>1, <3>2, Shifts
      <3>4. "Shift-DR" \in {"Shift-DR", "Shift-IR"}
        OBVIOUS
      <3> HIDE DEF c1
      <3> QED BY <1>1, <3>2, <3>3, <3>4, ShiftRun
    <2>2. After(T(k + N), c2) = T(k + N + (h - 1)) /\ c2 \in Seq(Pins)
      <3> DEFINE g == h - 1
                 p == k + N
      <3>1. g \in Nat /\ p \in Nat /\ k <= p /\ p + n \in Nat /\ p + n + g <= Len(S) /\ k \in Nat
               /\ S \in Seq(Bits)
        BY <1>1, <1>2, <1>4
      <3>2. FeedsOnes(S, p + n, g)
        <4> SUFFICES ASSUME NEW z \in 1..g PROVE S[(p + n) + z] = 1
          BY DEF FeedsOnes
        <4>1. z \in 1..m /\ (x + 3 + N) + z <= m /\ (p + n) + z = n + ((x + 3 + N) + z)
          BY <1>1, <1>4
        <4> QED BY <1>2, <4>1
      <3> HIDE DEF g, p, k
      <3> DEFINE c == Clocks(0, 1, g)
      <3>3. Runs(c, g, S, p + n) /\ c \in Seq(Pins)
        BY <3>1, <3>2, Ones
      <3>4. "Shift-DR" \in {"Shift-DR", "Shift-IR"}
        OBVIOUS
      <3> HIDE DEF c
      <3>5. After(T(p), c) = T(p + g)
        BY <1>1, <3>1, <3>3, <3>4, ShiftRun
      <3> QED BY <3>3, <3>5 DEF g, p, c
    <2>3. After(T(k + N + (h - 1)), c3) = E
      <3> DEFINE p == k + N + (h - 1)
      <3>1. p \in Nat /\ k <= p /\ p + n + 1 <= Len(S) /\ k \in Nat /\ S \in Seq(Bits) /\ p + 1 = m
        BY <1>1, <1>2, <1>4
      <3>2. S[p + n + 1] = 1
        <4>1. h \in 1..m /\ (x + 3 + N) + h <= m /\ n + ((x + 3 + N) + h) = p + n + 1
          BY <1>1, <1>4
        <4> QED BY <1>2, <4>1
      <3> HIDE DEF p, k
      <3>3. After(T(p), Clocks(1, 1, 1)) = Sh("Exit1-DR", S, n, k, p + 1, i, d, a, v)
        BY <1>1, <3>1, <3>2, Leaves
      <3> QED BY <3>1, <3>3 DEF p
    <2>4. c3 \in Seq(Pins)
      BY <1>w, ClocksAre
    <2>5. AccessData(word) = Cat(Cat(c1, c2), c3)
      BY <1>4, Zenon DEF AccessData, Cat
    <2> DEFINE t == T(k)
               t1 == T(k + N)
               t2 == T(k + N + (h - 1))
    <2>6. After(t, c1) = t1 /\ After(t1, c2) = t2 /\ After(t2, c3) = E
      BY <2>1, <2>2, <2>3
    <2>7. c1 \in Seq(Pins) /\ c2 \in Seq(Pins)
      BY <2>1, <2>2
    <2> HIDE DEF c1, c2, c3, t, t1, t2, E
    <2>8. After(t, Cat(Cat(c1, c2), c3)) = E
      BY ONLY <2>4, <2>6, <2>7, ThenThen
    <2> QED BY <1>3, <2>5, <2>8 DEF t, E, S, n, k
  <1>5. CASE h = 0
    <2> DEFINE q == SubSeq(word, 1, N - 1)
               l == SubSeq(word, N, N)
               c1 == Shift(q, 0)
               c2 == Shift(l, 1)
               M == N - 1
    <2>0. M \in Nat /\ M + 1 = N
      BY <1>1
    <2>1. q \in [1..M -> Bits] /\ \A z \in 1..M : q[z] = word[z]
      <3> DEFINE y == SubSeq(word, 0 + 1, M)
      <3>1. y \in Seq(Bits) /\ Len(y) = M - 0 /\ \A z \in 1..(M - 0) : y[z] = word[0 + z]
        <4>1. 0 <= M /\ M <= Len(word)
          BY <1>w, <2>0
        <4> HIDE DEF M
        <4> QED BY <1>w, <2>0, <4>1, PartOf
      <3>2. 0 + 1 = 1 /\ q = y
        OBVIOUS
      <3> HIDE DEF y, M
      <3>3. y \in Seq(Bits) /\ Len(y) = M /\ \A z \in 1..M : y[z] = word[z]
        BY <2>0, <3>1
      <3>4. y \in [1..M -> Bits]
        BY <3>3
      <3> HIDE DEF q
      <3> QED BY <3>2, <3>3, <3>4
    <2>2. l \in Seq(Bits) /\ Len(l) = 1 /\ l[1] = word[N]
      <3> DEFINE y == SubSeq(word, M + 1, N)
      <3>1. y \in Seq(Bits) /\ Len(y) = N - M /\ \A z \in 1..(N - M) : y[z] = word[M + z]
        <4>1. M <= N /\ N <= Len(word) /\ N \in Nat
          BY <1>1, <1>w, <2>0
        <4> HIDE DEF M
        <4> QED BY ZenonT(60), <1>w, <2>0, <4>1, PartOf
      <3>2. l = y
        BY <2>0
      <3> HIDE DEF y, M
      <3>3. N - M = 1
        BY <1>1, <2>0
      <3>4. 1 \in 1..1
        OBVIOUS
      <3>5. y \in Seq(Bits) /\ Len(y) = 1 /\ y[1] = word[M + 1]
        BY <3>1, <3>3, <3>4
      <3> HIDE DEF l
      <3> QED BY <2>0, <3>2, <3>5
    <2> HIDE DEF q, l
    <2>3. After(T(k), c1) = T(k + M) /\ c1 \in Seq(Pins)
      <3>1. Feeds(S, k + n, M, q)
        <4> SUFFICES ASSUME NEW z \in 1..M PROVE S[(k + n) + z] = q[z]
          BY <2>1 DEF Feeds
        <4>1. z \in 1..N /\ (x + 3) + z <= m /\ (k + n) + z = n + ((x + 3) + z)
          BY <1>1, <2>0
        <4> QED BY <1>2, <2>1, <4>1
      <3>2. k + n \in Nat /\ k + n + M <= Len(S) /\ k <= k /\ k \in Nat /\ M \in Nat /\ S \in Seq(Bits)
               /\ n \in Nat \ {0}
        BY <1>1, <1>2, <2>0
      <3> HIDE DEF k, M
      <3>3. Runs(c1, M, S, k + n) /\ c1 \in Seq(Pins)
        BY <3>1, <3>2, Shifts
      <3>4. "Shift-DR" \in {"Shift-DR", "Shift-IR"}
        OBVIOUS
      <3> HIDE DEF c1
      <3> QED BY <3>2, <3>3, <3>4, ShiftRun
    <2>4. After(T(k + M), c2) = E
      <3> DEFINE p == k + M
      <3>1. p \in Nat /\ k <= p /\ p + n + 1 <= Len(S) /\ k \in Nat /\ S \in Seq(Bits) /\ p + 1 = m
        BY <1>1, <1>2, <1>5, <2>0
      <3>2. S[p + n + 1] = l[1]
        <4>1. N \in 1..N /\ (x + 3) + N <= m /\ n + ((x + 3) + N) = p + n + 1
          BY <1>1, <2>0
        <4> QED BY <1>2, <2>2, <4>1
      <3> HIDE DEF p, k
      <3>3. After(T(p), Shift(l, 1)) = Sh("Exit1-DR", S, n, k, p + 1, i, d, a, v)
        BY <1>1, <2>2, <3>1, <3>2, Leaves
      <3> QED BY <3>1, <3>3 DEF p
    <2>5. c2 \in Seq(Pins)
      BY <1>w, <2>2, ShiftAre
    <2>6. AccessData(word) = Cat(c1, c2)
      <3>1. ~(Behind > 0)
        BY <1>5
      <3> QED BY <3>1, Zenon DEF AccessData, Cat, q, l, N
    <2> DEFINE t == T(k)
               t1 == T(k + M)
    <2>7. After(t, c1) = t1 /\ After(t1, c2) = E /\ c1 \in Seq(Pins)
      BY <2>3, <2>4
    <2> HIDE DEF c1, c2, t, t1, E
    <2>8. After(t, Cat(c1, c2)) = E
      BY ONLY <2>5, <2>7, Then
    <2> QED BY <1>3, <2>6, <2>8 DEF t, E, S, n, k
  <1> QED BY <1>1, <1>4, <1>5 DEF S, n, k

\* An access that is not acknowledged ends after one more bit.
LEMMA AccessStops ==
  ASSUME LensOk, NEW i, NEW d, NEW a, AckOk(a), NEW v, DataOk(v),
         NEW request \in [1..3 -> Bits], NEW x \in Nat
  PROVE  LET S == Stream(i, a, v, x, request, Bypass(DataBits), x + 4)
         IN Run(Sh("Shift-DR", S, DrBits(i), 0, x + 3, i, d, a, v), Clocks(1, 1, 1))
               = Sh("Exit1-DR", S, DrBits(i), x + 3, x + 4, i, d, a, v)
  <1> DEFINE word == Bypass(DataBits)
             S == Stream(i, a, v, x, request, word, x + 4)
             n == DrBits(i)
             k == x + 3
  <1>1. n \in Nat \ {0} /\ DataBits \in Nat \ {0} /\ k \in Nat /\ k + 1 = x + 4 /\ x + 4 \in Nat
    BY DrBitsAre, DataAssumption
  <1>2. word \in [1..DataBits -> Bits] /\ word[1] = 1
    <2>1. word \in Seq(Bits) /\ Len(word) = DataBits /\ \A z \in 1..DataBits : word[z] = 1
      BY <1>1, BypassIs
    <2>2. 1 \in 1..DataBits
      BY <1>1
    <2> HIDE DEF word
    <2> QED BY <2>1, <2>2
  <1> HIDE DEF word
  <1>3. /\ S \in Seq(Bits) /\ Len(S) = n + (x + 4)
        /\ \A z \in 1..DataBits : (x + 3) + z <= x + 4 => S[n + ((x + 3) + z)] = word[z]
    <2>1. IsStream(S, i, a, v, x, request, word, x + 4)
      BY <1>1, <1>2, StreamIs
    <2> HIDE DEF S
    <2> QED BY <2>1 DEF IsStream
  <1> HIDE DEF S, n
  <1>4. S[k + n + 1] = 1
    <2>1. 1 \in 1..DataBits /\ (x + 3) + 1 <= x + 4 /\ n + ((x + 3) + 1) = k + n + 1
      BY <1>1
    <2> QED BY <1>2, <1>3, <2>1
  <1>5. k <= k /\ k + n + 1 <= Len(S)
    BY <1>1, <1>3
  <1> HIDE DEF k
  <1>6. Run(Sh("Shift-DR", S, n, 0, k, i, d, a, v), Clocks(1, 1, 1))
           = After(Sh("Shift-DR", S, n, k, k, i, d, a, v), Clocks(1, 1, 1))
    BY <1>1, <1>3, ShNext
  <1>7. After(Sh("Shift-DR", S, n, k, k, i, d, a, v), Clocks(1, 1, 1))
              = Sh("Exit1-DR", S, n, k, k + 1, i, d, a, v)
    <2>1. S \in Seq(Bits) /\ n \in Nat \ {0} /\ k \in Nat
      BY <1>1, <1>3
    <2> QED BY ONLY <1>4, <1>5, <2>1, Leaves
  <1> QED BY <1>1, <1>6, <1>7 DEF S, n, k, word

\* The scan of dap_jtag_idcode: ones go in.
IdStream(i, a, v) == Stream(i, a, v, dev_index, Bypass(3), Bypass(DataBits), dev_index + DataBits)

LEMMA IdScan ==
  ASSUME LensOk, NEW i, IrsOk(i), NEW s, NEW o, NEW d, NEW a, AckOk(a), NEW v, DataOk(v), dev_index \in Nat
  PROVE  Run(Jt("Idle", s, o, i, d, a, v), IdcodeScan)
            = Sh("Exit1-DR", IdStream(i, a, v), DrBits(i), 0, dev_index + DataBits, i, d, a, v)
  <1> DEFINE x == dev_index
             N == DataBits
             r == Bypass(3)
             w == Bypass(N)
             m == x + N
             b == InBits(x, r, w, m)
             S == Stream(i, a, v, x, r, w, m)
             n == DrBits(i)
             c1 == DrWay(x)
             c2 == Clocks(0, 1, N - 1)
             c3 == Clocks(1, 1, 1)
             t0 == Jt("Idle", s, <<>>, i, d, a, v)
             t1 == Sh("Shift-DR", S, n, 0, x, i, d, a, v)
             t2 == Sh("Shift-DR", S, n, 0, x + (N - 1), i, d, a, v)
             t3 == Sh("Exit1-DR", S, n, 0, m, i, d, a, v)
  <1>1. x \in Nat /\ n \in Nat \ {0} /\ N \in Nat \ {0} /\ m \in Nat /\ 0 \in Nat
    BY DrBitsAre, DataAssumption
  <1>2. r \in [1..3 -> Bits] /\ \A z \in 1..3 : r[z] = 1
    <2>1. 3 \in Nat
      OBVIOUS
    <2>2. r \in Seq(Bits) /\ Len(r) = 3 /\ \A z \in 1..3 : r[z] = 1
      BY <2>1, BypassIs
    <2> HIDE DEF r
    <2> QED BY <2>2
  <1>3. w \in [1..DataBits -> Bits] /\ \A z \in 1..DataBits : w[z] = 1
    <2>2. w \in Seq(Bits) /\ Len(w) = N /\ \A z \in 1..N : w[z] = 1
      BY <1>1, BypassIs
    <2> HIDE DEF w
    <2> QED BY <2>2
  <1> HIDE DEF r, w, x
  <1>4. After(t0, c1) = t1 /\ c1 \in Seq(Pins)
    <2>1. b \in Seq(Bits) /\ Len(b) = m /\ \A z \in 1..x : z <= m => b[z] = 1
      <3>1. /\ b \in Seq(Bits) /\ Len(b) = m
            /\ \A z \in 1..x : z <= m => b[z] = 1
            /\ \A z \in 1..3 : x + z <= m => b[x + z] = r[z]
            /\ \A z \in 1..DataBits : (x + 3) + z <= m => b[(x + 3) + z] = w[z]
            /\ \A z \in 1..m : (x + 3 + DataBits) + z <= m => b[(x + 3 + DataBits) + z] = 1
        <4>1. x \in Nat /\ m \in Nat /\ r \in [1..3 -> Bits] /\ w \in [1..DataBits -> Bits]
          BY <1>1, <1>2, <1>3
        <4> HIDE DEF m, N
        <4> QED BY ONLY <4>1, InBitsAre
      <3> QED BY <3>1
    <2>2. Ahead(b, x)
      <3> HIDE DEF b
      <3> QED BY <1>1, <2>1 DEF Ahead
    <2> HIDE DEF b
    <2>3. /\ After(Jt("Idle", s, <<>>, i, d, a, v), DrWay(x))
               = Sh("Shift-DR", Cat(DrIn(i, a, v), b), DrBits(i), 0, x, i, d, a, v)
          /\ DrWay(x) \in Seq(Pins)
      BY <1>1, <2>1, <2>2, DrHead
    <2>4. S = Cat(DrIn(i, a, v), b)
      BY DEF Stream, b
    <2> QED BY <2>3, <2>4
  <1>5. S \in Seq(Bits) /\ Len(S) = n + m /\ \A z \in 1..m : S[n + z] = 1
    <2>1. IsStream(S, i, a, v, x, r, w, m)
      <3> HIDE DEF m
      <3> QED BY <1>1, <1>2, <1>3, StreamIs
    <2> HIDE DEF S
    <2>2. /\ S \in Seq(Bits) /\ Len(S) = n + m
          /\ \A z \in 1..x : z <= m => S[n + z] = 1
          /\ \A z \in 1..3 : x + z <= m => S[n + (x + z)] = r[z]
          /\ \A z \in 1..N : (x + 3) + z <= m => S[n + ((x + 3) + z)] = w[z]
      BY <2>1 DEF IsStream
    <2> HIDE DEF n, N
    <2>3. ASSUME NEW z \in 1..m PROVE S[n + z] = 1
      <3>1. CASE z <= x
        <4>1. z \in 1..x /\ z <= m
          BY <1>1, <3>1
        <4> QED BY <2>2, <4>1
      <3>2. CASE z > x /\ z <= x + 3
        <4> DEFINE y == z - x
        <4>1. y \in 1..3 /\ x + y <= m /\ x + y = z
          BY <1>1, <3>2
        <4> HIDE DEF y
        <4>2. S[n + (x + y)] = r[y] /\ r[y] = 1
          BY <1>2, <2>2, <4>1
        <4> QED BY <4>1, <4>2
      <3>3. CASE z > x + 3
        <4> DEFINE y == z - (x + 3)
        <4>1. y \in 1..N /\ (x + 3) + y <= m /\ (x + 3) + y = z
          BY <1>1, <3>3
        <4> HIDE DEF y
        <4>2. S[n + ((x + 3) + y)] = w[y] /\ w[y] = 1
          BY <1>3, <2>2, <4>1 DEF N
        <4> QED BY <4>1, <4>2
      <3> QED BY <1>1, <3>1, <3>2, <3>3
    <2> QED BY <2>2, <2>3
  <1> HIDE DEF S, n, N
  <1>6. After(t1, c2) = t2 /\ c2 \in Seq(Pins)
    <2> DEFINE g == N - 1
    <2>1. g \in Nat /\ 0 <= x /\ x + n \in Nat /\ x + n + g <= Len(S) /\ S \in Seq(Bits)
      BY <1>1, <1>5
    <2>2. FeedsOnes(S, x + n, g)
      <3> SUFFICES ASSUME NEW z \in 1..g PROVE S[(x + n) + z] = 1
        BY DEF FeedsOnes
      <3>1. x + z \in 1..m /\ (x + n) + z = n + (x + z)
        BY <1>1
      <3> QED BY <1>5, <3>1
    <2> HIDE DEF g
    <2> DEFINE c == Clocks(0, 1, g)
    <2>3. Runs(c, g, S, x + n) /\ c \in Seq(Pins)
      BY <2>1, <2>2, Ones
    <2>4. "Shift-DR" \in {"Shift-DR", "Shift-IR"}
      OBVIOUS
    <2> HIDE DEF c
    <2>5. After(Sh("Shift-DR", S, n, 0, x, i, d, a, v), c) = Sh("Shift-DR", S, n, 0, x + g, i, d, a, v)
      BY <1>1, <2>1, <2>3, <2>4, ShiftRun
    <2> QED BY <2>3, <2>5 DEF g, c
  <1>7. After(t2, c3) = t3
    <2> DEFINE p == x + (N - 1)
    <2>1. p \in Nat /\ 0 <= p /\ p + n + 1 <= Len(S) /\ S \in Seq(Bits) /\ p + 1 = m
      BY <1>1, <1>5
    <2>2. S[p + n + 1] = 1
      <3>1. m \in 1..m /\ n + m = p + n + 1
        BY <1>1
      <3> QED BY <1>5, <3>1
    <2> HIDE DEF p
    <2>3. After(Sh("Shift-DR", S, n, 0, p, i, d, a, v), Clocks(1, 1, 1))
                = Sh("Exit1-DR", S, n, 0, p + 1, i, d, a, v)
      BY <1>1, <2>1, <2>2, Leaves
    <2> QED BY <2>1, <2>3 DEF p
  <1>8. c3 \in Seq(Pins)
    <2>1. 1 \in Bits /\ 1 \in Nat
      BY DEF Bits
    <2> QED BY <2>1, ClocksAre
  <1>9. IdcodeScan = Cat(Cat(c1, c2), c3)
    BY Zenon DEF IdcodeScan, DrWay, Cat, N, x
  <1>10. Run(Jt("Idle", s, o, i, d, a, v), IdcodeScan) = After(t0, IdcodeScan)
    BY RunJt
  <1>11. IdStream(i, a, v) = S
    BY DEF IdStream, S, r, w, N, x
  <1> HIDE DEF c1, c2, c3, t0, t1, t2, t3
  <1>12. After(t0, Cat(Cat(c1, c2), c3)) = t3
    BY ONLY <1>4, <1>6, <1>7, <1>8, ThenThen
  <1> QED BY <1>9, <1>10, <1>11, <1>12 DEF t3, n, x, N
-----------------------------------------------------------------------------
(* What a scan does when the device is the one addressed. *)

LEMMA TotalOnes ==
  ASSUME NEW s \in Seq(Nat), NEW p \in 0..Len(s), NEW q \in p..Len(s), \A e \in (p + 1)..q : s[e] = 1
  PROVE  Total(s, q) = Total(s, p) + (q - p)
  <1> DEFINE T == {n \in Nat : p + n <= q => Total(s, p + n) = Total(s, p) + n}
  <1>1. Len(s) \in Nat /\ p \in Nat /\ q \in Nat /\ q - p \in Nat /\ p + (q - p) = q /\ q <= Len(s)
    OBVIOUS
  <1>2. \A k \in 0..Len(s) : Total(s, k) \in Nat
    BY TotalNat
  <1>3. 0 \in T
    BY <1>1, <1>2
  <1>4. ASSUME NEW n \in T PROVE n + 1 \in T
    <2> SUFFICES ASSUME p + (n + 1) <= q PROVE Total(s, p + (n + 1)) = Total(s, p) + (n + 1)
      OBVIOUS
    <2>1. p + (n + 1) \in 1..Len(s) /\ (p + (n + 1)) - 1 = p + n /\ p + (n + 1) \in (p + 1)..q /\ p + n <= q
      BY <1>1
    <2>2. Total(s, p + (n + 1)) = Total(s, p + n) + s[p + (n + 1)]
      BY <2>1, TotalIs
    <2>3. s[p + (n + 1)] = 1
      BY <2>1
    <2>4. Total(s, p + n) = Total(s, p) + n
      BY <2>1
    <2> QED BY <1>1, <1>2, <2>2, <2>3, <2>4
  <1>5. T \in SUBSET Nat
    OBVIOUS
  <1> HIDE DEF T
  <1>6. T = Nat
    BY ONLY <1>3, <1>4, <1>5, Induct
  <1>7. q - p \in T
    BY <1>1, <1>6
  <1>8. Total(s, p + (q - p)) = Total(s, p) + (q - p)
    BY <1>1, <1>7 DEF T
  <1> QED BY <1>1, <1>8

\* Bypass is none of the instructions with a longer register.
LEMMA BypassOther ==
  ASSUME NEW l \in Nat, l > 0
  PROVE  DrLen(Bypass(l)) = 1
  <1>1. \A z \in 1..l : Bypass(l)[z] = 1
    BY BypassIs
  <1>2. DOMAIN Bypass(l) = 1..l
    BY DEF Bypass
  <1>3. Bypass(l)[1] = 1
    BY <1>1
  <1>4. ABORT[1] = 0 /\ DPACC[1] = 0 /\ IDCODE[1] = 0
    BY DEF ABORT, DPACC, IDCODE
  <1>5. APACC[3] = 0 /\ DOMAIN APACC = 1..4
    BY DEF APACC
  <1> DEFINE g == Bypass(l)
  <1> HIDE DEF g
  <1>6. g # APACC
    <2> SUFFICES ASSUME g = APACC PROVE FALSE
      OBVIOUS
    <2>1. 1..l = 1..4
      BY <1>2, <1>5 DEF g
    <2>2. 3 \in 1..l
      BY <2>1
    <2>3. g[3] = 1
      BY <1>1, <2>2 DEF g
    <2> QED BY <1>5, <2>3
  <1>7. g \notin {ABORT, DPACC, APACC, IDCODE}
    BY <1>3, <1>4, <1>6 DEF g
  <1>8. DrLen(g) = 1
    BY <1>7, DrLenIs
  <1> QED BY <1>8 DEF g

\* Device D has instruction ir loaded, the others have bypass.
IrsAre(i, D, ir) == \A e \in 1..Len(lens) : i[e] = IF e = D THEN ir ELSE Bypass(lens[e])

LEMMA Addressed ==
  ASSUME LensOk, NEW D \in 1..Len(lens), NEW i, NEW ir, IrsAre(i, D, ir),
         NEW a, AckOk(a), NEW v, DataOk(v)
  PROVE  /\ Total(DrSizes(i), D - 1) = D - 1
         /\ Total(DrSizes(i), D) = (D - 1) + DrLen(ir)
         /\ DrBits(i) = (D - 1) + DrLen(ir) + (Len(lens) - D)
         /\ \A k \in 1..DrLen(ir) : DrIn(i, a, v)[(D - 1) + k] = Cap(ir, a, v[D])[k]
  <1> DEFINE z == DrSizes(i)
             N == Len(lens)
             L == DrLen(ir)
             c == Caps(i, a, v)
             j == DrIn(i, a, v)
  <1>1. /\ Sizes(c) = z /\ z \in Seq(Nat) /\ Len(z) = N /\ Len(c) = N
        /\ \A e \in 1..N : z[e] = DrLen(i[e]) /\ c[e] = Cap(i[e], a, v[e])
        /\ c \in Seq(Seq(Bits))
    BY CapsAre
  <1>2. N \in Nat /\ D \in 1..N
    BY AllBitsAre
  <1>3. L \in Nat
    BY DrLenIs
  <1>4. i[D] = ir
    BY DEF IrsAre
  <1>5. ASSUME NEW e \in 1..N, e # D PROVE z[e] = 1
    <2>1. i[e] = Bypass(lens[e])
      BY <1>5 DEF IrsAre
    <2>2. lens[e] \in Nat /\ lens[e] > 0
      BY DEF LensOk
    <2>3. DrLen(Bypass(lens[e])) = 1
      BY <2>2, BypassOther
    <2> QED BY <1>1, <2>1, <2>3
  <1>6. IsJoin(j, c, N, Bits)
    BY DrBitsAre
  <1>7. DrBits(i) = Total(z, N)
    BY DEF DrBits
  <1> HIDE DEF z, N, c, j
  <1>8. Total(z, D - 1) = D - 1
    <2>1. D - 1 \in 0..Len(z) /\ 0 \in 0..Len(z) /\ D - 1 \in Nat
      BY <1>1, <1>2
    <2>2. \A e \in 1..(D - 1) : z[e] = 1
      BY <1>2, <1>5
    <2>3. Total(z, 0) = 0
      BY <1>1, TotalIs
    <2> DEFINE y == D - 1
    <2>4. y \in 0..Len(z) /\ y \in Nat /\ \A e \in (0 + 1)..y : z[e] = 1
      BY <2>1, <2>2
    <2> HIDE DEF y
    <2>5. Total(z, y) = Total(z, 0) + (y - 0)
      BY <1>1, <2>1, <2>4, TotalOnes
    <2>6. Total(z, y) = y
      BY <2>3, <2>4, <2>5
    <2> QED BY <2>6 DEF y
  <1>9. Total(z, D) = (D - 1) + L
    <2>1. D \in 1..Len(z) /\ z[D] = L
      BY <1>1, <1>2, <1>4
    <2>2. Total(z, D) = Total(z, D - 1) + z[D]
      BY <1>1, <2>1, TotalIs
    <2> QED BY <1>8, <2>1, <2>2
  <1>10. Total(z, N) = (D - 1) + L + (N - D)
    <2>1. D \in 0..Len(z) /\ N \in D..Len(z)
      BY <1>1, <1>2
    <2>2. \A e \in (D + 1)..N : z[e] = 1
      BY <1>2, <1>5
    <2>3. Total(z, N) = Total(z, D) + (N - D)
      BY <1>1, <2>1, <2>2, TotalOnes
    <2> QED BY <1>9, <2>3
  <1>11. ASSUME NEW k \in 1..L PROVE j[(D - 1) + k] = Cap(ir, a, v[D])[k]
    <2>1. c[D] = Cap(ir, a, v[D])
      BY <1>1, <1>2, <1>4
    <2>2. Len(c[D]) = L
      <3>1. v[D] \in [1..DataBits -> Bits]
        BY DEF DataOk
      <3> QED BY <2>1, <3>1, CapIs
    <2>3. j[Total(z, D - 1) + k] = c[D][k]
      <3>1. \A e \in 1..N : \A y \in 1..Len(c[e]) : j[Total(z, e - 1) + y] = c[e][y]
        BY <1>1, <1>6 DEF IsJoin
      <3> QED BY <1>2, <2>2, <3>1
    <2> QED BY <1>8, <2>1, <2>3
  <1> QED BY <1>7, <1>8, <1>9, <1>10, <1>11 DEF z, N, j

LEMMA Inner ==
  ASSUME NEW S \in Seq(Bits), NEW j \in Nat, NEW k \in Nat, j <= k, k <= Len(S),
         NEW p \in Nat, NEW q \in Nat, p <= q, j + q <= k
  PROVE  LET w == SubSeq(SubSeq(S, j + 1, k), p + 1, q)
         IN /\ w \in Seq(Bits) /\ Len(w) = q - p
            /\ \A z \in 1..(q - p) : w[z] = S[(j + p) + z]
  <1> DEFINE u == SubSeq(S, j + 1, k)
             w == SubSeq(u, p + 1, q)
  <1>1. u \in Seq(Bits) /\ Len(u) = k - j /\ \A z \in 1..(k - j) : u[z] = S[j + z]
    BY PartOf
  <1> HIDE DEF u
  <1>2. q <= Len(u)
    BY <1>1
  <1>3. w \in Seq(Bits) /\ Len(w) = q - p /\ \A z \in 1..(q - p) : w[z] = u[p + z]
    BY <1>1, <1>2, PartOf
  <1> HIDE DEF w
  <1>4. ASSUME NEW z \in 1..(q - p) PROVE w[z] = S[(j + p) + z]
    <2>1. p + z \in 1..(k - j) /\ j + (p + z) = (j + p) + z
      OBVIOUS
    <2>2. w[z] = u[p + z] /\ u[p + z] = S[j + (p + z)]
      BY <1>1, <1>3, <2>1
    <2> QED BY <2>1, <2>2
  <1> QED BY <1>3, <1>4 DEF w, u

LEMMA SameBits ==
  ASSUME NEW n \in Nat, NEW w \in Seq(Bits), Len(w) = n, NEW f \in [1..n -> Bits], \A z \in 1..n : w[z] = f[z]
  PROVE  w = f
  <1>1. f \in Seq(Bits) /\ Len(f) = n
    BY FunSeq
  <1>2. Len(w) = Len(f) /\ \A z \in 1..Len(w) : w[z] = f[z]
    BY <1>1
  <1> QED BY <1>1, <1>2, SeqEqual

\* The bits of S behind place x are f.
At(S, x, N, f) == f \in [1..N -> Bits] /\ \A z \in 1..N : S[x + z] = f[z]

\* The last bits of those that came out.
LEMMA LastAre ==
  ASSUME NEW S \in Seq(Bits), NEW x \in Nat, NEW N \in Nat \ {0}, x + N <= Len(S),
         NEW f, At(S, x, N, f),
         NEW tap, NEW n, NEW i, NEW d, NEW a, NEW v
  PROVE  LastBits(Sh(tap, S, n, 0, x + N, i, d, a, v), N) = f
  <1> DEFINE o == SubSeq(S, 0 + 1, x + N)
             t == Sh(tap, S, n, 0, x + N, i, d, a, v)
             w == SubSeq(o, x + 1, x + N)
  <1>0. Len(S) \in Nat /\ 0 \in Nat
    BY LenProperties
  <1>1. t.tdo = o
    <2> DEFINE r == SubSeq(S, (x + N) + 1, (x + N) + n)
               g == SubSeq(S, 0 + 1, x + N)
    <2>1. t = Jt(tap, r, g, i, d, a, v)
      BY Zenon DEF Sh
    <2> HIDE DEF r, g
    <2>2. t.tdo = g
      BY ONLY <2>1, JtFields
    <2> QED BY <2>2 DEF g
  <1>2. Len(o) = x + N
    <2>1. 0 <= x + N /\ x + N \in Nat /\ (x + N) - 0 = x + N
      BY <1>0
    <2> DEFINE y == x + N
    <2> HIDE DEF y
    <2>2. Len(SubSeq(S, 0 + 1, y)) = y - 0
      BY <1>0, <2>1, PartOf DEF y
    <2> QED BY <2>1, <2>2 DEF y
  <1>3. LastBits(t, N) = w
    <2>1. (x + N) - N + 1 = x + 1
      OBVIOUS
    <2> HIDE DEF o, t
    <2> QED BY <1>1, <1>2, <2>1 DEF LastBits
  <1>4. w \in Seq(Bits) /\ Len(w) = N /\ \A z \in 1..N : w[z] = S[x + z]
    <2> DEFINE q == x + N
    <2>1. q \in Nat /\ 0 <= q /\ q <= Len(S) /\ x <= q /\ 0 + q <= q /\ q - x = N
      BY <1>0
    <2> HIDE DEF q
    <2>2. LET u == SubSeq(SubSeq(S, 0 + 1, q), x + 1, q)
          IN /\ u \in Seq(Bits) /\ Len(u) = q - x
             /\ \A z \in 1..(q - x) : u[z] = S[(0 + x) + z]
      BY <1>0, <2>1, Inner
    <2> DEFINE u == SubSeq(SubSeq(S, 0 + 1, q), x + 1, q)
    <2>3. u \in Seq(Bits) /\ Len(u) = q - x /\ \A z \in 1..(q - x) : u[z] = S[(0 + x) + z]
      BY <2>2
    <2>4. w = u
      BY DEF q
    <2> HIDE DEF u, w
    <2>5. 0 + x = x
      OBVIOUS
    <2> QED BY <2>1, <2>3, <2>4, <2>5
  <1> HIDE DEF w, t
  <1>5. f \in [1..N -> Bits] /\ \A z \in 1..N : w[z] = f[z]
    BY <1>4 DEF At
  <1>6. w = f
    BY <1>4, <1>5, SameBits
  <1> QED BY <1>3, <1>6 DEF t

\* The first bits of what came out behind place k.
Within(S, k, N, m) == /\ S \in Seq(Bits) /\ k \in Nat /\ N \in Nat \ {0} /\ m \in Nat
                      /\ k + N <= m /\ m <= Len(S)

LEMMA FirstAre ==
  ASSUME NEW S, NEW k, NEW N, NEW m, Within(S, k, N, m),
         NEW f, At(S, k, N, f),
         NEW tap, NEW n, NEW i, NEW d, NEW a, NEW v
  PROVE  SubSeq(Sh(tap, S, n, k, m, i, d, a, v).tdo, 1, N) = f
  <1> DEFINE o == SubSeq(S, k + 1, m)
             t == Sh(tap, S, n, k, m, i, d, a, v)
             w == SubSeq(o, 0 + 1, N)
  <1>a. /\ S \in Seq(Bits) /\ k \in Nat /\ N \in Nat \ {0} /\ m \in Nat
        /\ k + N <= m /\ m <= Len(S)
    BY DEF Within
  <1>0. Len(S) \in Nat /\ 0 \in Nat
    BY <1>a, LenProperties
  <1>1. t.tdo = o
    <2> DEFINE r == SubSeq(S, m + 1, m + n)
               g == SubSeq(S, k + 1, m)
    <2>1. t = Jt(tap, r, g, i, d, a, v)
      BY Zenon DEF Sh
    <2> HIDE DEF r, g
    <2>2. t.tdo = g
      BY ONLY <2>1, JtFields
    <2> QED BY <2>2 DEF g
  <1>2. 0 + 1 = 1
    OBVIOUS
  <1>3. w \in Seq(Bits) /\ Len(w) = N /\ \A z \in 1..N : w[z] = S[k + z]
    <2>1. k <= m /\ 0 <= N /\ N - 0 = N /\ k + 0 = k
      BY <1>a
    <2>2. w \in Seq(Bits) /\ Len(w) = N - 0 /\ \A z \in 1..(N - 0) : w[z] = S[(k + 0) + z]
      BY <1>0, <1>a, <2>1, Inner
    <2> HIDE DEF w
    <2> QED BY <2>1, <2>2
  <1> HIDE DEF w, t
  <1>4. f \in [1..N -> Bits] /\ \A z \in 1..N : w[z] = f[z]
    BY <1>3 DEF At
  <1>5. w = f
    BY <1>a, <1>3, <1>4, SameBits
  <1> QED BY <1>1, <1>2, <1>5 DEF t, w

\* The bits that are left in the register of device D.
LEMMA TakenIs ==
  ASSUME LensOk, NEW D \in 1..Len(lens), NEW i, NEW ir, IrsAre(i, D, ir),
         NEW a, AckOk(a), NEW v, DataOk(v),
         NEW S \in Seq(Bits), NEW m \in Nat, Len(S) = DrBits(i) + m,
         NEW f, At(S, m + (D - 1), DrLen(ir), f)
  PROVE  Taken(i, SubSeq(S, m + 1, m + DrBits(i)))[D] = f
  <1> DEFINE n == DrBits(i)
             L == DrLen(ir)
             x == D - 1
             W == SubSeq(S, m + 1, m + n)
             w == SubSeq(W, x + 1, x + L)
  <1>1. n \in Nat /\ L \in Nat
    BY DrBitsAre, DrLenIs
  <1>2. /\ Total(DrSizes(i), D - 1) = x /\ Total(DrSizes(i), D) = x + L
        /\ n = x + L + (Len(lens) - D) /\ x \in Nat /\ Len(lens) - D \in Nat
    <2>1. Len(lens) \in Nat
      BY AllBitsAre
    <2> QED BY <2>1, Addressed
  <1>3. Taken(i, W)[D] = w
    <2> HIDE DEF W, x, L
    <2> QED BY <1>2 DEF Taken, Segment
  <1> HIDE DEF n, L, x
  <1>4. w \in Seq(Bits) /\ Len(w) = L /\ \A z \in 1..L : w[z] = S[(m + x) + z]
    <2> DEFINE k == m + n
               q == x + L
    <2>1. k \in Nat /\ m <= k /\ k <= Len(S) /\ q \in Nat /\ x <= q /\ m + q <= k /\ q - x = L
      BY <1>1, <1>2 DEF n
    <2> HIDE DEF k, q
    <2>2. LET u == SubSeq(SubSeq(S, m + 1, k), x + 1, q)
          IN /\ u \in Seq(Bits) /\ Len(u) = q - x
             /\ \A z \in 1..(q - x) : u[z] = S[(m + x) + z]
      BY SMTT(30), <1>2, <2>1, Inner
    <2> DEFINE u == SubSeq(SubSeq(S, m + 1, k), x + 1, q)
    <2>3. u \in Seq(Bits) /\ Len(u) = q - x /\ \A z \in 1..(q - x) : u[z] = S[(m + x) + z]
      BY <2>2
    <2>4. w = u
      BY DEF k, q
    <2> HIDE DEF u, w
    <2> QED BY <2>1, <2>3, <2>4
  <1> HIDE DEF w, W
  <1>5. \A z \in 1..L : w[z] = f[z]
    <2> TAKE z \in 1..L
    <2>1. S[(m + x) + z] = f[z]
      BY DEF L, x, At
    <2> QED BY <1>4, <2>1
  <1>6. w = f
    <2>1. f \in [1..L -> Bits]
      BY DEF L, At
    <2> QED BY ONLY <1>1, <1>4, <1>5, <2>1, SameBits
  <1> QED BY <1>3, <1>6 DEF W, n

\* The bits of the device addressed are the first to come out behind those of the devices
\* before it.
LEMMA Heard ==
  ASSUME LensOk, NEW D \in 1..Len(lens), NEW i, NEW ir, IrsAre(i, D, ir),
         NEW a, AckOk(a), NEW v, DataOk(v),
         NEW S, NEW x, NEW request, NEW word, NEW m, IsStream(S, i, a, v, x, request, word, m)
  PROVE  /\ ir \in {ABORT, DPACC, APACC} =>
              /\ \A z \in 1..3 : S[(D - 1) + z] = a[z]
              /\ \A z \in 1..DataBits : S[((D - 1) + 3) + z] = v[D][z]
         /\ ir = IDCODE => \A z \in 1..DataBits : S[(D - 1) + z] = v[D][z]
  <1> DEFINE n == DrBits(i)
             L == DrLen(ir)
             y == D - 1
             C == DrIn(i, a, v)
             c == Cap(ir, a, v[D])
             r == Len(lens) - D
  <1>1. L \in Nat /\ y \in Nat /\ r \in Nat /\ DataBits \in Nat
    BY DrLenIs, AllBitsAre, DataAssumption
  <1>2. n = y + L + r /\ \A k \in 1..L : C[y + k] = c[k]
    BY Addressed
  <1>3. \A k \in 1..n : S[k] = C[k]
    BY DEF IsStream
  <1>4. /\ ir \in {ABORT, DPACC, APACC} =>
              /\ L = DataBits + 3
              /\ \A z \in 1..3 : c[z] = a[z]
              /\ \A z \in 1..DataBits : c[3 + z] = v[D][z]
        /\ ir = IDCODE => L = DataBits /\ \A z \in 1..DataBits : c[z] = v[D][z]
    <2>1. v[D] \in [1..DataBits -> Bits]
      BY DEF DataOk
    <2> DEFINE u == v[D]
    <2>a. u \in [1..DataBits -> Bits] /\ AckOk(a)
      BY <2>1
    <2> HIDE DEF u
    <2>b. CapHolds(ir, a, u)
      BY <2>a, CapIs
    <2>2. /\ ir \in {ABORT, DPACC, APACC} =>
               /\ \A z \in 1..3 : c[z] = a[z]
               /\ \A z \in 1..DataBits : c[3 + z] = v[D][z]
          /\ ir = IDCODE => \A z \in 1..DataBits : c[z] = v[D][z]
      BY <2>b DEF u, CapHolds
    <2>3. /\ ir \in {ABORT, DPACC, APACC} => L = DataBits + 3
          /\ ir = IDCODE => L = DataBits
      BY DrLenIs
    <2> HIDE DEF L
    <2> QED BY <2>2, <2>3
  <1> DEFINE P == ir \in {ABORT, DPACC, APACC}
             Q == ir = IDCODE
             w == v[D]
  <1> HIDE DEF n, L, y, C, c, r, P, Q, w
  <1>5. \A k \in 1..L : S[y + k] = c[k]
    <2> TAKE k \in 1..L
    <2>1. y + k \in 1..n
      BY <1>1, <1>2
    <2> QED BY <1>2, <1>3, <2>1
  <1>6. ASSUME P, NEW z \in 1..3 PROVE S[y + z] = a[z]
    <2>1. L = DataBits + 3 /\ c[z] = a[z]
      BY <1>4, <1>6 DEF P, w
    <2>2. z \in 1..L
      BY <1>1, <2>1
    <2> QED BY <1>5, <2>1, <2>2
  <1>7. ASSUME P, NEW z \in 1..DataBits PROVE S[(y + 3) + z] = w[z]
    <2>1. L = DataBits + 3 /\ c[3 + z] = w[z]
      BY <1>4, <1>7 DEF P, w
    <2>2. 3 + z \in 1..L /\ y + (3 + z) = (y + 3) + z
      BY <1>1, <2>1
    <2> QED BY <1>5, <2>1, <2>2
  <1>8. ASSUME Q, NEW z \in 1..DataBits PROVE S[y + z] = w[z]
    <2>1. L = DataBits /\ c[z] = w[z]
      BY <1>4, <1>8 DEF Q, w
    <2>2. z \in 1..L
      BY <2>1
    <2> QED BY <1>5, <2>1, <2>2
  <1> QED BY <1>6, <1>7, <1>8 DEF y, w, P, Q
-----------------------------------------------------------------------------
(* A whole access, on a chain L in Idle with the instruction loaded. *)

Asked(L, request) == Run(L, AccessHead(request))
Answer(L, request) == LastBits(Asked(L, request), 3)
Moved(L, request, word) ==
    Run(Asked(L, request), IF Answer(L, request) = AckCodes.OK THEN AccessData(word) ELSE Clocks(1, 1, 1))
Done(L, request, word) == Rest(Run(Moved(L, request, word), AccessTail))

LEMMA RestIs ==
  ASSUME NEW tap, NEW s, NEW o, NEW i, NEW d, NEW a, NEW v
  PROVE  Rest(Jt(tap, s, o, i, d, a, v)) = Jt(tap, <<>>, <<>>, i, d, a, v)
  <1>1. Rest(Jt(tap, s, o, i, d, a, v)) = WithSr(WithTdo(Jt(tap, s, o, i, d, a, v), <<>>), <<>>)
    BY DEF Rest, WithSr, WithTdo
  <1> QED BY <1>1, JtFields

\* After the last bit, the registers are updated with what is in them.
LEMMA ScanEnds ==
  ASSUME LensOk, NEW i, IrsOk(i), NEW S, NEW n, NEW j, NEW m, NEW d, NEW a, NEW v
  PROVE  Rest(Run(Sh("Exit1-DR", S, n, j, m, i, d, a, v), AccessTail))
            = Jt("Idle", <<>>, <<>>, i, Taken(i, SubSeq(S, m + 1, m + n)), a, v)
  <1> DEFINE r == SubSeq(S, m + 1, m + n)
             o == SubSeq(S, j + 1, m)
             t == Sh("Exit1-DR", S, n, j, m, i, d, a, v)
  <1>1. t = Jt("Exit1-DR", r, o, i, d, a, v)
    BY Zenon DEF Sh
  <1> HIDE DEF r, o, t
  <1>2. Run(t, AccessTail) = Jt("Idle", r, <<>>, i, Taken(i, r), a, v)
    BY <1>1, DrTail
  <1>3. Rest(Run(t, AccessTail)) = Jt("Idle", <<>>, <<>>, i, Taken(i, r), a, v)
    BY <1>2, RestIs
  <1> QED BY <1>3 DEF t, r

\* An access that is acknowledged: m bits go in.
LEMMA AccessTakes ==
  ASSUME LensOk, NEW i, IrsOk(i), NEW s, NEW o, NEW d, NEW a, AckOk(a), NEW v, DataOk(v),
         NEW request \in [1..3 -> Bits], NEW word \in [1..DataBits -> Bits],
         dev_index \in Nat, Behind \in Nat, NEW m, m = AccessLength(dev_index),
         Answer(Jt("Idle", s, o, i, d, a, v), request) = AckCodes.OK
  PROVE  Moved(Jt("Idle", s, o, i, d, a, v), request, word)
            = Sh("Exit1-DR", Stream(i, a, v, dev_index, request, word, m), DrBits(i), dev_index + 3, m, i, d, a, v)
  <1> DEFINE t == Jt("Idle", s, o, i, d, a, v)
             S == Stream(i, a, v, dev_index, request, word, m)
             u == Sh("Shift-DR", S, DrBits(i), 0, dev_index + 3, i, d, a, v)
             e == Sh("Exit1-DR", S, DrBits(i), dev_index + 3, m, i, d, a, v)
             ok == AckCodes.OK
  <1>1. m \in Nat /\ dev_index + 3 <= m
    BY DataAssumption DEF AccessLength
  <1>2. Asked(t, request) = u
    BY <1>1, AccessAsks DEF Asked
  <1>3. Run(u, AccessData(word)) = e
    BY AccessMoves
  <1>4. Answer(t, request) = ok
    OBVIOUS
  <1> HIDE DEF t, S, u, e, ok
  <1>5. Moved(t, request, word) = Run(Asked(t, request), AccessData(word))
    BY <1>4 DEF Moved, ok
  <1>6. Moved(t, request, word) = e
    BY <1>2, <1>3, <1>5
  <1> QED BY <1>6 DEF t, S, e

\* One that is not.
LEMMA AccessGivesUp ==
  ASSUME LensOk, NEW i, IrsOk(i), NEW s, NEW o, NEW d, NEW a, AckOk(a), NEW v, DataOk(v),
         NEW request \in [1..3 -> Bits], NEW word, dev_index \in Nat,
         Answer(Jt("Idle", s, o, i, d, a, v), request) # AckCodes.OK
  PROVE  LET m == dev_index + 4
             S == Stream(i, a, v, dev_index, request, Bypass(DataBits), m)
         IN Moved(Jt("Idle", s, o, i, d, a, v), request, word)
               = Sh("Exit1-DR", S, DrBits(i), dev_index + 3, m, i, d, a, v)
  <1> DEFINE t == Jt("Idle", s, o, i, d, a, v)
             m == dev_index + 4
             w == Bypass(DataBits)
             S == Stream(i, a, v, dev_index, request, w, m)
             u == Sh("Shift-DR", S, DrBits(i), 0, dev_index + 3, i, d, a, v)
             e == Sh("Exit1-DR", S, DrBits(i), dev_index + 3, m, i, d, a, v)
             ok == AckCodes.OK
  <1>1. m \in Nat /\ dev_index + 3 <= m
    OBVIOUS
  <1>2. w \in [1..DataBits -> Bits]
    BY DEF Bypass, Bits
  <1>3. Run(u, Clocks(1, 1, 1)) = e
    BY AccessStops
  <1>4. Answer(t, request) # ok
    OBVIOUS
  <1> HIDE DEF m, w
  <1>5. Asked(t, request) = u
    BY <1>1, <1>2, AccessAsks DEF Asked
  <1> HIDE DEF t, S, u, e, ok
  <1>6. Moved(t, request, word) = Run(Asked(t, request), Clocks(1, 1, 1))
    BY <1>4 DEF Moved, ok
  <1>7. Moved(t, request, word) = e
    BY <1>3, <1>5, <1>6
  <1> QED BY <1>7 DEF t, S, e, m, w

\* The device addressed is number D of the chain, and the host knows it.
HereIs(D) == dev_index = D - 1 /\ Behind = Len(lens) - D

\* The acknowledge is that of the device.
LEMMA AnswerIs ==
  ASSUME LensOk, NEW D \in 1..Len(lens), HereIs(D), NEW i, IrsOk(i),
         NEW ir \in {ABORT, DPACC, APACC}, IrsAre(i, D, ir),
         NEW s, NEW o, NEW d, NEW a, AckOk(a), NEW v, DataOk(v), NEW request \in [1..3 -> Bits]
  PROVE  Answer(Jt("Idle", s, o, i, d, a, v), request) = a
  <1> DEFINE t == Jt("Idle", s, o, i, d, a, v)
             x == dev_index
             m == x + 3
             w == Bypass(DataBits)
             S == Stream(i, a, v, x, request, w, m)
             n == DrBits(i)
  <1>1. x \in Nat /\ x = D - 1 /\ m \in Nat /\ x + 3 <= m
    BY AllBitsAre DEF HereIs
  <1>2. w \in [1..DataBits -> Bits]
    BY DEF Bypass, Bits
  <1>3. n \in Nat
    BY DrBitsAre
  <1> HIDE DEF w, n
  <1>4. IsStream(S, i, a, v, x, request, w, m)
    BY <1>1, <1>2, StreamIs
  <1>5. Run(t, AccessHead(request)) = Sh("Shift-DR", S, DrBits(i), 0, x + 3, i, d, a, v)
    BY <1>1, <1>2, AccessAsks
  <1> HIDE DEF S, t, m
  <1>6. S \in Seq(Bits) /\ Len(S) = n + m
    BY <1>4 DEF IsStream, n
  <1>7. \A z \in 1..3 : S[(D - 1) + z] = a[z]
    BY <1>4, Heard
  <1> HIDE DEF x
  <1>8. \A z \in 1..3 : S[x + z] = a[z]
    BY <1>1, <1>7
  <1>9. At(S, x, 3, a)
    BY <1>8 DEF AckOk, At
  <1>10. LastBits(Sh("Shift-DR", S, DrBits(i), 0, x + 3, i, d, a, v), 3) = a
    <2>1. S \in Seq(Bits) /\ x \in Nat /\ 3 \in Nat \ {0} /\ x + 3 <= Len(S)
      BY <1>1, <1>3, <1>6 DEF m
    <2> QED BY ONLY <1>9, <2>1, LastAre
  <1> QED BY <1>5, <1>10 DEF Answer, Asked, t

\* In an access that is acknowledged the word that comes out is that of the device.
LEMMA ValueIs ==
  ASSUME LensOk, NEW D \in 1..Len(lens), HereIs(D), NEW i, IrsOk(i),
         NEW ir \in {ABORT, DPACC, APACC}, IrsAre(i, D, ir),
         NEW s, NEW o, NEW d, NEW a, AckOk(a), NEW v, DataOk(v),
         NEW request \in [1..3 -> Bits], NEW word \in [1..DataBits -> Bits],
         Answer(Jt("Idle", s, o, i, d, a, v), request) = AckCodes.OK
  PROVE  SubSeq(Moved(Jt("Idle", s, o, i, d, a, v), request, word).tdo, 1, DataBits) = v[D]
  <1> DEFINE x == dev_index
             m == AccessLength(x)
             S == Stream(i, a, v, x, request, word, m)
             n == DrBits(i)
             k == x + 3
             e == Sh("Exit1-DR", S, n, k, m, i, d, a, v)
             f == v[D]
  <1>1. x \in Nat /\ x = D - 1 /\ Behind \in Nat
    BY AllBitsAre DEF HereIs
  <1>2. m \in Nat /\ k \in Nat /\ k + DataBits <= m
    BY <1>1, DataAssumption DEF AccessLength
  <1>3. n \in Nat
    BY DrBitsAre
  <1>4. Moved(Jt("Idle", s, o, i, d, a, v), request, word) = e
    BY <1>1, AccessTakes
  <1> HIDE DEF m
  <1>5. IsStream(S, i, a, v, x, request, word, m)
    BY <1>1, <1>2, StreamIs
  <1>6. f \in [1..DataBits -> Bits] /\ DataBits \in Nat \ {0}
    BY DataAssumption DEF DataOk
  <1> HIDE DEF S, n, f
  <1>7. S \in Seq(Bits) /\ Len(S) = n + m
    BY <1>5 DEF IsStream, n
  <1>8. \A z \in 1..DataBits : S[((D - 1) + 3) + z] = f[z]
    BY <1>5, Heard DEF f
  <1> HIDE DEF x
  <1>9. \A z \in 1..DataBits : S[k + z] = f[z]
    BY <1>1, <1>8
  <1>10. m <= Len(S)
    BY <1>2, <1>3, <1>7
  <1> HIDE DEF k, e
  <1>11. At(S, k, DataBits, f)
    BY <1>6, <1>9 DEF At
  <1>12. SubSeq(Sh("Exit1-DR", S, n, k, m, i, d, a, v).tdo, 1, DataBits) = f
    <2>1. Within(S, k, DataBits, m)
      BY <1>2, <1>6, <1>7, <1>10 DEF Within
    <2> QED BY ONLY <1>11, <2>1, FirstAre
  <1> QED BY <1>4, <1>12 DEF e, f

\* And the request and the word that went in are in its register.
LEMMA RegisterIs ==
  ASSUME LensOk, NEW D \in 1..Len(lens), HereIs(D), NEW i, IrsOk(i),
         NEW ir \in {ABORT, DPACC, APACC}, IrsAre(i, D, ir),
         NEW s, NEW o, NEW d, NEW a, AckOk(a), NEW v, DataOk(v),
         NEW request \in [1..3 -> Bits], NEW word \in [1..DataBits -> Bits],
         Answer(Jt("Idle", s, o, i, d, a, v), request) = AckCodes.OK
  PROVE  /\ Done(Jt("Idle", s, o, i, d, a, v), request, word).drs[D] = Cat(request, word)
         /\ Cat(request, word)[1] = request[1]
  <1> DEFINE t == Jt("Idle", s, o, i, d, a, v)
             x == dev_index
             m == AccessLength(x)
             S == Stream(i, a, v, x, request, word, m)
             n == DrBits(i)
             f == Cat(request, word)
             e == Sh("Exit1-DR", S, n, x + 3, m, i, d, a, v)
             g == Taken(i, SubSeq(S, m + 1, m + n))
  <1>1. x \in Nat /\ x = D - 1 /\ Behind \in Nat /\ Behind = Len(lens) - D /\ Len(lens) \in Nat
    BY AllBitsAre DEF HereIs
  <1>2. DrLen(ir) = DataBits + 3
    BY DrLenIs
  <1>3. n = (D - 1) + DrLen(ir) + (Len(lens) - D)
    BY Addressed
  <1>4. m \in Nat /\ m = n /\ DataBits \in Nat
    BY <1>1, <1>2, <1>3, DataAssumption DEF AccessLength
  <1>5. Moved(t, request, word) = e
    BY <1>1, AccessTakes
  <1> HIDE DEF m
  <1>6. IsStream(S, i, a, v, x, request, word, m)
    BY <1>1, <1>4, StreamIs
  <1>7. Rest(Run(e, AccessTail)) = Jt("Idle", <<>>, <<>>, i, g, a, v)
    BY ScanEnds
  <1>8. request \in Seq(Bits) /\ Len(request) = 3 /\ word \in Seq(Bits) /\ Len(word) = DataBits
    BY <1>4, FunSeq
  <1>9. /\ f \in Seq(Bits) /\ Len(f) = DataBits + 3
        /\ \A z \in 1..3 : f[z] = request[z]
        /\ \A z \in 1..DataBits : f[3 + z] = word[z]
    <2>1. request \in Seq(Bits) /\ word \in Seq(Bits)
      BY <1>8
    <2>2. /\ f \in Seq(Bits) /\ Len(f) = Len(request) + Len(word)
          /\ \A z \in 1..Len(request) : f[z] = request[z]
          /\ \A z \in 1..Len(word) : f[Len(request) + z] = word[z]
      BY ONLY <2>1 DEF Cat
    <2> HIDE DEF f
    <2> QED BY <1>4, <1>8, <2>2
  <1> HIDE DEF S, n, f, t, e, g
  <1>10. /\ S \in Seq(Bits) /\ Len(S) = n + m
         /\ \A z \in 1..3 : x + z <= m => S[n + (x + z)] = request[z]
         /\ \A z \in 1..DataBits : (x + 3) + z <= m => S[n + ((x + 3) + z)] = word[z]
    BY <1>6 DEF IsStream, n
  <1> HIDE DEF x
  <1>11. ASSUME NEW z \in 1..DrLen(ir) PROVE S[(m + (D - 1)) + z] = f[z]
    <2>1. CASE z <= 3
      <3>1. z \in 1..3 /\ x + z <= m /\ (m + (D - 1)) + z = n + (x + z)
        BY <1>1, <1>2, <1>3, <1>4, <2>1
      <3> QED BY <1>9, <1>10, <3>1
    <2>2. CASE z > 3
      <3> DEFINE y == z - 3
      <3>1. y \in 1..DataBits /\ (x + 3) + y <= m /\ (m + (D - 1)) + z = n + ((x + 3) + y) /\ z = 3 + y
        BY <1>1, <1>2, <1>3, <1>4, <2>2
      <3> HIDE DEF y
      <3> QED BY <1>9, <1>10, <3>1
    <2>3. z \in Nat
      BY <1>2, <1>4
    <2> QED BY <2>1, <2>2, <2>3
  <1>12. f \in [1..DrLen(ir) -> Bits]
    <2>1. f \in [1..Len(f) -> Bits]
      BY <1>9
    <2> QED BY <1>2, <1>9, <2>1
  <1>13. g[D] = f
    <2>1. At(S, m + (D - 1), DrLen(ir), f)
      BY <1>11, <1>12 DEF At
    <2>2. S \in Seq(Bits) /\ m \in Nat /\ Len(S) = DrBits(i) + m
      BY <1>4, <1>10 DEF n
    <2>3. Taken(i, SubSeq(S, m + 1, m + DrBits(i)))[D] = f
      BY <2>1, <2>2, TakenIs
    <2> QED BY <2>3 DEF g, n
  <1>14. Done(t, request, word).drs = g
    <2>1. Done(t, request, word) = Jt("Idle", <<>>, <<>>, i, g, a, v)
      BY <1>5, <1>7 DEF Done
    <2> QED BY <2>1, JtFields
  <1>15. f[1] = request[1]
    BY <1>9
  <1> QED BY <1>13, <1>14, <1>15 DEF t, f

\* Whatever comes of it, and however little the host knows of the chain, an access ends in
\* Idle and leaves the instructions.
LEMMA AccessEnds ==
  ASSUME LensOk, NEW i, IrsOk(i), NEW s, NEW o, NEW d, NEW a, AckOk(a), NEW v, DataOk(v),
         NEW request \in [1..3 -> Bits], NEW word \in [1..DataBits -> Bits],
         dev_index \in Nat, Behind \in Nat
  PROVE  LET t == Jt("Idle", s, o, i, d, a, v)
         IN Done(t, request, word) = Jt("Idle", <<>>, <<>>, i, Done(t, request, word).drs, a, v)
  <1> DEFINE t == Jt("Idle", s, o, i, d, a, v)
             R(g) == Jt("Idle", <<>>, <<>>, i, g, a, v)
  <1>1. \A g : R(g).drs = g
    BY JtFields
  <1>2. CASE Answer(t, request) = AckCodes.OK
    <2> DEFINE m == AccessLength(dev_index)
               S == Stream(i, a, v, dev_index, request, word, m)
               e == Sh("Exit1-DR", S, DrBits(i), dev_index + 3, m, i, d, a, v)
               g == Taken(i, SubSeq(S, m + 1, m + DrBits(i)))
    <2>1. Moved(t, request, word) = e
      BY <1>2, AccessTakes
    <2>2. Rest(Run(e, AccessTail)) = R(g)
      BY ScanEnds
    <2> HIDE DEF t, e, g, R
    <2>3. Done(t, request, word) = R(g)
      BY <2>1, <2>2 DEF Done
    <2> QED BY <1>1, <2>3 DEF R, t
  <1>3. CASE Answer(t, request) # AckCodes.OK
    <2> DEFINE m == dev_index + 4
               S == Stream(i, a, v, dev_index, request, Bypass(DataBits), m)
               e == Sh("Exit1-DR", S, DrBits(i), dev_index + 3, m, i, d, a, v)
               g == Taken(i, SubSeq(S, m + 1, m + DrBits(i)))
    <2>1. Moved(t, request, word) = e
      BY <1>3, AccessGivesUp
    <2>2. Rest(Run(e, AccessTail)) = R(g)
      BY ScanEnds
    <2> HIDE DEF t, e, g, R
    <2>3. Done(t, request, word) = R(g)
      BY <2>1, <2>2 DEF Done
    <2> QED BY <1>1, <2>3 DEF R, t
  <1> QED BY <1>2, <1>3

\* The ID code is that of the device.
LEMMA IdcodeIs ==
  ASSUME LensOk, NEW D \in 1..Len(lens), HereIs(D), NEW i, IrsOk(i), IrsAre(i, D, IDCODE),
         NEW s, NEW o, NEW d, NEW a, AckOk(a), NEW v, DataOk(v)
  PROVE  LastBits(Run(Jt("Idle", s, o, i, d, a, v), IdcodeScan), DataBits) = v[D]
  <1> DEFINE x == dev_index
             S == IdStream(i, a, v)
             n == DrBits(i)
             f == v[D]
             w == Bypass(DataBits)
             u == Bypass(3)
             m == x + DataBits
  <1>1. x \in Nat /\ x = D - 1 /\ DataBits \in Nat \ {0} /\ m \in Nat
    BY AllBitsAre, DataAssumption DEF HereIs
  <1>2. w \in [1..DataBits -> Bits] /\ u \in [1..3 -> Bits]
    BY DEF Bypass, Bits
  <1>3. n \in Nat
    BY DrBitsAre
  <1>4. Run(Jt("Idle", s, o, i, d, a, v), IdcodeScan) = Sh("Exit1-DR", S, n, 0, x + DataBits, i, d, a, v)
    BY <1>1, IdScan
  <1> HIDE DEF w, u
  <1>5. IsStream(S, i, a, v, x, u, w, m)
    <2>1. IsStream(Stream(i, a, v, x, u, w, m), i, a, v, x, u, w, m)
      BY <1>1, <1>2, StreamIs
    <2> QED BY <2>1 DEF IdStream, u, w
  <1>6. f \in [1..DataBits -> Bits]
    BY DEF DataOk
  <1> HIDE DEF S, n, f, m
  <1>7. S \in Seq(Bits) /\ Len(S) = n + m
    BY <1>5 DEF IsStream, n
  <1>8. \A z \in 1..DataBits : S[(D - 1) + z] = f[z]
    BY <1>5, Heard DEF f
  <1> HIDE DEF x
  <1>9. At(S, x, DataBits, f)
    BY <1>1, <1>6, <1>8 DEF At
  <1>10. LastBits(Sh("Exit1-DR", S, n, 0, x + DataBits, i, d, a, v), DataBits) = f
    <2>1. S \in Seq(Bits) /\ x \in Nat /\ DataBits \in Nat \ {0} /\ x + DataBits <= Len(S)
      BY <1>1, <1>3, <1>7 DEF m
    <2> QED BY ONLY <1>9, <2>1, LastAre
  <1> QED BY <1>4, <1>10 DEF f, x

LEMMA IdcodeEnds ==
  ASSUME LensOk, NEW i, IrsOk(i), NEW s, NEW o, NEW d, NEW a, AckOk(a), NEW v, DataOk(v), dev_index \in Nat
  PROVE  LET t == Rest(Run(Run(Jt("Idle", s, o, i, d, a, v), IdcodeScan), AccessTail))
         IN t = Jt("Idle", <<>>, <<>>, i, t.drs, a, v)
  <1> DEFINE u == Run(Jt("Idle", s, o, i, d, a, v), IdcodeScan)
             t == Rest(Run(u, AccessTail))
             n == DrBits(i)
             m == dev_index + DataBits
             S == IdStream(i, a, v)
             e == Sh("Exit1-DR", S, n, 0, m, i, d, a, v)
             g == Taken(i, SubSeq(S, m + 1, m + n))
  <1>1. u = e
    BY IdScan
  <1>2. Rest(Run(e, AccessTail)) = Jt("Idle", <<>>, <<>>, i, g, a, v)
    BY ScanEnds
  <1> HIDE DEF u, e, g
  <1>3. t = Jt("Idle", <<>>, <<>>, i, g, a, v)
    BY <1>1, <1>2
  <1> HIDE DEF t
  <1>4. t.drs = g
    BY <1>3, JtFields
  <1>5. t = Jt("Idle", <<>>, <<>>, i, t.drs, a, v)
    BY <1>3, <1>4
  <1> QED BY <1>5 DEF t, u

\* A scan of the instruction registers leaves registers of the right lengths, and where the
\* host knows the chain the instruction is in the device and bypass in the others.
IsLoaded(t, ir, d, a, v) ==
    /\ t = Jt("Idle", t.sr, t.tdo, t.irs, d, a, v) /\ IrsOk(t.irs)
    /\ Device \in 1..Len(lens) /\ lens[Device] = 4 /\ PlaceIs(Device, ir_before[Device], ir_after[Device])
         => IrsAre(t.irs, Device, ir)

LEMMA IrLoads ==
  ASSUME LensOk, NEW i, IrsOk(i), NEW s, NEW o, NEW d, NEW a, NEW v,
         NEW ir \in [1..4 -> Bits], ir_length[Device] = 4,
         ir_before[Device] \in Nat, ir_after[Device] \in Nat
  PROVE  IsLoaded(Run(Jt("Idle", s, o, i, d, a, v), WriteIr(ir)), ir, d, a, v)
  <1> DEFINE B == ir_before[Device]
             A == ir_after[Device]
             W == IrIn(ir, B, A)
             X == IrOut(ir, B, A)
             t == Run(Jt("Idle", s, o, i, d, a, v), WriteIr(ir))
  <1>1. t = Jt("Idle", W, X, Loaded(W), d, a, v)
    BY IrScan
  <1>2. W \in Seq(Bits) /\ Len(W) = AllBits
    BY IrInIs
  <1>3. Device \in 1..Len(lens) /\ lens[Device] = 4 /\ PlaceIs(Device, B, A)
          => \A e \in 1..Len(lens) : Loaded(W)[e] = IF e = Device THEN ir ELSE Bypass(lens[e])
    BY IrFits
  <1> DEFINE g == Loaded(W)
  <1>4. IrsOk(g)
    <2> HIDE DEF W
    <2> QED BY <1>2, LoadedOk
  <1> HIDE DEF W, X, t, g
  <1>5. t = Jt("Idle", W, X, g, d, a, v)
    BY <1>1 DEF g
  <1>6. t.sr = W /\ t.tdo = X /\ t.irs = g
    BY <1>5, JtFields
  <1>7. t = Jt("Idle", t.sr, t.tdo, t.irs, d, a, v) /\ IrsOk(t.irs)
    BY <1>4, <1>5, <1>6
  <1>8. ASSUME Device \in 1..Len(lens) /\ lens[Device] = 4 /\ PlaceIs(Device, B, A)
        PROVE  IrsAre(t.irs, Device, ir)
    <2>1. \A e \in 1..Len(lens) : g[e] = IF e = Device THEN ir ELSE Bypass(lens[e])
      BY <1>3, <1>8 DEF g
    <2> QED BY <1>6, <2>1 DEF IrsAre
  <1>9. IsLoaded(t, ir, d, a, v)
    <2> HIDE DEF B, A
    <2> QED BY <1>7, <1>8 DEF IsLoaded, B, A
  <1> QED BY <1>9 DEF t
-----------------------------------------------------------------------------
(* The invariant. *)

\* The chain between two commands: the controllers in Idle, instruction registers of the
\* right lengths.
ChainIs == /\ chain = Jt("Idle", chain.sr, chain.tdo, chain.irs, chain.drs, chain.ack, chain.data)
           /\ IrsOk(chain.irs) /\ AckOk(chain.ack)

\* What the host has said of the chain, and what dap_jtag_configure makes of it.
ConfigIs == /\ ir_length \in Seq(Nat) /\ dev_count = Len(ir_length) /\ dev_count <= DevCountMax
            /\ ir_before = IrBefore(ir_length) /\ ir_after = IrAfter(ir_length)
            /\ dev_index \in Nat

\* A command is on its way, or an instruction known, only for a device that was selected.
SelectedIs == /\ jtag_ir \in {INVALID, DPACC, APACC, ABORT}
              /\ pc \in {"ready", "transfer", "abort", "idcode"}
              /\ pc \in {"abort", "idcode"} => jtag_ir = INVALID
              /\ pc # "ready" \/ jtag_ir # INVALID => dev_index < dev_count /\ ir_length[Device] = 4

JtagInv == /\ LensOk /\ ChainIs /\ ConfigIs /\ SelectedIs
           /\ CachedIrIsLoaded /\ AccessReachesTheDevice

\* The bits before and behind each device are numbers.
LEMMA PlacesAre ==
  ASSUME NEW s \in Seq(Nat), NEW D \in 1..Len(s)
  PROVE  /\ IrBefore(s)[D] = Total(s, D - 1) /\ IrAfter(s)[D] = Total(s, Len(s)) - Total(s, D)
         /\ IrBefore(s)[D] \in Nat /\ IrAfter(s)[D] \in Nat
  <1>1. Len(s) \in Nat /\ DOMAIN s = 1..Len(s)
    BY LenProperties
  <1>2. D - 1 \in 0..Len(s) /\ D \in 0..Len(s) /\ Len(s) \in 0..Len(s) /\ Len(s) \in D..Len(s)
    BY <1>1
  <1>3. Total(s, D - 1) \in Nat /\ Total(s, D) \in Nat /\ Total(s, Len(s)) \in Nat
    BY <1>2, TotalNat
  <1>4. Total(s, D) <= Total(s, Len(s))
    BY <1>2, TotalGrows
  <1>5. IrBefore(s)[D] = Total(s, D - 1)
    BY <1>1 DEF IrBefore
  <1>6. IrAfter(s)[D] = Total(s, Len(s)) - Total(s, D)
    BY <1>1 DEF IrAfter
  <1> QED BY <1>3, <1>4, <1>5, <1>6

\* The places of all devices.
LEMMA AllPlaces ==
  ASSUME NEW s \in Seq(Nat)
  PROVE  IrBefore(s) \in [1..Len(s) -> Nat] /\ IrAfter(s) \in [1..Len(s) -> Nat]
  <1>1. DOMAIN s = 1..Len(s)
    BY LenProperties
  <1>2. \A D \in 1..Len(s) : IrBefore(s)[D] \in Nat /\ IrAfter(s)[D] \in Nat
    BY PlacesAre
  <1>3. IrBefore(s) = [D \in 1..Len(s) |-> IrBefore(s)[D]]
    BY <1>1 DEF IrBefore
  <1>4. IrAfter(s) = [D \in 1..Len(s) |-> IrAfter(s)[D]]
    BY <1>1 DEF IrAfter
  <1> QED BY <1>2, <1>3, <1>4

\* The instructions and the acknowledges are bits.
LEMMA WordsAre ==
  /\ ABORT \in [1..4 -> Bits] /\ DPACC \in [1..4 -> Bits] /\ APACC \in [1..4 -> Bits]
  /\ IDCODE \in [1..4 -> Bits] /\ <<0, 0, 0>> \in [1..3 -> Bits]
  /\ \A k \in DOMAIN AckCodes : AckOk(AckCodes[k])
  /\ INVALID \notin {ABORT, DPACC, APACC, IDCODE}
  <1>1. ABORT \in [1..4 -> Bits] /\ DPACC \in [1..4 -> Bits] /\ APACC \in [1..4 -> Bits]
           /\ IDCODE \in [1..4 -> Bits]
    BY DEF ABORT, DPACC, APACC, IDCODE, Bits
  <1>2. <<0, 0, 0>> \in [1..3 -> Bits]
    BY DEF Bits
  <1>3. <<0, 1, 0>> \in [1..3 -> Bits] /\ <<1, 0, 0>> \in [1..3 -> Bits] /\ <<1, 1, 1>> \in [1..3 -> Bits]
    BY DEF Bits
  <1>4. \A k \in DOMAIN AckCodes : AckCodes[k] \in {<<0, 1, 0>>, <<1, 0, 0>>, <<1, 1, 1>>}
    BY DEF AckCodes
  <1>5. \A k \in DOMAIN AckCodes : AckOk(AckCodes[k])
    BY <1>3, <1>4 DEF AckOk
  <1>6. INVALID \notin {ABORT, DPACC, APACC, IDCODE}
    <2>1. Len(INVALID) = 0 /\ Len(ABORT) = 4 /\ Len(DPACC) = 4 /\ Len(APACC) = 4 /\ Len(IDCODE) = 4
      BY DEF INVALID, ABORT, DPACC, APACC, IDCODE
    <2> QED BY <2>1
  <1> QED BY <1>1, <1>2, <1>5, <1>6

\* The devices hold words.
LEMMA HeldIs ==
  ASSUME LensOk, NEW v \in [1..DataBits -> Bits]
  PROVE  DataOk(Held(v))
  <1>1. DOMAIN lens = 1..Len(lens)
    BY LenProperties DEF LensOk
  <1>2. [k \in DOMAIN v |-> 1 - v[k]] \in [1..DataBits -> Bits]
    BY DEF Bits
  <1> DEFINE w == [k \in DOMAIN v |-> 1 - v[k]]
  <1>3. w \in [1..DataBits -> Bits]
    BY <1>2
  <1> HIDE DEF w
  <1>4. Held(v) = [d \in 1..Len(lens) |-> IF d = Device THEN v ELSE w]
    BY <1>1 DEF Held, w
  <1>5. \A d \in 1..Len(lens) : Held(v)[d] = IF d = Device THEN v ELSE w
    BY <1>4
  <1> QED BY <1>3, <1>5 DEF DataOk

LEMMA FreshIs ==
  ASSUME NEW tap, NEW s, NEW o, NEW i, NEW d, NEW a, NEW v
  PROVE  LET t == Jt(tap, s, o, i, d, a, v)
         IN Fresh(t) = Jt(tap, s, o, i, [e \in DOMAIN i |-> <<>>], <<0, 0, 0>>, [e \in DOMAIN i |-> <<>>])
  <1> DEFINE t == Jt(tap, s, o, i, d, a, v)
             z == [e \in DOMAIN t.irs |-> <<>>]
  <1>1. Fresh(t) = WithDrs(WithData(WithAck(t, <<0, 0, 0>>), z), z)
    BY DEF Fresh, WithDrs, WithData, WithAck
  <1>2. t.irs = i
    BY JtFields
  <1>3. z = [e \in DOMAIN i |-> <<>>]
    BY <1>2
  <1> HIDE DEF z
  <1>4. WithDrs(WithData(WithAck(t, <<0, 0, 0>>), z), z) = Jt(tap, s, o, i, z, <<0, 0, 0>>, z)
    BY JtFields
  <1> QED BY <1>1, <1>3, <1>4

\* What a request does to the chain before anything else.
LEMMA FreshChain ==
  ASSUME ChainIs
  PROVE  LET t == Fresh(chain)
         IN t = Jt("Idle", t.sr, t.tdo, chain.irs, t.drs, t.ack, t.data) /\ AckOk(t.ack)
  <1> DEFINE t == Fresh(chain)
             z == [e \in DOMAIN chain.irs |-> <<>>]
             s == chain.sr
             o == chain.tdo
             i == chain.irs
             u == Jt("Idle", s, o, i, z, <<0, 0, 0>>, z)
  <1>1. chain = Jt("Idle", s, o, i, chain.drs, chain.ack, chain.data)
    BY DEF ChainIs
  <1>2. Fresh(Jt("Idle", s, o, i, chain.drs, chain.ack, chain.data)) = u
    BY FreshIs
  <1>3. t = u
    BY <1>1, <1>2
  <1> HIDE DEF t, z, s, o, i
  <1>4. t.sr = s /\ t.tdo = o /\ t.drs = z /\ t.ack = <<0, 0, 0>> /\ t.data = z
    BY <1>3, JtFields
  <1>5. AckOk(t.ack)
    BY <1>4, WordsAre DEF AckOk
  <1> QED BY <1>3, <1>4, <1>5 DEF t, i

\* The description matches the chain: the device is where the code expects it.
LEMMA DescribedHere ==
  ASSUME LensOk, ConfigIs, Described, dev_index < dev_count, ir_length[Device] = 4
  PROVE  /\ Device \in 1..Len(lens) /\ lens[Device] = 4 /\ HereIs(Device)
         /\ PlaceIs(Device, ir_before[Device], ir_after[Device])
  <1>1. /\ ir_length \in Seq(Nat) /\ dev_count = Len(ir_length) /\ dev_index \in Nat
        /\ ir_before = IrBefore(ir_length) /\ ir_after = IrAfter(ir_length)
    BY DEF ConfigIs
  <1>2. ir_length = lens
    BY DEF Described
  <1>3. Len(lens) \in Nat
    BY AllBitsAre
  <1>4. Device \in 1..Len(lens) /\ HereIs(Device)
    BY <1>1, <1>2, <1>3 DEF Device, HereIs, Behind
  <1>5. lens[Device] = 4
    BY <1>2
  <1>6. IrBefore(lens)[Device] = Total(lens, Device - 1)
           /\ IrAfter(lens)[Device] = Total(lens, Len(lens)) - Total(lens, Device)
    BY <1>1, <1>2, <1>4, PlacesAre
  <1> QED BY <1>1, <1>2, <1>4, <1>5, <1>6 DEF PlaceIs
-----------------------------------------------------------------------------
(* The commands. *)

\* The chain when the answer is ready, and when the instruction is loaded.
HeldChain(a, v) == [chain EXCEPT !.ack = a, !.data = v]
LoadedChain(ir, a, v) == IF ir = jtag_ir THEN HeldChain(a, v) ELSE Run(HeldChain(a, v), WriteIr(ir))
ReadyFor(t, ir, a, v) == /\ t = Jt("Idle", t.sr, t.tdo, t.irs, chain.drs, a, v) /\ IrsOk(t.irs)
                         /\ Described => IrsAre(t.irs, Device, ir)

LEMMA HeldChainIs ==
  ASSUME ChainIs, NEW a, NEW v
  PROVE  HeldChain(a, v) = Jt("Idle", chain.sr, chain.tdo, chain.irs, chain.drs, a, v)
  <1>1. HeldChain(a, v) = WithData(WithAck(chain, a), v)
    BY DEF HeldChain, WithData, WithAck
  <1> DEFINE s == chain.sr
             o == chain.tdo
             i == chain.irs
             d == chain.drs
             b == chain.ack
             w == chain.data
  <1>2. chain = Jt("Idle", s, o, i, d, b, w)
    BY DEF ChainIs
  <1> HIDE DEF s, o, i, d, b, w
  <1>3. WithData(WithAck(Jt("Idle", s, o, i, d, b, w), a), v) = Jt("Idle", s, o, i, d, a, v)
    BY JtFields
  <1>4. HeldChain(a, v) = Jt("Idle", s, o, i, d, a, v)
    BY <1>1, <1>2, <1>3
  <1> QED BY <1>4 DEF s, o, i, d

LEMMA DomLens ==
  ASSUME LensOk
  PROVE  DOMAIN lens = 1..Len(lens)
  <1> QED BY LenProperties DEF LensOk

\* The instruction register is scanned, or it need not be.
LEMMA InstructionLoaded ==
  ASSUME LensOk, ChainIs, ConfigIs, dev_index < dev_count, ir_length[Device] = 4, CachedIrIsLoaded,
         NEW ir \in {ABORT, DPACC, APACC, IDCODE}, NEW a, NEW v
  PROVE  /\ ReadyFor(Run(HeldChain(a, v), WriteIr(ir)), ir, a, v)
         /\ ReadyFor(LoadedChain(ir, a, v), ir, a, v)
  <1> DEFINE h == HeldChain(a, v)
             t == Run(h, WriteIr(ir))
  <1>1. h = Jt("Idle", chain.sr, chain.tdo, chain.irs, chain.drs, a, v)
    BY HeldChainIs
  <1>2. ir_before[Device] \in Nat /\ ir_after[Device] \in Nat
    <2>1. ir_length \in Seq(Nat) /\ Device \in 1..Len(ir_length)
      BY DEF ConfigIs, Device
    <2> QED BY <2>1, PlacesAre DEF ConfigIs
  <1>3. IsLoaded(Run(Jt("Idle", chain.sr, chain.tdo, chain.irs, chain.drs, a, v), WriteIr(ir)), ir, chain.drs, a, v)
    <2>1. ir \in [1..4 -> Bits]
      BY WordsAre
    <2>2. IrsOk(chain.irs)
      BY DEF ChainIs
    <2> QED BY <1>2, <2>1, <2>2, IrLoads
  <1> HIDE DEF h
  <1>4. IsLoaded(t, ir, chain.drs, a, v)
    BY <1>1, <1>3
  <1> HIDE DEF t
  <1>5. ReadyFor(t, ir, a, v)
    <2>1. t = Jt("Idle", t.sr, t.tdo, t.irs, chain.drs, a, v) /\ IrsOk(t.irs)
      BY <1>4 DEF IsLoaded
    <2>2. ASSUME Described PROVE IrsAre(t.irs, Device, ir)
      BY <1>4, <2>2, DescribedHere DEF IsLoaded
    <2> QED BY <2>1, <2>2 DEF ReadyFor
  <1>6. ASSUME ir = jtag_ir PROVE ReadyFor(h, ir, a, v)
    <2> DEFINE s == chain.sr
               o == chain.tdo
               i == chain.irs
               d == chain.drs
    <2>0. h = Jt("Idle", s, o, i, d, a, v)
      BY <1>1
    <2>1. IrsOk(i)
      BY DEF ChainIs
    <2>2. ASSUME Described PROVE IrsAre(i, Device, ir)
      <3>1. jtag_ir # INVALID
        BY <1>6, WordsAre
      <3>2. \A e \in DOMAIN lens : chain.irs[e] = IF e = Device THEN ir ELSE Bypass(lens[e])
        BY <1>6, <2>2, <3>1 DEF CachedIrIsLoaded, Addresses
      <3> QED BY <3>2, DomLens DEF IrsAre
    <2> HIDE DEF s, o, i
    <2>3. h.sr = s /\ h.tdo = o /\ h.irs = i
      BY <2>0, JtFields
    <2>4. h = Jt("Idle", h.sr, h.tdo, h.irs, chain.drs, a, v) /\ IrsOk(h.irs)
      BY <2>0, <2>1, <2>3
    <2>5. Described => IrsAre(h.irs, Device, ir)
      BY <2>2, <2>3
    <2> QED BY <2>4, <2>5 DEF ReadyFor
  <1>7. ReadyFor(LoadedChain(ir, a, v), ir, a, v)
    <2>1. CASE ir = jtag_ir
      <3>1. LoadedChain(ir, a, v) = h
        BY <2>1 DEF LoadedChain, h
      <3> QED BY <1>6, <2>1, <3>1
    <2>2. CASE ir # jtag_ir
      <3>1. LoadedChain(ir, a, v) = t
        BY <2>2 DEF LoadedChain, t, h
      <3> QED BY <1>5, <3>1
    <2> QED BY <2>1, <2>2
  <1> QED BY <1>5, <1>7 DEF t, h

\* What dap_jtag_operation says of its work.
Accessed(ir, request, word, ack, data) ==
    LET L == LoadedChain(ir, AckCodes[ack], data)
        answer == Answer(L, request)
    IN /\ chain' = Done(L, request, word)
       /\ jtag_ir' = ir
       /\ op' = [kind |-> "access", device |-> Device, ir |-> ir, sent |-> request \o word,
                 answer |-> answer,
                 value |-> IF answer = AckCodes.OK THEN SubSeq(Moved(L, request, word).tdo, 1, DataBits) ELSE <<>>]

LEMMA OperationIs ==
  ASSUME NEW ir, NEW request, NEW word, NEW ack, NEW data, JtagOperation(ir, request, word, ack, data)
  PROVE  Accessed(ir, request, word, ack, data)
  <1> QED BY DEF JtagOperation, Accessed, LoadedChain, HeldChain, Done, Moved, Answer, Asked

\* The word of each device and the acknowledge are in the chain, whose registers are those
\* the command left.
LEMMA OperationKeeps ==
  ASSUME LensOk, ChainIs, ConfigIs, dev_index < dev_count, ir_length[Device] = 4, CachedIrIsLoaded,
         NEW ir \in {ABORT, DPACC, APACC},
         NEW request \in [1..3 -> Bits], NEW word \in [1..DataBits -> Bits],
         NEW ack \in DOMAIN AckCodes, NEW data, DataOk(data),
         JtagOperation(ir, request, word, ack, data), UNCHANGED <<lens, cfgVars, dev_index>>
  PROVE  ChainIs' /\ CachedIrIsLoaded' /\ AccessReachesTheDevice'
  <1> DEFINE a == AckCodes[ack]
             L == LoadedChain(ir, a, data)
             s == L.sr
             o == L.tdo
             i == L.irs
             R == Done(L, request, word)
             g == R.drs
  <1>1. Accessed(ir, request, word, ack, data)
    BY OperationIs
  <1>2. AckOk(a)
    BY WordsAre
  <1>3. ReadyFor(L, ir, a, data)
    BY InstructionLoaded
  <1>4. L = Jt("Idle", s, o, i, chain.drs, a, data) /\ IrsOk(i) /\ (Described => IrsAre(i, Device, ir))
    BY <1>3 DEF ReadyFor
  <1>5. dev_index \in Nat /\ Behind \in Nat
    BY DEF ConfigIs, Behind
  <1>6. /\ chain' = R /\ jtag_ir' = ir
        /\ op' = [kind |-> "access", device |-> Device, ir |-> ir, sent |-> request \o word,
                  answer |-> Answer(L, request),
                  value |-> IF Answer(L, request) = AckCodes.OK
                            THEN SubSeq(Moved(L, request, word).tdo, 1, DataBits) ELSE <<>>]
    BY <1>1 DEF Accessed
  <1> HIDE DEF a, L, s, o, i
  <1>7. R = Jt("Idle", <<>>, <<>>, i, g, a, data)
    <2> DEFINE t == Jt("Idle", s, o, i, chain.drs, a, data)
    <2>1. Done(t, request, word) = Jt("Idle", <<>>, <<>>, i, Done(t, request, word).drs, a, data)
      BY <1>2, <1>4, <1>5, AccessEnds
    <2>2. L = t
      BY <1>4
    <2> QED BY <2>1, <2>2
  <1> HIDE DEF R, g
  <1>8. /\ R.tap = "Idle" /\ R.sr = <<>> /\ R.tdo = <<>> /\ R.irs = i /\ R.drs = g
        /\ R.ack = a /\ R.data = data
    BY <1>7, JtFields
  <1>9. UNCHANGED <<lens, dev_count, dev_index, ir_length, ir_before, ir_after>>
    BY DEF cfgVars
  <1>11. ChainIs'
    <2>1. chain' = Jt("Idle", chain.sr, chain.tdo, chain.irs, chain.drs, chain.ack, chain.data)'
      BY <1>6, <1>7, <1>8
    <2>2. IrsOk(chain.irs)' /\ AckOk(chain.ack)'
      BY <1>2, <1>4, <1>6, <1>8, <1>9 DEF IrsOk, AckOk
    <2> QED BY <2>1, <2>2 DEF ChainIs
  <1>12. Described' = Described /\ Device' = Device
    BY <1>9 DEF Described, Device
  <1>13. ASSUME Described PROVE Addresses(Device, ir)'
    <2>1. IrsAre(i, Device, ir)
      BY <1>4, <1>13
    <2>2. \A e \in DOMAIN lens' : chain'.irs[e] = IF e = Device' THEN ir ELSE Bypass(lens'[e])
      BY <1>6, <1>8, <1>9, <1>12, <2>1, DomLens DEF IrsAre
    <2> QED BY <2>2 DEF Addresses
  <1>14. CachedIrIsLoaded'
    <2>1. chain'.tap = "Idle"
      BY <1>6, <1>8
    <2>2. Described' => Addresses(Device, jtag_ir)'
      BY <1>6, <1>12, <1>13
    <2> QED BY <2>1, <2>2 DEF CachedIrIsLoaded
  <1>15. AccessReachesTheDevice'
    <2> SUFFICES ASSUME Described'
                 PROVE  /\ Addresses(op.device, op.ir)'
                        /\ op'.answer = chain'.ack
                        /\ op'.answer = AckCodes.OK =>
                              /\ op'.value = chain'.data[op'.device]
                              /\ chain'.drs[op'.device] = op'.sent
      <3>1. op'.kind = "access"
        BY <1>6
      <3> QED BY <3>1 DEF AccessReachesTheDevice
    <2>1. Described
      BY <1>12
    <2>2. Device \in 1..Len(lens) /\ HereIs(Device)
      BY <2>1, DescribedHere
    <2>3. IrsAre(i, Device, ir)
      BY <1>4, <2>1
    <2> DEFINE ok == AckCodes.OK
               A == Answer(L, request)
               V == SubSeq(Moved(L, request, word).tdo, 1, DataBits)
    <2>4. A = a
      <3>1. Answer(Jt("Idle", s, o, i, chain.drs, a, data), request) = a
        BY <1>2, <1>4, <2>2, <2>3, AnswerIs
      <3> QED BY <1>4, <3>1
    <2>5. ASSUME A = ok PROVE V = data[Device] /\ g[Device] = request \o word
      <3> DEFINE t == Jt("Idle", s, o, i, chain.drs, a, data)
      <3>1. Answer(t, request) = AckCodes.OK
        BY <1>4, <2>5
      <3>2. SubSeq(Moved(t, request, word).tdo, 1, DataBits) = data[Device]
        BY <1>2, <1>4, <2>2, <2>3, <3>1, ValueIs
      <3>3. Done(t, request, word).drs[Device] = Cat(request, word)
        BY <1>2, <1>4, <2>2, <2>3, <3>1, RegisterIs
      <3>4. L = t
        BY <1>4
      <3> QED BY <3>2, <3>3, <3>4 DEF Cat, g, R
    <2>6. op'.device = Device /\ op'.ir = ir /\ op'.sent = request \o word /\ op'.answer = A
      BY <1>6
    <2>7. A = ok => op'.value = V
      BY <1>6
    <2>8. chain'.ack = a /\ chain'.data = data /\ chain'.drs = g
      BY <1>6, <1>8
    <2>9. Addresses(op.device, op.ir)'
      BY <1>12, <1>13, <2>1, <2>6
    <2> HIDE DEF A, V, ok
    <2>10. op'.answer = ok => op'.value = chain'.data[op'.device] /\ chain'.drs[op'.device] = op'.sent
      BY <2>5, <2>6, <2>7, <2>8
    <2> QED BY <2>4, <2>6, <2>8, <2>9, <2>10 DEF ok
  <1> QED BY <1>11, <1>14, <1>15

\* The same of the ID code.
LEMMA IdcodeKeeps ==
  ASSUME LensOk, ChainIs, ConfigIs, dev_index < dev_count, ir_length[Device] = 4, CachedIrIsLoaded,
         jtag_ir = INVALID, NEW data, DataOk(data), JtagIdcode(data)
  PROVE  ChainIs' /\ CachedIrIsLoaded' /\ AccessReachesTheDevice'
  <1> DEFINE a == chain.ack
             h == HeldChain(a, data)
             L == Run(h, WriteIr(IDCODE))
             s == L.sr
             o == L.tdo
             i == L.irs
             d == chain.drs
             T == Run(L, IdcodeScan)
             R == Rest(Run(T, AccessTail))
             g == R.drs
  <1>1. AckOk(a)
    BY DEF ChainIs
  <1>2. [chain EXCEPT !.data = data] = h
    <2>1. [chain EXCEPT !.data = data] = WithData(chain, data)
      BY DEF WithData
    <2> DEFINE cs == chain.sr
               co == chain.tdo
               ci == chain.irs
               cd == chain.drs
               ca == chain.ack
               cv == chain.data
    <2>2. chain = Jt("Idle", cs, co, ci, cd, ca, cv)
      BY DEF ChainIs
    <2>3. h = Jt("Idle", cs, co, ci, cd, ca, data)
      BY HeldChainIs
    <2> HIDE DEF cs, co, ci, cd, ca, cv, h
    <2>4. WithData(Jt("Idle", cs, co, ci, cd, ca, cv), data) = Jt("Idle", cs, co, ci, cd, ca, data)
      BY JtFields
    <2> QED BY <2>1, <2>2, <2>3, <2>4
  <1>3. ReadyFor(L, IDCODE, a, data)
    BY InstructionLoaded
  <1>4. /\ chain' = R
        /\ op' = [kind |-> "idcode", device |-> Device, value |-> LastBits(T, DataBits)]
        /\ UNCHANGED <<lens, cfgVars, dev_index, jtag_ir>>
    BY <1>2 DEF JtagIdcode
  <1> HIDE DEF a, h, L, s, o, i, d
  <1>5. L = Jt("Idle", s, o, i, d, a, data) /\ IrsOk(i) /\ (Described => IrsAre(i, Device, IDCODE))
    BY <1>3 DEF ReadyFor, s, o, i, d
  <1>6. dev_index \in Nat
    BY DEF ConfigIs
  <1>7. R = Jt("Idle", <<>>, <<>>, i, g, a, data)
    <2> DEFINE u == Rest(Run(Run(Jt("Idle", s, o, i, d, a, data), IdcodeScan), AccessTail))
    <2>1. u = Jt("Idle", <<>>, <<>>, i, u.drs, a, data)
      BY <1>1, <1>5, <1>6, IdcodeEnds
    <2>2. R = u
      BY <1>5
    <2> QED BY <2>1, <2>2
  <1> HIDE DEF R, g
  <1>8. /\ R.tap = "Idle" /\ R.sr = <<>> /\ R.tdo = <<>> /\ R.irs = i /\ R.drs = g
        /\ R.ack = a /\ R.data = data
    BY <1>7, JtFields
  <1>9. UNCHANGED <<lens, dev_count, dev_index, ir_length, ir_before, ir_after, jtag_ir>>
    BY <1>4 DEF cfgVars
  <1>10. ChainIs'
    <2>1. chain' = Jt("Idle", chain.sr, chain.tdo, chain.irs, chain.drs, chain.ack, chain.data)'
      BY <1>4, <1>7, <1>8
    <2>2. IrsOk(chain.irs)' /\ AckOk(chain.ack)'
      BY <1>1, <1>4, <1>5, <1>8, <1>9 DEF IrsOk, AckOk
    <2> QED BY <2>1, <2>2 DEF ChainIs
  <1>11. CachedIrIsLoaded'
    BY <1>4, <1>8, <1>9 DEF CachedIrIsLoaded
  <1>12. AccessReachesTheDevice'
    <2> SUFFICES ASSUME Described'
                 PROVE  op'.value = chain'.data[op'.device]
      <3>1. op'.kind = "idcode"
        BY <1>4
      <3> QED BY <3>1 DEF AccessReachesTheDevice
    <2>1. Described
      BY <1>9 DEF Described
    <2>2. Device \in 1..Len(lens) /\ HereIs(Device)
      BY <2>1, DescribedHere
    <2>3. IrsAre(i, Device, IDCODE)
      BY <1>5, <2>1
    <2>4. LastBits(T, DataBits) = data[Device]
      <3>1. LastBits(Run(Jt("Idle", s, o, i, d, a, data), IdcodeScan), DataBits) = data[Device]
        BY <1>1, <1>5, <2>2, <2>3, IdcodeIs
      <3> QED BY <1>5, <3>1
    <2> HIDE DEF T
    <2>5. op'.value = LastBits(T, DataBits) /\ op'.device = Device /\ chain'.data = data
      BY <1>4, <1>8
    <2> QED BY <2>4, <2>5
  <1> QED BY <1>10, <1>11, <1>12

\* After a reset the instruction registers have the right lengths.
LEMMA ResetIrsOk ==
  ASSUME LensOk
  PROVE  IrsOk(ResetIrs)
  <1>1. DOMAIN lens = 1..Len(lens) /\ Len(lens) \in Nat
    BY DomLens, AllBitsAre
  <1> DEFINE f(e) == IF lens[e] = ARM_JTAG_IR_LENGTH THEN IDCODE ELSE Bypass(lens[e])
             r == [e \in 1..Len(lens) |-> f(e)]
  <1>2. ResetIrs = r
    BY <1>1 DEF ResetIrs
  <1>3. ASSUME NEW e \in 1..Len(lens) PROVE f(e) \in Seq(Bits) /\ Len(f(e)) = lens[e]
    <2>1. CASE lens[e] = ARM_JTAG_IR_LENGTH
      <3>1. IDCODE \in Seq(Bits) /\ Len(IDCODE) = 4
        BY DEF IDCODE, Bits
      <3> QED BY <2>1, <3>1 DEF ARM_JTAG_IR_LENGTH
    <2>2. CASE lens[e] # ARM_JTAG_IR_LENGTH
      <3>1. lens[e] \in Nat
        BY DEF LensOk
      <3> QED BY <2>2, <3>1, BypassIs
    <2> QED BY <2>1, <2>2
  <1> HIDE DEF f
  <1>4. r \in Seq(Seq(Bits)) /\ Len(r) = Len(lens) /\ \A e \in 1..Len(lens) : r[e] = f(e)
    BY <1>1, <1>3
  <1> HIDE DEF r
  <1>5. \A e \in 1..Len(lens) : Len(r[e]) = lens[e]
    BY <1>3, <1>4
  <1> QED BY <1>2, <1>4, <1>5 DEF IrsOk

\* Five clocks with TMS at 1 reset the TAPs from Idle, one with TMS at 0 leads back.
LEMMA ResetScan ==
  ASSUME NEW s, NEW o, NEW i, NEW d, NEW a, NEW v
  PROVE  Run(Jt("Idle", s, o, i, d, a, v), Clocks(1, 1, 5) \o Clocks(0, 1, 1)) = Jt("Idle", s, <<>>, i, d, a, v)
  <1> DEFINE J(tap) == Jt(tap, s, <<>>, i, d, a, v)
             c == Clocks(1, 1, 5)
             e == Clocks(0, 1, 1)
             P == Path(J("Idle"), c)
  <1>1. 0 \in Bits /\ 1 \in Bits /\ 1 \in Nat /\ 5 \in Nat
    BY DEF Bits
  <1>2. c \in Seq(Pins) /\ Len(c) = 5 /\ \A z \in 1..5 : c[z] = Pin(1, 1)
    BY <1>1, ClocksAre
  <1>3. e \in Seq(Pins)
    BY <1>1, ClocksAre
  <1>4. /\ Clock(J("Idle"), Pin(1, 1)) = J("Select-DR")
        /\ Clock(J("Select-DR"), Pin(1, 1)) = J("Select-IR")
        /\ Clock(J("Select-IR"), Pin(1, 1)) = J("Reset")
        /\ Clock(J("Reset"), Pin(1, 1)) = J("Reset")
        /\ Clock(J("Reset"), Pin(0, 1)) = J("Idle")
    <2>1. /\ TapNext("Idle", 1) = "Select-DR" /\ TapNext("Select-DR", 1) = "Select-IR"
          /\ TapNext("Select-IR", 1) = "Reset" /\ TapNext("Reset", 1) = "Reset" /\ TapNext("Reset", 0) = "Idle"
      BY DEF TapNext
    <2>2. \A m : /\ Clock(J("Idle"), Pin(m, 1)) = J(TapNext("Idle", m))
                 /\ Clock(J("Select-DR"), Pin(m, 1)) = J(TapNext("Select-DR", m))
                 /\ Clock(J("Select-IR"), Pin(m, 1)) = J(TapNext("Select-IR", m))
                 /\ Clock(J("Reset"), Pin(m, 1)) = J(TapNext("Reset", m))
      BY Passes
    <2> HIDE DEF J
    <2> QED BY <2>1, <2>2
  <1> HIDE DEF c, e, J
  <1>5. /\ Path(J("Idle"), c)[0] = J("Idle")
        /\ \A k \in 1..Len(c) : Path(J("Idle"), c)[k] = Clock(Path(J("Idle"), c)[k - 1], c[k])
        /\ After(J("Idle"), c) = Path(J("Idle"), c)[Len(c)]
    <2>1. c \in Seq(Pins)
      BY <1>2
    <2> QED BY ONLY <2>1, PathIs
  <1> HIDE DEF P
  <1>6. P[0] = J("Idle") /\ (\A k \in 1..5 : P[k] = Clock(P[k - 1], Pin(1, 1))) /\ After(J("Idle"), c) = P[5]
    BY <1>2, <1>5 DEF P
  <1>7. /\ P[1] = Clock(P[0], Pin(1, 1)) /\ P[2] = Clock(P[1], Pin(1, 1)) /\ P[3] = Clock(P[2], Pin(1, 1))
        /\ P[4] = Clock(P[3], Pin(1, 1)) /\ P[5] = Clock(P[4], Pin(1, 1))
    <2>1. /\ 1 \in 1..5 /\ 2 \in 1..5 /\ 3 \in 1..5 /\ 4 \in 1..5 /\ 5 \in 1..5
          /\ 1 - 1 = 0 /\ 2 - 1 = 1 /\ 3 - 1 = 2 /\ 4 - 1 = 3 /\ 5 - 1 = 4
      OBVIOUS
    <2> QED BY <1>6, <2>1
  <1>8. After(J("Idle"), c) = J("Reset")
    BY <1>4, <1>6, <1>7
  <1>9. After(J("Reset"), e) = J("Idle")
    BY <1>1, <1>4, ClockOnce DEF e
  <1>10. After(J("Idle"), Cat(c, e)) = J("Idle")
    BY <1>2, <1>3, <1>8, <1>9, Then
  <1>11. Run(Jt("Idle", s, o, i, d, a, v), Cat(c, e)) = After(J("Idle"), Cat(c, e))
    BY RunJt DEF J
  <1> QED BY <1>10, <1>11 DEF Cat, c, e, J
-----------------------------------------------------------------------------
(* Every command keeps the invariant. *)

LEMMA ChainsAreOk ==
  ASSUME lens \in Chains
  PROVE  LensOk
  <1>1. lens \in Seq(Nat \ {0}) /\ lens # <<>>
    BY ChainAssumption
  <1>2. Len(lens) \in Nat /\ \A e \in 1..Len(lens) : lens[e] \in Nat \ {0}
    BY <1>1
  <1>3. lens \in Seq(Nat) /\ Len(lens) > 0
    BY <1>1, <1>2
  <1> QED BY <1>2, <1>3 DEF LensOk

LEMMA JtagBegins == Init => JtagInv
  <1> SUFFICES ASSUME Init PROVE JtagInv
    OBVIOUS
  <1>1. LensOk
    BY ChainsAreOk DEF Init
  <1>2. ChainIs
    <2> DEFINE z == [d \in DOMAIN lens |-> <<>>]
               r == ResetIrs
    <2>1. chain = Jt("Idle", <<>>, <<>>, r, z, <<0, 0, 0>>, z)
      BY DEF Init, Jt
    <2>2. IrsOk(r)
      BY <1>1, ResetIrsOk
    <2> HIDE DEF z, r
    <2>3. /\ chain.sr = <<>> /\ chain.tdo = <<>> /\ chain.irs = r /\ chain.drs = z
          /\ chain.ack = <<0, 0, 0>> /\ chain.data = z
      BY <2>1, JtFields
    <2>4. AckOk(chain.ack)
      BY <2>3, WordsAre DEF AckOk
    <2> QED BY <2>1, <2>2, <2>3, <2>4 DEF ChainIs
  <1>3. ConfigIs
    <2>1. IrBefore(<<>>) = <<>> /\ IrAfter(<<>>) = <<>>
      BY DEF IrBefore, IrAfter
    <2>2. DevCountMax \in Nat /\ Len(<<>>) = 0 /\ <<>> \in Seq(Nat)
      BY ChainAssumption
    <2> QED BY <2>1, <2>2 DEF Init, ConfigIs
  <1>4. SelectedIs
    BY DEF Init, SelectedIs
  <1>5. chain.tap = "Idle"
    BY DEF Init
  <1>6. CachedIrIsLoaded
    BY <1>5 DEF Init, CachedIrIsLoaded
  <1>7. AccessReachesTheDevice
    BY DEF Init, AccessReachesTheDevice, NoOp
  <1> QED BY <1>1, <1>2, <1>3, <1>4, <1>6, <1>7 DEF JtagInv

\* A step after which no instruction is known, and no operation noted, has only to keep
\* the chain.
LEMMA Quiet ==
  ASSUME LensOk, UNCHANGED lens, ChainIs', chain'.tap = "Idle", op' = NoOp,
         Described' /\ jtag_ir' # INVALID => Addresses(Device, jtag_ir)'
  PROVE  LensOk' /\ CachedIrIsLoaded' /\ AccessReachesTheDevice'
  <1>1. LensOk'
    BY DEF LensOk
  <1>2. CachedIrIsLoaded'
    BY DEF CachedIrIsLoaded
  <1>3. op'.kind = "none"
    BY DEF NoOp
  <1>4. AccessReachesTheDevice'
    BY <1>3 DEF AccessReachesTheDevice
  <1> QED BY <1>1, <1>2, <1>4

\* The chain that is fresh, with its instructions or with others.
LEMMA FreshKeeps ==
  ASSUME ChainIs, UNCHANGED lens, chain' = Fresh(chain)
  PROVE  ChainIs' /\ chain'.tap = "Idle" /\ chain'.irs = chain.irs
  <1> DEFINE t == Fresh(chain)
             i == chain.irs
  <1>1. t = Jt("Idle", t.sr, t.tdo, i, t.drs, t.ack, t.data) /\ AckOk(t.ack)
    BY FreshChain
  <1>2. IrsOk(i)
    BY DEF ChainIs
  <1> HIDE DEF t, i
  <1> DEFINE u == Jt("Idle", t.sr, t.tdo, i, t.drs, t.ack, t.data)
  <1>3. u.irs = i /\ u.tap = "Idle"
    BY JtFields
  <1>4. t.irs = i /\ t.tap = "Idle"
    BY <1>1, <1>3
  <1>5. chain' = t
    BY DEF t
  <1>6. chain' = Jt("Idle", chain'.sr, chain'.tdo, chain'.irs, chain'.drs, chain'.ack, chain'.data)
    BY <1>1, <1>4, <1>5
  <1>7. ChainIs'
    <2>1. IrsOk(chain.irs)' /\ AckOk(chain.ack)'
      BY <1>1, <1>2, <1>4, <1>5 DEF IrsOk, AckOk
    <2> QED BY <1>6, <2>1 DEF ChainIs
  <1> QED BY <1>4, <1>5, <1>7 DEF i

LEMMA ConfigureKeeps ==
  ASSUME JtagInv, NEW layout \in Layouts, Configure(layout)
  PROVE  JtagInv'
  <1>1. LensOk /\ ChainIs /\ ConfigIs /\ SelectedIs
    BY DEF JtagInv
  <1>2. /\ pc = "ready" /\ jtag_ir' = INVALID /\ chain' = Fresh(chain) /\ op' = NoOp
        /\ UNCHANGED <<lens, pc>>
    BY DEF Configure, ForgetIr
  <1>3. ChainIs' /\ chain'.tap = "Idle"
    BY <1>1, <1>2, FreshKeeps
  <1>4. LensOk' /\ CachedIrIsLoaded' /\ AccessReachesTheDevice'
    BY <1>1, <1>2, <1>3, Quiet
  <1>5. SelectedIs'
    BY <1>2 DEF SelectedIs
  <1>6. ConfigIs'
    <2>1. layout \in Seq(Nat) /\ Len(layout) \in Nat /\ DevCountMax \in Nat
      BY ChainAssumption
    <2>2. CASE Len(layout) > DevCountMax
      BY <1>1, <2>2 DEF Configure, cfgVars, ConfigIs
    <2>3. CASE ~(Len(layout) > DevCountMax)
      <3>1. /\ dev_count' = Len(layout) /\ dev_index' = 0 /\ ir_length' = layout
            /\ ir_before' = IrBefore(layout) /\ ir_after' = IrAfter(layout)
        BY <2>3 DEF Configure
      <3>2. Len(layout) <= DevCountMax
        BY <2>1, <2>3
      <3> QED BY <2>1, <3>1, <3>2 DEF ConfigIs, IrBefore, IrAfter
    <2> QED BY <2>2, <2>3
  <1> QED BY <1>3, <1>4, <1>5, <1>6 DEF JtagInv

LEMMA BeginKeeps ==
  ASSUME JtagInv, NEW command \in {"transfer", "abort", "idcode"},
         NEW index \in 0..(DevCountMax - 1), Begin(command, index)
  PROVE  JtagInv'
  <1>1. LensOk /\ ChainIs /\ ConfigIs /\ SelectedIs
    BY DEF JtagInv
  <1>2. /\ jtag_ir' = INVALID /\ chain' = Fresh(chain) /\ op' = NoOp /\ pc' = command
        /\ index < dev_count /\ ir_length[index + 1] = 4 /\ dev_index' = index
        /\ UNCHANGED <<lens, dev_count, ir_length, ir_before, ir_after>>
    BY DEF Begin, ForgetIr, SelectDevice, cfgVars, ARM_JTAG_IR_LENGTH
  <1>3. ChainIs' /\ chain'.tap = "Idle"
    BY <1>1, <1>2, FreshKeeps
  <1>4. LensOk' /\ CachedIrIsLoaded' /\ AccessReachesTheDevice'
    BY <1>1, <1>2, <1>3, Quiet
  <1>5. SelectedIs'
    BY <1>2 DEF SelectedIs, Device
  <1>6. ConfigIs'
    <2>1. index \in Nat
      BY ChainAssumption
    <2> QED BY <1>1, <1>2, <2>1 DEF ConfigIs, IrBefore, IrAfter
  <1> QED BY <1>3, <1>4, <1>5, <1>6 DEF JtagInv

LEMMA EndTransferKeeps ==
  ASSUME JtagInv, EndTransfer
  PROVE  JtagInv'
  <1>1. LensOk /\ ChainIs /\ ConfigIs /\ SelectedIs /\ CachedIrIsLoaded
    BY DEF JtagInv
  <1>2. /\ pc = "transfer" /\ pc' = "ready" /\ chain' = Fresh(chain) /\ op' = NoOp
        /\ UNCHANGED <<lens, dev_count, ir_length, ir_before, ir_after, dev_index, jtag_ir>>
    BY DEF EndTransfer, cfgVars
  <1>3. ChainIs' /\ chain'.tap = "Idle" /\ chain'.irs = chain.irs
    BY <1>1, <1>2, FreshKeeps
  <1>4. Described' /\ jtag_ir' # INVALID => Addresses(Device, jtag_ir)'
    BY <1>1, <1>2, <1>3 DEF CachedIrIsLoaded, Described, Addresses, Device
  <1>5. LensOk' /\ CachedIrIsLoaded' /\ AccessReachesTheDevice'
    BY <1>1, <1>2, <1>3, <1>4, Quiet
  <1>6. SelectedIs'
    BY <1>1, <1>2 DEF SelectedIs, Device
  <1>7. ConfigIs'
    BY <1>1, <1>2 DEF ConfigIs, IrBefore, IrAfter
  <1> QED BY <1>3, <1>5, <1>6, <1>7 DEF JtagInv

LEMMA AccessKeeps ==
  ASSUME JtagInv, NEW ir \in {DPACC, APACC}, NEW request \in Requests, NEW word \in Codes, NEW v \in Codes,
         NEW ack \in DOMAIN AckCodes, Access(ir, request, word, ack, Held(v))
  PROVE  JtagInv'
  <1>1. LensOk /\ ChainIs /\ ConfigIs /\ SelectedIs /\ CachedIrIsLoaded
    BY DEF JtagInv
  <1>2. /\ pc = "transfer" /\ JtagOperation(ir, request, word, ack, Held(v))
        /\ UNCHANGED <<lens, cfgVars, dev_index>> /\ UNCHANGED pc
    BY DEF Access
  <1>3. dev_index < dev_count /\ ir_length[Device] = 4
    BY <1>1, <1>2 DEF SelectedIs
  <1>4. /\ request \in [1..3 -> Bits] /\ word \in [1..DataBits -> Bits] /\ v \in [1..DataBits -> Bits]
    BY ChainAssumption
  <1> DEFINE data == Held(v)
  <1>5. DataOk(data)
    BY <1>1, <1>4, HeldIs
  <1>6. ChainIs' /\ CachedIrIsLoaded' /\ AccessReachesTheDevice'
    <2> HIDE DEF data
    <2>1. ir \in {ABORT, DPACC, APACC} /\ JtagOperation(ir, request, word, ack, data)
      BY <1>2 DEF data
    <2> QED BY <1>1, <1>2, <1>3, <1>4, <1>5, <2>1, OperationKeeps
  <1>7. jtag_ir' = ir
    BY <1>2 DEF JtagOperation
  <1>8. UNCHANGED <<lens, dev_count, ir_length, ir_before, ir_after, dev_index, pc>>
    BY <1>2 DEF cfgVars
  <1>9. SelectedIs'
    BY <1>2, <1>3, <1>7, <1>8 DEF SelectedIs, Device
  <1>10. LensOk' /\ ConfigIs'
    BY <1>1, <1>8 DEF LensOk, ConfigIs, IrBefore, IrAfter
  <1> QED BY <1>6, <1>9, <1>10 DEF JtagInv

LEMMA WriteAbortKeeps ==
  ASSUME JtagInv, NEW word \in Codes, NEW v \in Codes, NEW ack \in DOMAIN AckCodes,
         WriteAbort(word, ack, Held(v))
  PROVE  JtagInv'
  <1>1. LensOk /\ ChainIs /\ ConfigIs /\ SelectedIs /\ CachedIrIsLoaded
    BY DEF JtagInv
  <1> DEFINE request == <<0, 0, 0>>
             data == Held(v)
  <1>2. /\ pc = "abort" /\ pc' = "ready" /\ JtagOperation(ABORT, request, word, ack, data)
        /\ UNCHANGED <<lens, cfgVars, dev_index>>
    BY DEF WriteAbort
  <1>3. dev_index < dev_count /\ ir_length[Device] = 4
    BY <1>1, <1>2 DEF SelectedIs
  <1>4. /\ request \in [1..3 -> Bits] /\ word \in [1..DataBits -> Bits] /\ v \in [1..DataBits -> Bits]
    BY ChainAssumption, WordsAre
  <1>5. DataOk(data)
    BY <1>1, <1>4, HeldIs
  <1> HIDE DEF request, data
  <1>6. ChainIs' /\ CachedIrIsLoaded' /\ AccessReachesTheDevice'
    BY <1>1, <1>2, <1>3, <1>4, <1>5, OperationKeeps
  <1>7. jtag_ir' = ABORT
    BY <1>2 DEF JtagOperation
  <1>8. UNCHANGED <<lens, dev_count, ir_length, ir_before, ir_after, dev_index>>
    BY <1>2 DEF cfgVars
  <1>9. SelectedIs'
    BY <1>2, <1>3, <1>7, <1>8 DEF SelectedIs, Device
  <1>10. LensOk' /\ ConfigIs'
    BY <1>1, <1>8 DEF LensOk, ConfigIs, IrBefore, IrAfter
  <1> QED BY <1>6, <1>9, <1>10 DEF JtagInv

LEMMA JtagIdcodeKeeps ==
  ASSUME JtagInv, NEW v \in Codes, JtagIdcode(Held(v))
  PROVE  JtagInv'
  <1>1. LensOk /\ ChainIs /\ ConfigIs /\ SelectedIs /\ CachedIrIsLoaded
    BY DEF JtagInv
  <1> DEFINE data == Held(v)
  <1>2. /\ pc = "idcode" /\ pc' = "ready" /\ JtagIdcode(data)
        /\ UNCHANGED <<lens, cfgVars, dev_index, jtag_ir>>
    BY DEF JtagIdcode
  <1>3. dev_index < dev_count /\ ir_length[Device] = 4 /\ jtag_ir = INVALID
    BY <1>1, <1>2 DEF SelectedIs
  <1>4. v \in [1..DataBits -> Bits]
    BY ChainAssumption
  <1>5. DataOk(data)
    BY <1>1, <1>4, HeldIs
  <1> HIDE DEF data
  <1>6. ChainIs' /\ CachedIrIsLoaded' /\ AccessReachesTheDevice'
    BY <1>1, <1>2, <1>3, <1>5, IdcodeKeeps
  <1>7. UNCHANGED <<lens, dev_count, ir_length, ir_before, ir_after, dev_index, jtag_ir>>
    BY <1>2 DEF cfgVars
  <1>8. SelectedIs'
    BY <1>2, <1>3, <1>7 DEF SelectedIs, Device
  <1>9. LensOk' /\ ConfigIs'
    BY <1>1, <1>7 DEF LensOk, ConfigIs, IrBefore, IrAfter
  <1> QED BY <1>6, <1>8, <1>9 DEF JtagInv

LEMMA JtagSequenceKeeps ==
  ASSUME JtagInv, JtagSequence
  PROVE  JtagInv'
  <1>1. LensOk /\ ChainIs /\ ConfigIs /\ SelectedIs
    BY DEF JtagInv
  <1> DEFINE t == Fresh(chain)
             r == ResetIrs
             cs == Clocks(1, 1, 5) \o Clocks(0, 1, 1)
             f == [t EXCEPT !.irs = r]
  <1>2. /\ pc = "ready" /\ jtag_ir' = INVALID /\ chain' = Run(f, cs) /\ op' = NoOp
        /\ UNCHANGED <<lens, dev_count, ir_length, ir_before, ir_after, dev_index, pc>>
    BY DEF JtagSequence, ForgetIr, cfgVars
  <1>3. t = Jt("Idle", t.sr, t.tdo, chain.irs, t.drs, t.ack, t.data) /\ AckOk(t.ack)
    BY <1>1, FreshChain
  <1>4. IrsOk(r)
    BY <1>1, ResetIrsOk
  <1>5. f = WithIrs(t, r)
    BY DEF WithIrs
  <1> HIDE DEF t, r, f
  <1> DEFINE s == t.sr
             o == t.tdo
             i == chain.irs
             d == t.drs
             a == t.ack
             v == t.data
             u == Jt("Idle", s, <<>>, r, d, a, v)
  <1>6. t = Jt("Idle", s, o, i, d, a, v)
    BY <1>3
  <1> HIDE DEF s, o, i, d, a, v
  <1>7. f = Jt("Idle", s, o, r, d, a, v)
    <2>1. WithIrs(Jt("Idle", s, o, i, d, a, v), r) = Jt("Idle", s, o, r, d, a, v)
      BY JtFields
    <2> QED BY <1>5, <1>6, <2>1
  <1>8. Run(Jt("Idle", s, o, r, d, a, v), cs) = u
    BY ResetScan
  <1> HIDE DEF cs, u
  <1>9. chain' = u
    BY <1>2, <1>7, <1>8
  <1>10. u.tap = "Idle" /\ u.sr = s /\ u.tdo = <<>> /\ u.irs = r /\ u.drs = d /\ u.ack = a /\ u.data = v
    BY JtFields DEF u
  <1>11. ChainIs'
    <2>1. chain' = Jt("Idle", chain'.sr, chain'.tdo, chain'.irs, chain'.drs, chain'.ack, chain'.data)
      BY <1>9, <1>10 DEF u
    <2>2. IrsOk(chain.irs)' /\ AckOk(chain.ack)'
      BY <1>2, <1>3, <1>4, <1>9, <1>10 DEF IrsOk, AckOk, a
    <2> QED BY <2>1, <2>2 DEF ChainIs
  <1>12. LensOk' /\ CachedIrIsLoaded' /\ AccessReachesTheDevice'
    BY <1>1, <1>2, <1>9, <1>10, <1>11, Quiet
  <1>13. SelectedIs'
    BY <1>2 DEF SelectedIs
  <1>14. ConfigIs'
    BY <1>1, <1>2 DEF ConfigIs, IrBefore, IrAfter
  <1> QED BY <1>11, <1>12, <1>13, <1>14 DEF JtagInv

LEMMA JtagStays == JtagInv /\ UNCHANGED vars => JtagInv'
  <1> SUFFICES ASSUME JtagInv, UNCHANGED vars PROVE JtagInv'
    OBVIOUS
  <1>1. UNCHANGED <<lens, chain, dev_count, dev_index, ir_length, ir_before, ir_after, jtag_ir, pc, op>>
    BY DEF vars, cfgVars
  <1>2. LensOk' /\ ChainIs'
    BY <1>1 DEF JtagInv, LensOk, ChainIs, IrsOk, AckOk
  <1>3. ConfigIs' /\ SelectedIs'
    BY <1>1 DEF JtagInv, ConfigIs, IrBefore, IrAfter, SelectedIs, Device
  <1>4. CachedIrIsLoaded'
    BY <1>1 DEF JtagInv, CachedIrIsLoaded, Described, Addresses, Device
  <1>5. AccessReachesTheDevice'
    BY <1>1 DEF JtagInv, AccessReachesTheDevice, Described, Addresses
  <1> QED BY <1>2, <1>3, <1>4, <1>5 DEF JtagInv

LEMMA JtagStep == JtagInv /\ [Next]_vars => JtagInv'
  <1> SUFFICES ASSUME JtagInv, [Next]_vars PROVE JtagInv'
    OBVIOUS
  <1>1. CASE UNCHANGED vars
    BY <1>1, JtagStays
  <1>2. CASE \E layout \in Layouts : Configure(layout)
    BY <1>2, ConfigureKeeps
  <1>3. CASE \E command \in {"transfer", "abort", "idcode"}, index \in 0..(DevCountMax - 1) : Begin(command, index)
    BY <1>3, BeginKeeps
  <1>4. CASE \E ir \in {DPACC, APACC}, request \in Requests, word, v \in Codes, ack \in DOMAIN AckCodes :
                Access(ir, request, word, ack, Held(v))
    BY <1>4, AccessKeeps
  <1>5. CASE \E word, v \in Codes, ack \in DOMAIN AckCodes : WriteAbort(word, ack, Held(v))
    BY <1>5, WriteAbortKeeps
  <1>6. CASE \E v \in Codes : JtagIdcode(Held(v))
    BY <1>6, JtagIdcodeKeeps
  <1>7. CASE EndTransfer
    BY <1>7, EndTransferKeeps
  <1>8. CASE JtagSequence
    BY <1>8, JtagSequenceKeeps
  <1> QED BY <1>1, <1>2, <1>3, <1>4, <1>5, <1>6, <1>7, <1>8 DEF Next

THEOREM JtagInvariance == Spec => []JtagInv
  BY JtagBegins, JtagStep, PTL DEF Spec

\* dap.c never works on a device the host has not described: the arrays of the chain have
\* an entry for each one, and a command is begun for one of these (dap.c:480-525).
THEOREM JtagTypes == Spec => []TypeOK
  <1>1. JtagInv => TypeOK
    <2> SUFFICES ASSUME JtagInv PROVE TypeOK
      OBVIOUS
    <2>1. ConfigIs /\ SelectedIs
      BY DEF JtagInv
    <2>2. /\ ir_before \in [1..dev_count -> Nat] /\ ir_after \in [1..dev_count -> Nat]
      BY <2>1, AllPlaces DEF ConfigIs
    <2>3. dev_count \in 0..DevCountMax
      BY <2>1, ChainAssumption DEF ConfigIs
    <2> QED BY <2>1, <2>2, <2>3 DEF TypeOK, ConfigIs, SelectedIs
  <1> QED BY <1>1, JtagInvariance, PTL

\* The instruction dap.c remembers is the one loaded in the device addressed, all others
\* being in bypass, for any chain and any number of devices; and every command ends with
\* the TAPs in Idle, even on a chain that is not the one described (dap.c:521-525).
THEOREM RememberedIsLoaded == Spec => []CachedIrIsLoaded
  BY JtagInvariance, PTL DEF JtagInv

\* In any chain the host describes rightly, an access reads and writes the device it is
\* meant for, bit for bit, at whatever place in the chain that is, and the ID code is that of the
\* device asked for.
THEOREM EveryAccessArrives == Spec => []AccessReachesTheDevice
  BY JtagInvariance, PTL DEF JtagInv
=============================================================================
