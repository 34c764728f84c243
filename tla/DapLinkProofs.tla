--------------------------- MODULE DapLinkProofs ---------------------------
(***************************************************************************)
(* Proofs about the two links of the probe.  SwdLine: whatever commands    *)
(* the host sends, probe and target stay in step and every word crosses    *)
(* the wires.  DapTransport: whatever the host asks for and whenever it    *)
(* resets the bus, the two buffers have one user at a time and the answers *)
(* come in the order of the requests.                                      *)
(***************************************************************************)
EXTENDS DapTransport, SwdLine, SequenceTheorems, FiniteSetTheorems, WellFoundedInduction, TLAPS
-----------------------------------------------------------------------------
(* The wires of the target: SwdLine. *)

\* Induction over the naturals, for a set of them.
LEMMA Induct ==
  ASSUME NEW T \in SUBSET Nat, 0 \in T, \A n \in T : n + 1 \in T
  PROVE  T = Nat
  <1> SUFFICES ASSUME Nat \ T # {} PROVE FALSE
    OBVIOUS
  <1>1. PICK n \in Nat \ T : \A k \in Nat \ T : ~(k < n)
    <2>1. PICK n \in Nat \ T : \A y \in SetLessThan(n, OpToRel(<, Nat), Nat) : y \notin Nat \ T
      <3>1. IsWellFoundedOn(OpToRel(<, Nat), Nat)
        BY NatLessThanWellFounded
      <3> QED BY <3>1, WFMin DEF SetLessThan
    <2> QED BY <2>1 DEF SetLessThan, OpToRel
  <1>2. n # 0 /\ n - 1 \in Nat /\ n - 1 < n
    OBVIOUS
  <1>3. n - 1 \in T
    BY <1>1, <1>2
  <1> QED BY <1>1, <1>2, <1>3
-----------------------------------------------------------------------------
(* Moves one after the other. *)

\* The buses that moves lead through from b.
Path(b, ms) == CHOOSE f : f = [k \in 0..Len(ms) |-> IF k = 0 THEN b ELSE Move(f[k - 1], ms[k])]

LEMMA PathIs ==
  ASSUME NEW S, NEW b, NEW ms \in Seq(S)
  PROVE  /\ Path(b, ms)[0] = b
         /\ \A k \in 1..Len(ms) : Path(b, ms)[k] = Move(Path(b, ms)[k - 1], ms[k])
         /\ Play(b, ms) = Path(b, ms)[Len(ms)]
  <1> DEFINE T == {n \in Nat : \E f : f = [k \in 0..n |-> IF k = 0 THEN b ELSE Move(f[k - 1], ms[k])]}
  <1>1. 0 \in T
    <2> DEFINE f == [k \in 0..0 |-> b]
    <2>1. f = [k \in 0..0 |-> IF k = 0 THEN b ELSE Move(f[k - 1], ms[k])]
      OBVIOUS
    <2> HIDE DEF f
    <2>2. \E h : h = [k \in 0..0 |-> IF k = 0 THEN b ELSE Move(h[k - 1], ms[k])]
      BY <2>1, Zenon
    <2> QED BY <2>2
  <1>2. ASSUME NEW n \in T PROVE n + 1 \in T
    <2>1. PICK f : f = [k \in 0..n |-> IF k = 0 THEN b ELSE Move(f[k - 1], ms[k])]
      OBVIOUS
    <2> DEFINE g == [k \in 0..(n + 1) |-> IF k = n + 1 THEN Move(f[n], ms[k]) ELSE f[k]]
    <2>2. \A k \in 0..(n + 1) : g[k] = IF k = 0 THEN b ELSE Move(g[k - 1], ms[k])
      BY <2>1
    <2>3. g = [k \in 0..(n + 1) |-> IF k = 0 THEN b ELSE Move(g[k - 1], ms[k])]
      BY <2>2
    <2> HIDE DEF g
    <2>4. \E h : h = [k \in 0..(n + 1) |-> IF k = 0 THEN b ELSE Move(h[k - 1], ms[k])]
      BY <2>3, Zenon
    <2> QED BY <2>4
  <1>3. Len(ms) \in T
    <2> HIDE DEF T
    <2>1. T = Nat
      <3>1. T \subseteq Nat
        BY DEF T
      <3> QED BY ONLY <3>1, <1>1, <1>2, Induct
    <2> QED BY <2>1, LenProperties
  <1>4. PICK f : f = [k \in 0..Len(ms) |-> IF k = 0 THEN b ELSE Move(f[k - 1], ms[k])]
    BY <1>3
  <1>5. Path(b, ms) = [k \in 0..Len(ms) |-> IF k = 0 THEN b ELSE Move(Path(b, ms)[k - 1], ms[k])]
    BY <1>4, Zenon DEF Path
  <1>6. Play(b, ms) = Path(b, ms)[Len(ms)]
    BY DEF Play, Path
  <1> HIDE DEF T
  <1> QED BY <1>5, <1>6, LenProperties

\* The last of the buses is the only one there can be.
LEMMA PlayEnds ==
  ASSUME NEW S, NEW b, NEW ms \in Seq(S), NEW f, f[0] = b,
         \A k \in 1..Len(ms) : f[k] = Move(f[k - 1], ms[k])
  PROVE  Play(b, ms) = f[Len(ms)]
  <1> DEFINE g == Path(b, ms)
             T == {n \in Nat : n <= Len(ms) => f[n] = g[n]}
  <1>1. /\ g[0] = b /\ \A k \in 1..Len(ms) : g[k] = Move(g[k - 1], ms[k])
        /\ Play(b, ms) = g[Len(ms)]
    BY PathIs
  <1> HIDE DEF g
  <1>2. Len(ms) \in Nat
    BY LenProperties
  <1>3. 0 \in T
    BY <1>1
  <1>4. ASSUME NEW n \in T PROVE n + 1 \in T
    <2> SUFFICES ASSUME n + 1 <= Len(ms) PROVE f[n + 1] = g[n + 1]
      OBVIOUS
    <2>1. n + 1 \in 1..Len(ms) /\ (n + 1) - 1 = n /\ f[n] = g[n]
      BY <1>2
    <2> QED BY <1>1, <2>1
  <1>5. T \in SUBSET Nat
    OBVIOUS
  <1> HIDE DEF T
  <1>6. T = Nat
    BY ONLY <1>3, <1>4, <1>5, Induct
  <1> QED BY <1>1, <1>2, <1>6 DEF T

LEMMA PlayNone ==
  ASSUME NEW b
  PROVE  Play(b, <<>>) = b
  <1>1. <<>> \in Seq(Nat) /\ Len(<<>>) = 0
    OBVIOUS
  <1> QED BY <1>1, PathIs, ZenonT(60)

LEMMA PlayOne ==
  ASSUME NEW b, NEW m
  PROVE  Play(b, <<m>>) = Move(b, m)
  <1> DEFINE ms == <<m>>
  <1>1. ms \in Seq({m}) /\ Len(ms) = 1 /\ ms[1] = m
    OBVIOUS
  <1> HIDE DEF ms
  <1>2. /\ \A k \in 1..1 : Path(b, ms)[k] = Move(Path(b, ms)[k - 1], ms[k])
        /\ Path(b, ms)[0] = b /\ Play(b, ms) = Path(b, ms)[1]
    BY <1>1, PathIs
  <1>3. Path(b, ms)[1] = Move(Path(b, ms)[0], ms[1])
    BY <1>2
  <1>4. Play(b, ms) = Move(b, m)
    BY <1>1, <1>2, <1>3
  <1> QED BY <1>4 DEF ms

LEMMA PlayBoth ==
  ASSUME NEW S, NEW b, NEW s \in Seq(S), NEW t \in Seq(S)
  PROVE  Play(b, s \o t) = Play(Play(b, s), t)
  <1> DEFINE u == s \o t
             f == Path(b, u)
             g == [k \in 0..Len(t) |-> f[Len(s) + k]]
  <1>1. /\ u \in Seq(S) /\ Len(u) = Len(s) + Len(t) /\ Len(s) \in Nat /\ Len(t) \in Nat
        /\ \A k \in 1..Len(s) : u[k] = s[k]
        /\ \A k \in 1..Len(t) : u[Len(s) + k] = t[k]
    OBVIOUS
  <1> HIDE DEF u
  <1>2. /\ f[0] = b /\ \A k \in 1..(Len(s) + Len(t)) : f[k] = Move(f[k - 1], u[k])
        /\ Play(b, u) = f[Len(s) + Len(t)]
    <2>1. f[0] = b /\ (\A k \in 1..Len(u) : f[k] = Move(f[k - 1], u[k])) /\ Play(b, u) = f[Len(u)]
      <3>1. u \in Seq(S)
        BY <1>1
      <3> QED BY <3>1, PathIs
    <2> HIDE DEF f
    <2> QED BY <1>1, <2>1
  <1> HIDE DEF f
  <1>3. Play(b, s) = f[Len(s)]
    <2>1. \A k \in 1..Len(s) : f[k] = Move(f[k - 1], s[k])
      BY <1>1, <1>2
    <2> QED BY <1>2, <2>1, PlayEnds
  <1>4. g[0] = f[Len(s)] /\ \A k \in 1..Len(t) : g[k] = Move(g[k - 1], t[k])
    <2>1. g[0] = f[Len(s)]
      BY <1>1
    <2>2. ASSUME NEW k \in 1..Len(t) PROVE g[k] = Move(g[k - 1], t[k])
      <3>1. Len(s) + k \in 1..(Len(s) + Len(t)) /\ (Len(s) + k) - 1 = Len(s) + (k - 1) /\ k - 1 \in 0..Len(t)
        BY <1>1
      <3>2. f[Len(s) + k] = Move(f[Len(s) + (k - 1)], t[k])
        BY <1>1, <1>2, <3>1
      <3> QED BY <3>1, <3>2
    <2> QED BY <2>1, <2>2
  <1>5. g[Len(t)] = f[Len(s) + Len(t)]
    BY <1>1
  <1> HIDE DEF g
  <1>6. Play(f[Len(s)], t) = g[Len(t)]
    BY <1>4, PlayEnds
  <1> QED BY <1>2, <1>3, <1>5, <1>6 DEF u
-----------------------------------------------------------------------------
(* The wires while a target answers. *)

\* A bus with SWCLK high, and one on which nobody has fought.
High(d, l, t, p, r, k, c) == [dir |-> d, level |-> l, clk |-> 1, tgt |-> t, plan |-> p,
                              read |-> r, taken |-> k, clash |-> c]
Never == FALSE
On(d, l, t, p, r, k) == High(d, l, t, p, r, k, Never)

\* A target that waits, and one at place i of an answer, or behind its end.
Tgt(st, o, h, s) == [state |-> st, ones |-> o, heard |-> h, todo |-> s]
Idle(o) == Tgt("idle", o, <<>>, <<>>)
Rest(s, o) == Tgt("answer", o, <<>>, s)
At(T, i, o) == IF i > Len(T) THEN Idle(o) ELSE Rest(SubSeq(T, i, Len(T)), o)

\* The level of SWDIO at place i of an answer.
Seen(d, l, p, T, i) == IF d = "out" THEN l ELSE IF T[i] \in Levels THEN T[i] ELSE p.pull

\* Changes of a target and of a bus.
WithOnes(t, z) == [t EXCEPT !.ones = z]
WithState(t, st) == [t EXCEPT !.state = st]
WithHeard(t, h) == [t EXCEPT !.heard = h]
WithTodo(t, s) == [t EXCEPT !.todo = s]
WithLevel(b, v) == [b EXCEPT !.level = v]
WithDir(b, d) == [b EXCEPT !.dir = d]
WithRead(b, r) == [b EXCEPT !.read = r]
WithClk(b, v) == [b EXCEPT !.clk = v]
WithTgt(b, t) == [b EXCEPT !.tgt = t]
WithTaken(b, k) == [b EXCEPT !.taken = k]
WithClash(b, c) == [b EXCEPT !.clash = c]
Clock(b, t, k, c) == [b EXCEPT !.tgt = t, !.taken = k, !.clash = c]

LEMMA TgtFields ==
  ASSUME NEW st, NEW o, NEW h, NEW s
  PROVE  /\ Tgt(st, o, h, s).state = st /\ Tgt(st, o, h, s).ones = o
         /\ Tgt(st, o, h, s).heard = h /\ Tgt(st, o, h, s).todo = s
         /\ \A x : WithState(Tgt(st, o, h, s), x) = Tgt(x, o, h, s)
         /\ \A x : WithOnes(Tgt(st, o, h, s), x) = Tgt(st, x, h, s)
         /\ \A x : WithHeard(Tgt(st, o, h, s), x) = Tgt(st, o, x, s)
         /\ \A x : WithTodo(Tgt(st, o, h, s), x) = Tgt(st, o, h, x)
  BY DEF Tgt, WithState, WithOnes, WithHeard, WithTodo

LEMMA NoTargetIs == NoTarget = Tgt("lost", 0, <<>>, <<>>)
  BY DEF NoTarget, Tgt

LEMMA RestFields ==
  ASSUME NEW s, NEW o
  PROVE  /\ Rest(s, o).state = "answer" /\ Rest(s, o).ones = o /\ Rest(s, o).todo = s
         /\ Rest(s, o).heard = <<>>
         /\ \A u : WithTodo(Rest(s, o), u) = Rest(u, o)
         /\ \A z : WithOnes(Rest(s, o), z) = Rest(s, z)
  BY TgtFields DEF Rest

LEMMA IdleFields ==
  ASSUME NEW o
  PROVE  /\ Idle(o).state = "idle" /\ Idle(o).ones = o /\ Idle(o).heard = <<>>
         /\ Idle(o).todo = <<>>
         /\ \A z : WithOnes(Idle(o), z) = Idle(z)
         /\ IdleTarget = Idle(0)
  <1>1. IdleTarget = WithState(NoTarget, "idle")
    BY DEF IdleTarget, WithState
  <1> QED BY <1>1, NoTargetIs, TgtFields DEF Idle

LEMMA Fields ==
  ASSUME NEW d, NEW l, NEW t, NEW p, NEW r, NEW k
  PROVE  LET b == On(d, l, t, p, r, k)
         IN /\ b.dir = d /\ b.level = l /\ b.clk = 1 /\ b.tgt = t /\ b.plan = p
            /\ b.read = r /\ b.taken = k
  BY DEF On, High

LEMMA NoClash ==
  ASSUME NEW d, NEW l, NEW t, NEW p, NEW r, NEW k
  PROVE  On(d, l, t, p, r, k).clash = Never
  BY DEF On, High

LEMMA WiresHigh ==
  ASSUME NEW d, NEW l, NEW t, NEW p, NEW r, NEW k, NEW c
  PROVE  /\ \A a : WithLevel(High(d, l, t, p, r, k, c), a) = High(d, a, t, p, r, k, c)
         /\ \A a : WithDir(High(d, l, t, p, r, k, c), a) = High(a, l, t, p, r, k, c)
         /\ \A a : WithRead(High(d, l, t, p, r, k, c), a) = High(d, l, t, p, a, k, c)
         /\ WithClk(High(d, l, t, p, r, k, c), 1) = High(d, l, t, p, r, k, c)
         /\ \A a : WithTgt(High(d, l, t, p, r, k, c), a) = High(d, l, a, p, r, k, c)
         /\ \A a : WithTaken(High(d, l, t, p, r, k, c), a) = High(d, l, t, p, r, a, c)
         /\ \A a : WithClash(High(d, l, t, p, r, k, c), a) = High(d, l, t, p, r, k, a)
  <1>1. \A a : WithLevel(High(d, l, t, p, r, k, c), a) = High(d, a, t, p, r, k, c)
    BY DEF High, WithLevel
  <1>2. \A a : WithDir(High(d, l, t, p, r, k, c), a) = High(a, l, t, p, r, k, c)
    BY DEF High, WithDir
  <1>3. \A a : WithRead(High(d, l, t, p, r, k, c), a) = High(d, l, t, p, a, k, c)
    BY DEF High, WithRead
  <1>4. WithClk(High(d, l, t, p, r, k, c), 1) = High(d, l, t, p, r, k, c)
    BY DEF High, WithClk
  <1>5. \A a : WithTgt(High(d, l, t, p, r, k, c), a) = High(d, l, a, p, r, k, c)
    BY DEF High, WithTgt
  <1>6. \A a : WithTaken(High(d, l, t, p, r, k, c), a) = High(d, l, t, p, r, a, c)
    BY DEF High, WithTaken
  <1>7. \A a : WithClash(High(d, l, t, p, r, k, c), a) = High(d, l, t, p, r, k, a)
    BY DEF High, WithClash
  <1> QED BY <1>1, <1>2, <1>3, <1>4, <1>5, <1>6, <1>7

LEMMA Wires ==
  ASSUME NEW d, NEW l, NEW t, NEW p, NEW r, NEW k
  PROVE  /\ \A a : WithLevel(On(d, l, t, p, r, k), a) = On(d, a, t, p, r, k)
         /\ \A a : WithDir(On(d, l, t, p, r, k), a) = On(a, l, t, p, r, k)
         /\ \A a : WithRead(On(d, l, t, p, r, k), a) = On(d, l, t, p, a, k)
         /\ WithClk(On(d, l, t, p, r, k), 1) = On(d, l, t, p, r, k)
         /\ \A a, z : Clock(On(d, l, t, p, r, k), a, z, Never) = On(d, l, a, p, r, z)
  <1>1. ASSUME NEW f, NEW a, NEW z, NEW e
        PROVE  Clock(f, a, z, e) = WithClash(WithTaken(WithTgt(f, a), z), e)
    BY DEF Clock, WithTgt, WithTaken, WithClash
  <1> QED BY <1>1, WiresHigh DEF On

\* A clock when nobody fights and the line has not been high for a line reset.
LEMMA QuietEdge ==
  ASSUME NEW d, NEW l, NEW t, NEW p, NEW r, NEW k,
         ~(d = "out" /\ Drives(t)), t.ones \in Nat,
         Line(On(d, l, t, p, r, k)) = 0 \/ t.ones + 1 < ResetBits
  PROVE  LET b == On(d, l, t, p, r, k)
             z == IF Line(b) = 0 \/ Drives(t) THEN 0 ELSE t.ones + 1
         IN Edge(b) = On(d, l, WithOnes(IF t.state = "answer" THEN Answering(t)
                                        ELSE Listening(t, Line(b), p), z), p, r,
                         IF t.state = "answer" /\ Head(t.todo) = Take THEN Append(k, Line(b)) ELSE k)
  <1> DEFINE b == On(d, l, t, p, r, k)
             z == IF Line(b) = 0 \/ Drives(t) THEN 0 ELSE t.ones + 1
             next == IF t.state = "answer" THEN Answering(t) ELSE Listening(t, Line(b), p)
             w == IF t.state = "answer" /\ Head(t.todo) = Take THEN Append(k, Line(b)) ELSE k
             ones == IF Line(b) = 0 \/ Drives(t) THEN 0
                     ELSE IF t.ones < ResetBits THEN t.ones + 1 ELSE t.ones
  <1>1. b.dir = d /\ b.tgt = t /\ b.plan = p /\ b.taken = k
    BY Fields
  <1>2. ones = z /\ z # ResetBits
    BY WireAssumption
  <1>3. (b.clash \/ (b.dir = "out" /\ Drives(t))) = Never
    <2>1. b.clash = FALSE
      BY NoClash DEF Never
    <2> HIDE DEF b
    <2> QED BY <1>1, <2>1 DEF Never
  <1>4. Clock(b, WithOnes(next, z), w, Never) = On(d, l, WithOnes(next, z), p, r, w)
    <2> HIDE DEF next, w, z
    <2> QED BY Wires
  <1> HIDE DEF b
  <1>5. Edge(b) = Clock(b, IF ones = ResetBits
                           THEN [NoTarget EXCEPT !.state = "reset", !.ones = ones]
                           ELSE WithOnes(next, ones), w, b.clash \/ (b.dir = "out" /\ Drives(t)))
    BY <1>1 DEF Edge, Clock, WithOnes
  <1> HIDE DEF next, w, ones, z
  <1>6. Edge(b) = Clock(b, WithOnes(next, z), w, Never)
    BY <1>2, <1>3, <1>5
  <1> QED BY <1>4, <1>6 DEF b, z, next, w

LEMMA RestOfAnswer ==
  ASSUME NEW T \in Seq(0..3), NEW i \in 1..Len(T)
  PROVE  LET S == SubSeq(T, i, Len(T))
         IN /\ i \in Nat /\ i <= Len(T) /\ Len(T) \in Nat
            /\ S \in Seq(0..3) /\ Len(S) = Len(T) + 1 - i
            /\ Head(S) = T[i] /\ Tail(S) = SubSeq(T, i + 1, Len(T)) /\ T[i] \in 0..3
  <1>1. Len(T) \in Nat /\ Len(T) \in i..Len(T) /\ i \in Int /\ \A j \in i..Len(T) : T[j] \in 0..3
    OBVIOUS
  <1>2. Head(SubSeq(T, i, Len(T))) = T[i] /\ Tail(SubSeq(T, i, Len(T))) = SubSeq(T, i + 1, Len(T))
    BY <1>1, HeadTailOfSubSeq
  <1>3. SubSeq(T, i, Len(T)) \in Seq(0..3) /\ Len(SubSeq(T, i, Len(T))) = Len(T) - i + 1
    BY <1>1, SubSeqProperties
  <1> QED BY <1>1, <1>2, <1>3

\* A clock takes the target one place further.
LEMMA AnswerGoesOn ==
  ASSUME NEW T \in Seq(0..3), NEW i \in 1..Len(T), NEW o \in Nat, o + 1 < ResetBits,
         NEW d \in {"in", "out"}, NEW l, NEW p, NEW r, NEW k,
         d = "out" => T[i] \notin Levels
  PROVE  /\ Line(On(d, l, At(T, i, o), p, r, k)) = Seen(d, l, p, T, i)
         /\ \E z \in 0..(o + 1) :
               /\ Edge(On(d, l, At(T, i, o), p, r, k))
                     = On(d, l, At(T, i + 1, z), p, r,
                          IF T[i] = Take THEN Append(k, Seen(d, l, p, T, i)) ELSE k)
               /\ T[i] \in Levels \/ Seen(d, l, p, T, i) = 0 => z = 0
  <1> DEFINE S == SubSeq(T, i, Len(T))
             t == Rest(S, o)
             b == On(d, l, t, p, r, k)
             v == Seen(d, l, p, T, i)
             z == IF v = 0 \/ T[i] \in Levels THEN 0 ELSE o + 1
  <1>1. /\ i \in Nat /\ i <= Len(T) /\ Len(T) \in Nat /\ Len(S) = Len(T) + 1 - i
        /\ Head(S) = T[i] /\ Tail(S) = SubSeq(T, i + 1, Len(T)) /\ T[i] \in 0..3
    BY RestOfAnswer
  <1>2. At(T, i, o) = t /\ At(T, i + 1, z) = IF Len(S) = 1 THEN Idle(z) ELSE Rest(Tail(S), z)
    <2> HIDE DEF z
    <2>1. ~(i > Len(T)) /\ (i + 1 > Len(T) <=> Len(S) = 1)
      BY <1>1
    <2>2. At(T, i, o) = t
      BY <2>1 DEF At
    <2>3. At(T, i + 1, z) = IF i + 1 > Len(T) THEN Idle(z) ELSE Rest(Tail(S), z)
      BY <1>1 DEF At
    <2> QED BY <2>1, <2>2, <2>3
  <1> HIDE DEF S
  <1>3. t.state = "answer" /\ t.ones = o /\ t.todo = S
    BY RestFields
  <1>4. Drives(t) <=> T[i] \in Levels
    BY <1>1, <1>3 DEF Drives
  <1>5. b.dir = d /\ b.level = l /\ b.tgt = t /\ b.plan = p
    BY Fields
  <1>6. Line(b) = v
    <2> HIDE DEF b, t
    <2> QED BY <1>1, <1>3, <1>4, <1>5 DEF Line, Seen
  <1>7. WithOnes(Answering(t), z) = IF Len(S) = 1 THEN Idle(z) ELSE Rest(Tail(S), z)
    <2> HIDE DEF z
    <2>1. WithOnes(IdleTarget, z) = Idle(z)
      BY IdleFields
    <2>2. Answering(t) = IF Len(S) = 1 THEN IdleTarget ELSE WithTodo(t, Tail(S))
      BY <1>3 DEF Answering, WithTodo
    <2>3. WithOnes(WithTodo(t, Tail(S)), z) = Rest(Tail(S), z)
      BY RestFields
    <2> HIDE DEF t
    <2> QED BY <2>1, <2>2, <2>3
  <1>8. Edge(b) = On(d, l, IF Len(S) = 1 THEN Idle(z) ELSE Rest(Tail(S), z), p, r,
                     IF T[i] = Take THEN Append(k, v) ELSE k)
    <2> HIDE DEF t, v
    <2>1. Edge(b) = On(d, l, WithOnes(Answering(t), z), p, r,
                       IF T[i] = Take THEN Append(k, v) ELSE k)
      BY <1>1, <1>3, <1>4, <1>6, QuietEdge
    <2> QED BY <2>1, <1>7
  <1>9. z \in 0..(o + 1) /\ (T[i] \in Levels \/ v = 0 => z = 0)
    OBVIOUS
  <1> HIDE DEF z, v, t
  <1>10. /\ Line(On(d, l, At(T, i, o), p, r, k)) = v
         /\ Edge(On(d, l, At(T, i, o), p, r, k))
               = On(d, l, At(T, i + 1, z), p, r, IF T[i] = Take THEN Append(k, v) ELSE k)
    BY <1>2, <1>6, <1>8
  <1> QED BY <1>9, <1>10 DEF v

\* What each move does to wires with SWCLK high.
LEMMA Moves ==
  ASSUME NEW d, NEW l, NEW t, NEW p, NEW r, NEW k
  PROVE  /\ \A m \in Levels : Move(On(d, l, t, p, r, k), m) = Edge(On(d, m, t, p, r, k))
         /\ Move(On(d, l, t, p, r, k), Pulse) = Edge(On(d, l, t, p, r, k))
         /\ Move(On(d, l, t, p, r, k), Sample)
               = Edge(On(d, l, t, p, Append(r, Line(On(d, l, t, p, r, k))), k))
         /\ Move(On(d, l, t, p, r, k), DioOut) = On("out", l, t, p, r, k)
         /\ Move(On(d, l, t, p, r, k), DioIn) = On("in", l, t, p, r, k)
         /\ \A v \in Levels : Move(On(d, l, t, p, r, k), Dio(v)) = On(d, v, t, p, r, k)
  <1> DEFINE b == On(d, l, t, p, r, k)
  <1>1. /\ \A a : WithLevel(b, a) = On(d, a, t, p, r, k)
        /\ \A a : WithDir(b, a) = On(a, l, t, p, r, k)
        /\ \A a : WithRead(b, a) = On(d, l, t, p, a, k)
        /\ WithClk(b, 1) = b /\ b.clk = 1
    BY Wires, Fields
  <1>2. \A a : WithClk(On(d, a, t, p, r, k), 1) = On(d, a, t, p, r, k)
    BY Wires
  <1>3. \A a : WithClk(On(d, l, t, p, a, k), 1) = On(d, l, t, p, a, k)
    BY Wires
  <1> HIDE DEF b
  <1> USE DEF Pulse, Sample, DioOut, DioIn, Dio, Tck, Levels, Clocked
  <1>4. ASSUME NEW m \in Levels PROVE Move(b, m) = Edge(On(d, m, t, p, r, k))
    <2>1. Move(b, m) = Edge(WithClk(WithLevel(b, m), 1))
      <3>1. CASE m = 0
        BY <3>1 DEF Move, WithClk, WithLevel
      <3>2. CASE m = 1
        BY <3>2 DEF Move, WithClk, WithLevel
      <3> QED BY <3>1, <3>2
    <2> QED BY <1>1, <1>2, <2>1
  <1>5. Move(b, Pulse) = Edge(b)
    <2>1. Move(b, Pulse) = Edge(WithClk(b, 1))
      BY DEF Move, WithClk
    <2> QED BY <1>1, <2>1
  <1>6. Move(b, Sample) = Edge(On(d, l, t, p, Append(r, Line(b)), k))
    <2>1. Move(b, Sample) = Edge(WithClk(WithRead(b, Append(b.read, Line(b))), 1))
      BY DEF Move, WithClk, WithRead
    <2>2. b.read = r
      BY Fields DEF b
    <2> QED BY <1>1, <1>3, <2>1, <2>2
  <1>7. Move(b, DioOut) = On("out", l, t, p, r, k)
    <2>1. Move(b, DioOut) = WithDir(b, "out")
      BY DEF Move, WithDir
    <2> QED BY <1>1, <2>1
  <1>8. Move(b, DioIn) = On("in", l, t, p, r, k)
    <2>1. Move(b, DioIn) = WithDir(b, "in")
      BY DEF Move, WithDir
    <2> QED BY <1>1, <2>1
  <1>9. ASSUME NEW v \in Levels PROVE Move(b, Dio(v)) = On(d, v, t, p, r, k)
    <2>1. CASE v = 0
      <3>1. Move(b, Dio(0)) = WithLevel(b, 0)
        BY DEF Move, WithLevel
      <3> QED BY <1>1, <2>1, <3>1
    <2>2. CASE v = 1
      <3>1. Move(b, Dio(1)) = WithLevel(b, 1)
        BY DEF Move, WithLevel
      <3> QED BY <1>1, <2>2, <3>1
    <2> QED BY <2>1, <2>2
  <1> HIDE DEF Pulse, Sample, DioOut, DioIn, Dio, Tck, Clocked
  <1> QED BY <1>4, <1>5, <1>6, <1>7, <1>8, <1>9 DEF b

Put(s, v) == Append(s, v)
Cat(s, w) == s \o w

\* Where the elements of u come from, when it is s and w behind it.
IsCat(u, s, w) == /\ Len(u) = Len(s) + Len(w)
                  /\ \A i \in 1..Len(s) : u[i] = s[i]
                  /\ \A i \in 1..Len(w) : u[Len(s) + i] = w[i]

LEMMA CatIs ==
  ASSUME NEW S, NEW s \in Seq(S), NEW w \in Seq(S)
  PROVE  Cat(s, w) \in Seq(S) /\ IsCat(Cat(s, w), s, w)
  <1>1. /\ Cat(s, w) \in Seq(S) /\ Len(Cat(s, w)) = Len(s) + Len(w)
        /\ \A i \in 1..(Len(s) + Len(w)) : Cat(s, w)[i] = IF i <= Len(s) THEN s[i] ELSE w[i - Len(s)]
    BY ConcatProperties DEF Cat
  <1>2. Len(s) \in Nat /\ Len(w) \in Nat
    OBVIOUS
  <1>3. ASSUME NEW i \in 1..Len(w) PROVE Cat(s, w)[Len(s) + i] = w[i]
    <2>1. Len(s) + i \in 1..(Len(s) + Len(w)) /\ ~(Len(s) + i <= Len(s)) /\ (Len(s) + i) - Len(s) = i
      BY <1>2
    <2> QED BY <1>1, <2>1
  <1>4. ASSUME NEW i \in 1..Len(s) PROVE Cat(s, w)[i] = s[i]
    <2>1. i \in 1..(Len(s) + Len(w)) /\ i <= Len(s)
      BY <1>2
    <2> QED BY <1>1, <2>1
  <1> QED BY <1>1, <1>3, <1>4 DEF IsCat

\* The bus after a move that clocks, at place i of an answer, with v on the wire.
MovesTo(T, i, o, d, p, r, k, m, b) ==
    \E z \in 0..(o + 1), y \in Levels, v \in Levels :
       /\ b = On(d, y, At(T, i + 1, z), p, IF m = Sample THEN Put(r, v) ELSE r,
                 IF T[i] = Take THEN Put(k, v) ELSE k)
       /\ d = "in" /\ T[i] \in Levels => v = T[i] /\ z = 0
       /\ d = "out" /\ m \in Levels => v = m

\* One move that clocks, while the target answers.
LEMMA OneMove ==
  ASSUME NEW T \in Seq(0..3), NEW i \in 1..Len(T), NEW o \in Nat, o + 1 < ResetBits,
         NEW d \in {"in", "out"}, NEW l \in Levels, NEW p, p.pull \in Levels, NEW r, NEW k,
         NEW m \in 0..3, d = "out" => T[i] \notin Levels
  PROVE  MovesTo(T, i, o, d, p, r, k, m, Move(On(d, l, At(T, i, o), p, r, k), m))
  <1> USE DEF MovesTo
  <1>1. CASE m \in Levels
    <2> DEFINE v == Seen(d, m, p, T, i)
    <2>1. Move(On(d, l, At(T, i, o), p, r, k), m) = Edge(On(d, m, At(T, i, o), p, r, k)) /\ m # Sample
      BY <1>1, Moves DEF Sample, Levels
    <2> HIDE DEF MovesTo
    <2>2. PICK z \in 0..(o + 1) :
             /\ Edge(On(d, m, At(T, i, o), p, r, k))
                   = On(d, m, At(T, i + 1, z), p, r, IF T[i] = Take THEN Put(k, v) ELSE k)
             /\ T[i] \in Levels \/ v = 0 => z = 0
      BY AnswerGoesOn DEF Put
    <2>3. v \in Levels /\ (d = "in" /\ T[i] \in Levels => v = T[i]) /\ (d = "out" => v = m)
      BY <1>1 DEF Seen
    <2> HIDE DEF v
    <2> USE DEF MovesTo
    <2> QED BY <1>1, <2>1, <2>2, <2>3
  <1>2. CASE m = Pulse
    <2> DEFINE v == Seen(d, l, p, T, i)
    <2>1. Move(On(d, l, At(T, i, o), p, r, k), m) = Edge(On(d, l, At(T, i, o), p, r, k))
          /\ m # Sample /\ m \notin Levels
      BY <1>2, Moves DEF Sample, Pulse, Levels
    <2> HIDE DEF MovesTo
    <2>2. PICK z \in 0..(o + 1) :
             /\ Edge(On(d, l, At(T, i, o), p, r, k))
                   = On(d, l, At(T, i + 1, z), p, r, IF T[i] = Take THEN Put(k, v) ELSE k)
             /\ T[i] \in Levels \/ v = 0 => z = 0
      BY AnswerGoesOn DEF Put
    <2>3. v \in Levels /\ (d = "in" /\ T[i] \in Levels => v = T[i])
      BY DEF Seen
    <2> HIDE DEF v
    <2> USE DEF MovesTo
    <2> QED BY <2>1, <2>2, <2>3
  <1>3. CASE m = Sample
    <2> DEFINE v == Seen(d, l, p, T, i)
    <2>1. Move(On(d, l, At(T, i, o), p, r, k), m)
             = Edge(On(d, l, At(T, i, o), p, Put(r, v), k)) /\ m \notin Levels
      <3>1. Line(On(d, l, At(T, i, o), p, r, k)) = v
        BY AnswerGoesOn DEF Put
      <3> QED BY <1>3, <3>1, Moves DEF Sample, Levels, Put
    <2> HIDE DEF MovesTo
    <2>2. PICK z \in 0..(o + 1) :
             /\ Edge(On(d, l, At(T, i, o), p, Put(r, v), k))
                   = On(d, l, At(T, i + 1, z), p, Put(r, v), IF T[i] = Take THEN Put(k, v) ELSE k)
             /\ T[i] \in Levels \/ v = 0 => z = 0
      BY AnswerGoesOn, SMTT(40) DEF Put
    <2>3. v \in Levels /\ (d = "in" /\ T[i] \in Levels => v = T[i])
      BY DEF Seen
    <2> HIDE DEF v
    <2> USE DEF MovesTo
    <2> QED BY <1>3, <2>1, <2>2, <2>3
  <1> QED BY <1>1, <1>2, <1>3 DEF Levels, Pulse, Sample

\* A run of moves while the target answers: the levels w are those on the wire, and go
\* to what is read (if s = 1) and to what the target takes (if q = 1).
RunsTo(T, ms, i, o, d, l, p, r, k, s, q, n, b) ==
    \E w \in Seq(Levels), z \in 0..(o + n), y \in Levels :
       /\ Len(w) = n
       /\ b = On(d, y, At(T, i + n, z), p, IF s = 1 THEN r \o w ELSE r, IF q = 1 THEN k \o w ELSE k)
       /\ \A j \in 1..n : /\ d = "in" /\ T[i + j - 1] \in Levels => w[j] = T[i + j - 1]
                          /\ d = "out" /\ ms[j] \in Levels => w[j] = ms[j]
       /\ n > 0 /\ d = "in" /\ T[i + n - 1] \in Levels => z = 0

Fits(T, ms, i, d, s, q) ==
    \A j \in 1..Len(ms) : /\ d = "out" => T[i + j - 1] \notin Levels
                          /\ ms[j] = Sample <=> s = 1
                          /\ T[i + j - 1] = Take <=> q = 1

LEMMA LongerWord ==
  ASSUME NEW w \in Seq(Levels), NEW v \in Levels
  PROVE  /\ Put(w, v) \in Seq(Levels) /\ Len(Put(w, v)) = Len(w) + 1
         /\ Put(w, v)[Len(w) + 1] = v
         /\ \A j \in 1..Len(w) : Put(w, v)[j] = w[j]
  BY AppendProperties DEF Put

LEMMA LongerWords ==
  ASSUME NEW r \in Seq(Levels), NEW w \in Seq(Levels), NEW v \in Levels
  PROVE  Put(Cat(r, w), v) = Cat(r, Put(w, v))
  <1>1. r \o w \in Seq(Levels) /\ <<v>> \in Seq(Levels)
    BY ConcatProperties
  <1>2. Append(r \o w, v) = (r \o w) \o <<v>> /\ Append(w, v) = w \o <<v>>
    BY <1>1, AppendIsConcat
  <1>3. (r \o w) \o <<v>> = r \o (w \o <<v>>)
    BY <1>1, ConcatAssociative
  <1> QED BY <1>2, <1>3, Zenon DEF Put, Cat

LEMMA RunGoesOn ==
  ASSUME NEW T \in Seq(0..3), NEW ms \in Seq(0..3), NEW i \in 1..(Len(T) + 1),
         i + Len(ms) <= Len(T) + 1, NEW o \in Nat, o + Len(ms) < ResetBits,
         NEW d \in {"in", "out"}, NEW l \in Levels, NEW p, p.pull \in Levels,
         NEW r \in Seq(Levels), NEW k \in Seq(Levels),
         NEW s \in {0, 1}, NEW q \in {0, 1},
         Fits(T, ms, i, d, s, q),
         NEW n \in Nat, n < Len(ms), NEW b,
         RunsTo(T, ms, i, o, d, l, p, r, k, s, q, n, b)
  PROVE  RunsTo(T, ms, i, o, d, l, p, r, k, s, q, n + 1, Move(b, ms[n + 1]))
  <1> DEFINE m == ms[n + 1]
             h == i + n
  <1>1. /\ n + 1 \in 1..Len(ms) /\ m \in 0..3 /\ Len(ms) \in Nat /\ Len(T) \in Nat
        /\ h \in 1..Len(T) /\ i + (n + 1) - 1 = h /\ i + (n + 1) = h + 1
    <2>1. Len(ms) \in Nat /\ Len(T) \in Nat
      OBVIOUS
    <2>2. n + 1 \in 1..Len(ms)
      BY <2>1
    <2> QED BY <2>1, <2>2
  <1>2. (d = "out" => T[h] \notin Levels) /\ (m = Sample <=> s = 1) /\ (T[h] = Take <=> q = 1)
    BY <1>1 DEF Fits
  <1>3. PICK w \in Seq(Levels), z \in 0..(o + n), y \in Levels :
       /\ Len(w) = n
       /\ b = On(d, y, At(T, h, z), p, IF s = 1 THEN Cat(r, w) ELSE r, IF q = 1 THEN Cat(k, w) ELSE k)
       /\ \A j \in 1..n : /\ d = "in" /\ T[i + j - 1] \in Levels => w[j] = T[i + j - 1]
                          /\ d = "out" /\ ms[j] \in Levels => w[j] = ms[j]
    BY DEF RunsTo, Cat
  <1>4. z \in Nat /\ z + 1 < ResetBits
    BY <1>1, WireAssumption
  <1> DEFINE R == IF s = 1 THEN Cat(r, w) ELSE r
             K == IF q = 1 THEN Cat(k, w) ELSE k
  <1> HIDE DEF m, h
  <1>5. PICK zz \in 0..(z + 1), yy \in Levels, v \in Levels :
            /\ Move(On(d, y, At(T, h, z), p, R, K), m)
                  = On(d, yy, At(T, h + 1, zz), p, IF m = Sample THEN Put(R, v) ELSE R,
                       IF T[h] = Take THEN Put(K, v) ELSE K)
            /\ d = "in" /\ T[h] \in Levels => v = T[h] /\ zz = 0
            /\ d = "out" /\ m \in Levels => v = m
    <2> HIDE DEF R, K
    <2>1. MovesTo(T, h, z, d, p, R, K, m, Move(On(d, y, At(T, h, z), p, R, K), m))
      BY <1>1, <1>2, <1>4, OneMove
    <2> QED BY <2>1 DEF MovesTo
  <1> DEFINE x == Put(w, v)
  <1>6. /\ Put(Cat(r, w), v) = Cat(r, x) /\ Put(Cat(k, w), v) = Cat(k, x)
        /\ x \in Seq(Levels) /\ Len(x) = n + 1 /\ x[n + 1] = v
        /\ \A j \in 1..n : x[j] = w[j]
    <2>1. Len(w) = n
      BY <1>3
    <2> HIDE DEF R, K
    <2>2. Put(Cat(r, w), v) = Cat(r, x) /\ Put(Cat(k, w), v) = Cat(k, x)
      BY LongerWords
    <2>3. /\ x \in Seq(Levels) /\ Len(x) = n + 1 /\ x[n + 1] = v
          /\ \A j \in 1..n : x[j] = w[j]
      BY <2>1, LongerWord
    <2> QED BY <2>2, <2>3
  <1> HIDE DEF x
  <1> DEFINE RR == IF s = 1 THEN Cat(r, x) ELSE r
             KK == IF q = 1 THEN Cat(k, x) ELSE k
  <1>7. Move(b, m) = On(d, yy, At(T, h + 1, zz), p, RR, KK)
    <2>1. (IF m = Sample THEN Put(R, v) ELSE R) = RR
      BY <1>2, <1>6
    <2>2. (IF T[h] = Take THEN Put(K, v) ELSE K) = KK
      BY <1>2, <1>6
    <2>3. b = On(d, y, At(T, h, z), p, R, K)
      BY <1>3
    <2> HIDE DEF R, K, RR, KK
    <2> QED BY <1>5, <2>1, <2>2, <2>3
  <1>8. \A j \in 1..(n + 1) : /\ d = "in" /\ T[i + j - 1] \in Levels => x[j] = T[i + j - 1]
                              /\ d = "out" /\ ms[j] \in Levels => x[j] = ms[j]
    <2> SUFFICES ASSUME NEW j \in 1..(n + 1)
                 PROVE  /\ d = "in" /\ T[i + j - 1] \in Levels => x[j] = T[i + j - 1]
                        /\ d = "out" /\ ms[j] \in Levels => x[j] = ms[j]
      OBVIOUS
    <2>1. CASE j \in 1..n
      BY <1>3, <1>6, <2>1
    <2>2. CASE j = n + 1
      BY <1>1, <1>5, <1>6, <2>2 DEF m
    <2> QED BY <2>1, <2>2
  <1>9. zz \in 0..(o + (n + 1)) /\ (d = "in" /\ T[i + (n + 1) - 1] \in Levels => zz = 0)
    <2>1. zz \in 0..(o + (n + 1))
      OBVIOUS
    <2> QED BY <1>1, <1>5, <2>1
  <1>10. Move(b, m) = On(d, yy, At(T, i + (n + 1), zz), p, IF s = 1 THEN Cat(r, x) ELSE r,
                         IF q = 1 THEN Cat(k, x) ELSE k)
    BY <1>1, <1>7
  <1>11. RunsTo(T, ms, i, o, d, l, p, r, k, s, q, n + 1, Move(b, m))
    <2>1. x \in Seq(Levels) /\ Len(x) = n + 1
      BY <1>6
    <2> QED BY <1>8, <1>9, <1>10, <2>1 DEF RunsTo, Cat
  <1> QED BY <1>11 DEF m

LEMMA Run ==
  ASSUME NEW T \in Seq(0..3), NEW ms \in Seq(0..3), NEW i \in 1..(Len(T) + 1),
         i + Len(ms) <= Len(T) + 1, NEW o \in Nat, o + Len(ms) < ResetBits,
         NEW d \in {"in", "out"}, NEW l \in Levels, NEW p, p.pull \in Levels,
         NEW r \in Seq(Levels), NEW k \in Seq(Levels),
         NEW s \in {0, 1}, NEW q \in {0, 1},
         Fits(T, ms, i, d, s, q)
  PROVE  RunsTo(T, ms, i, o, d, l, p, r, k, s, q, Len(ms),
                Play(On(d, l, At(T, i, o), p, r, k), ms))
  <1> DEFINE b == On(d, l, At(T, i, o), p, r, k)
             f == Path(b, ms)
             S == {n \in Nat : n <= Len(ms) =>
                      RunsTo(T, ms, i, o, d, l, p, r, k, s, q, n, f[n])}
  <1>1. /\ f[0] = b /\ \A n \in 1..Len(ms) : f[n] = Move(f[n - 1], ms[n])
        /\ Play(b, ms) = f[Len(ms)]
    BY PathIs
  <1>2. Len(ms) \in Nat
    OBVIOUS
  <1> HIDE DEF f
  <1>3. 0 \in S
    <2>1. <<>> \in Seq(Levels) /\ Len(<<>>) = 0 /\ r \o <<>> = r /\ k \o <<>> = k
      OBVIOUS
    <2>2. b = On(d, l, At(T, i + 0, o), p, IF s = 1 THEN r \o <<>> ELSE r, IF q = 1 THEN k \o <<>> ELSE k)
      BY <2>1
    <2>3. RunsTo(T, ms, i, o, d, l, p, r, k, s, q, 0, b)
      <3> HIDE DEF b
      <3>1. o \in 0..(o + 0) /\ 1..0 = {}
        OBVIOUS
      <3> USE DEF RunsTo
      <3> WITNESS <<>> \in Seq(Levels), o \in 0..(o + 0), l \in Levels
      <3> QED BY <2>1, <2>2, <3>1
    <2> QED BY <1>1, <2>3
  <1>4. ASSUME NEW n \in S PROVE n + 1 \in S
    <2> SUFFICES ASSUME n + 1 <= Len(ms)
                 PROVE  RunsTo(T, ms, i, o, d, l, p, r, k, s, q, n + 1, f[n + 1])
      OBVIOUS
    <2>1. n \in Nat /\ n < Len(ms) /\ RunsTo(T, ms, i, o, d, l, p, r, k, s, q, n, f[n])
      BY <1>2
    <2>2. f[n + 1] = Move(f[n], ms[n + 1])
      <3>1. n + 1 \in 1..Len(ms) /\ (n + 1) - 1 = n
        BY <2>1, <1>2
      <3> QED BY <1>1, <3>1
    <2> HIDE DEF S, b
    <2> QED BY <2>1, <2>2, RunGoesOn
  <1>5. S \in SUBSET Nat
    OBVIOUS
  <1>6. Len(ms) \in S
    <2> HIDE DEF S
    <2> QED BY <1>2, <1>3, <1>4, <1>5, Induct
  <1> QED BY <1>1, <1>2, <1>6
-----------------------------------------------------------------------------
(* The wires while a target listens. *)

\* A target that has heard the beginning of a request, and one that is deaf.
Hears(h, o) == Tgt("header", o, h, <<>>)
Lost(o) == Tgt("lost", o, <<>>, <<>>)
Reset(o) == Tgt("reset", o, <<>>, <<>>)

\* Listening, with the changes of the target spelt out.
LEMMA HearingIs ==
  ASSUME NEW t, NEW h, NEW p
  PROVE  Hearing(t, h, p)
            = IF Len(h) < 8 THEN WithHeard(WithState(t, "header"), h)
              ELSE IF WellFormed(h) THEN WithTodo(WithState(NoTarget, "answer"), Answer(p, SubSeq(h, 2, 5)))
              ELSE WithOnes(NoTarget, t.ones)
  <1> DEFINE a == Answer(p, SubSeq(h, 2, 5))
  <1>1. [t EXCEPT !.state = "header", !.heard = h] = WithHeard(WithState(t, "header"), h)
    BY DEF WithHeard, WithState
  <1>2. [NoTarget EXCEPT !.state = "answer", !.todo = a] = WithTodo(WithState(NoTarget, "answer"), a)
    BY DEF WithTodo, WithState
  <1>3. [NoTarget EXCEPT !.ones = t.ones] = WithOnes(NoTarget, t.ones)
    BY DEF WithOnes
  <1> QED BY <1>1, <1>2, <1>3, Zenon DEF Hearing

LEMMA ListeningIs ==
  ASSUME NEW t, NEW v, NEW p
  PROVE  /\ t.state = "idle" /\ v = 0 => Listening(t, v, p) = t
         /\ t.state = "reset" => Listening(t, v, p) = IF v = 0 THEN IdleTarget ELSE t
         /\ t.state = "lost" => Listening(t, v, p) = t
         /\ t.state = "header" \/ (t.state = "idle" /\ v # 0) =>
               Listening(t, v, p) = Hearing(t, Put(t.heard, v), p)
  <1> DEFINE g == Hearing(t, Append(t.heard, v), p)
  <1>1. g = Hearing(t, Put(t.heard, v), p)
    BY Zenon DEF Put
  <1>2. Listening(t, v, p) = CASE t.state = "lost" \/ (t.state = "idle" /\ v = 0) -> t
                              [] t.state = "reset" -> IF v = 0 THEN IdleTarget ELSE t
                              [] OTHER -> g
    BY DEF Listening
  <1> HIDE DEF g
  <1> QED BY <1>1, <1>2

\* The answer to a request that was heard.
Ready(p, g) == Answer(p, SubSeq(g, 2, 5))

\* What a target makes of the next bit.
LEMMA Heard ==
  ASSUME NEW st, NEW o, NEW h, NEW g, NEW p, NEW z
  PROVE  WithOnes(Hearing(Tgt(st, o, h, <<>>), g, p), z)
            = IF Len(g) < 8 THEN Hears(g, z)
              ELSE IF WellFormed(g) THEN Rest(Ready(p, g), z) ELSE Lost(z)
  <1> DEFINE t == Tgt(st, o, h, <<>>)
             a == Ready(p, g)
  <1>1. WithOnes(WithHeard(WithState(t, "header"), g), z) = Hears(g, z)
    BY TgtFields DEF Hears
  <1>2. WithOnes(WithTodo(WithState(NoTarget, "answer"), a), z) = Rest(a, z)
    <2> HIDE DEF a
    <2> QED BY TgtFields, NoTargetIs DEF Rest
  <1>3. WithOnes(WithOnes(NoTarget, t.ones), z) = Lost(z)
    <2> HIDE DEF t
    <2> QED BY TgtFields, NoTargetIs DEF Lost
  <1>4. Hearing(t, g, p) = IF Len(g) < 8 THEN WithHeard(WithState(t, "header"), g)
                           ELSE IF WellFormed(g) THEN WithTodo(WithState(NoTarget, "answer"), a)
                           ELSE WithOnes(NoTarget, t.ones)
    BY HearingIs DEF Ready
  <1> HIDE DEF t, a
  <1>5. WithOnes(Hearing(t, g, p), z)
            = IF Len(g) < 8 THEN Hears(g, z) ELSE IF WellFormed(g) THEN Rest(a, z) ELSE Lost(z)
    BY <1>1, <1>2, <1>3, <1>4
  <1> QED BY <1>5 DEF t, a

LEMMA Listens ==
  ASSUME NEW v \in Levels, NEW p, NEW o, NEW z
  PROVE  /\ v = 0 => WithOnes(Listening(Idle(o), v, p), z) = Idle(z)
         /\ v = 1 => WithOnes(Listening(Idle(o), v, p), z) = Hears(<<1>>, z)
         /\ WithOnes(Listening(Lost(o), v, p), z) = Lost(z)
         /\ v = 0 => WithOnes(Listening(Reset(o), v, p), z) = Idle(z)
         /\ v = 1 => WithOnes(Listening(Reset(o), v, p), z) = Reset(z)
  <1>1. v = 0 => WithOnes(Listening(Idle(o), v, p), z) = Idle(z)
    BY ListeningIs, IdleFields
  <1>2. ASSUME v = 1 PROVE WithOnes(Listening(Idle(o), v, p), z) = Hears(<<1>>, z)
    <2>1. Listening(Idle(o), v, p) = Hearing(Idle(o), Put(<<>>, v), p)
      BY <1>2, ListeningIs, IdleFields
    <2> DEFINE e == <<>>
               g == <<1>>
    <2>2. Put(e, v) = g /\ Len(g) < 8
      BY <1>2 DEF Put
    <2>3. Idle(o) = Tgt("idle", o, e, <<>>)
      BY DEF Idle
    <2> HIDE DEF e, g
    <2>4. WithOnes(Hearing(Tgt("idle", o, e, <<>>), g, p), z) = Hears(g, z)
      BY <2>2, Heard
    <2>5. WithOnes(Hearing(Idle(o), Put(e, v), p), z) = Hears(g, z)
      BY <2>2, <2>3, <2>4
    <2> QED BY <2>1, <2>5 DEF e, g
  <1>3. WithOnes(Listening(Lost(o), v, p), z) = Lost(z)
    <2>1. Lost(o).state = "lost"
      BY TgtFields DEF Lost
    <2>2. Listening(Lost(o), v, p) = Lost(o)
      BY <2>1, ListeningIs
    <2> QED BY <2>2, TgtFields DEF Lost
  <1>4. Reset(o).state = "reset" /\ WithOnes(Reset(o), z) = Reset(z)
    BY TgtFields DEF Reset
  <1>5. v = 0 => WithOnes(Listening(Reset(o), v, p), z) = Idle(z)
    BY <1>4, ListeningIs, IdleFields
  <1>6. v = 1 => WithOnes(Listening(Reset(o), v, p), z) = Reset(z)
    BY <1>4, ListeningIs
  <1> QED BY <1>1, <1>2, <1>3, <1>5, <1>6

LEMMA ListensOn ==
  ASSUME NEW v \in Levels, NEW p, NEW o, NEW z, NEW h \in Seq(Levels), Len(h) \in 1..7
  PROVE  LET g == Put(h, v)
         IN WithOnes(Listening(Hears(h, o), v, p), z)
            = IF Len(h) < 7 THEN Hears(g, z)
              ELSE IF WellFormed(g) THEN Rest(Ready(p, g), z) ELSE Lost(z)
  <1> DEFINE g == Put(h, v)
  <1>1. Len(g) = Len(h) + 1
    BY LongerWord
  <1>2. Hears(h, o).state = "header" /\ Hears(h, o).heard = h
    BY TgtFields DEF Hears
  <1>3. Listening(Hears(h, o), v, p) = Hearing(Hears(h, o), g, p)
    BY <1>2, ListeningIs
  <1> HIDE DEF g
  <1>4. WithOnes(Hearing(Hears(h, o), g, p), z)
            = IF Len(g) < 8 THEN Hears(g, z)
              ELSE IF WellFormed(g) THEN Rest(Ready(p, g), z) ELSE Lost(z)
    BY Heard DEF Hears
  <1> QED BY <1>1, <1>3, <1>4 DEF g

\* A clock while the target listens.
LEMMA ListeningEdge ==
  ASSUME NEW d \in {"in", "out"}, NEW l \in Levels, NEW st \in {"lost", "reset", "idle", "header"},
         NEW o \in Nat, NEW h, NEW p, p.pull \in Levels, NEW r, NEW k,
         (d = "out" /\ l = 0) \/ o + 1 < ResetBits
  PROVE  LET t == Tgt(st, o, h, <<>>)
             v == IF d = "out" THEN l ELSE p.pull
         IN Edge(On(d, l, t, p, r, k))
              = On(d, l, WithOnes(Listening(t, v, p), IF v = 0 THEN 0 ELSE o + 1), p, r, k)
  <1> DEFINE t == Tgt(st, o, h, <<>>)
             v == IF d = "out" THEN l ELSE p.pull
             b == On(d, l, t, p, r, k)
  <1>1. t.state = st /\ t.ones = o /\ ~Drives(t)
    BY TgtFields DEF Drives
  <1>2. b.dir = d /\ b.level = l /\ b.tgt = t /\ b.plan = p
    BY Fields
  <1>3. Line(b) = v
    <2> HIDE DEF b, t
    <2> QED BY <1>1, <1>2 DEF Line
  <1>4. t.state # "answer" /\ t.ones \in Nat /\ (v = 0 \/ t.ones + 1 < ResetBits) /\ ~(d = "out" /\ Drives(t))
    BY <1>1
  <1> HIDE DEF t, v
  <1> QED BY <1>1, <1>3, <1>4, QuietEdge DEF t, v
-----------------------------------------------------------------------------
(* The request. *)

\* The parity of a number of bits is a bit.
LEMMA ParityBit ==
  ASSUME NEW n \in Nat, NEW bits \in [1..n -> Levels]
  PROVE  Parity(bits) \in Levels
  <1> DEFINE T == {k \in DOMAIN bits : bits[k] = 1}
  <1>1. T \subseteq 1..n /\ IsFiniteSet(1..n)
    BY FS_Interval
  <1>2. Cardinality(T) \in Nat
    BY <1>1, FS_Subset, FS_CardinalityType
  <1> HIDE DEF T
  <1>3. Cardinality(T) % 2 \in {0, 1}
    BY <1>2
  <1> QED BY <1>3 DEF Parity, Ones, T, Levels

LEMMA HeaderIs ==
  ASSUME NEW req \in [1..4 -> Levels]
  PROVE  /\ Header(req) \in Seq(Levels) /\ Len(Header(req)) = 8
         /\ Header(req)[1] = 1 /\ Header(req)[7] = 0 /\ Header(req)[8] = 1
         /\ SubSeq(Header(req), 2, 5) = req
         /\ WellFormed(Header(req))
  <1> DEFINE q == Parity(req)
  <1>1. q \in Levels
    BY ParityBit
  <1> HIDE DEF q
  <1>2. req \in Seq(Levels) /\ Len(req) = 4
    OBVIOUS
  <1> DEFINE a == <<1>>
             z == <<q, 0, 1>>
             u == Cat(a, req)
             H == Cat(u, z)
  <1>3. a \in Seq(Levels) /\ z \in Seq(Levels) /\ Len(a) = 1 /\ Len(z) = 3 /\ a[1] = 1
        /\ z[2] = 0 /\ z[3] = 1
    BY <1>1 DEF Levels
  <1> HIDE DEF a, z
  <1>4. /\ u \in Seq(Levels) /\ Len(u) = 5 /\ u[1] = 1
        /\ \A k \in 1..4 : u[1 + k] = req[k]
    <2>1. u \in Seq(Levels) /\ IsCat(u, a, req)
      BY <1>2, <1>3, CatIs
    <2> HIDE DEF u
    <2> QED BY <1>2, <1>3, <2>1 DEF IsCat
  <1> HIDE DEF u
  <1>5. /\ H \in Seq(Levels) /\ Len(H) = 8 /\ \A k \in 1..5 : H[k] = u[k]
        /\ \A k \in 1..3 : H[5 + k] = z[k]
    <2>1. H \in Seq(Levels) /\ IsCat(H, u, z)
      BY <1>3, <1>4, CatIs
    <2> HIDE DEF H
    <2> QED BY <1>3, <1>4, <2>1 DEF IsCat
  <1> HIDE DEF H
  <1>6. H[1] = 1 /\ H[7] = 0 /\ H[8] = 1
    <2>1. H[5 + 2] = z[2] /\ H[5 + 3] = z[3]
      BY <1>5
    <2> QED BY <1>3, <1>4, <1>5, <2>1
  <1>7. SubSeq(H, 2, 5) = req
    <2>1. /\ SubSeq(H, 2, 5) \in Seq(Levels) /\ Len(SubSeq(H, 2, 5)) = 4
          /\ \A i \in 1..4 : SubSeq(H, 2, 5)[i] = H[2 + i - 1]
      BY <1>5, SubSeqProperties, SMTT(30)
    <2>2. \A i \in 1..4 : H[2 + i - 1] = req[i]
      BY <1>4, <1>5
    <2> QED BY <1>2, <2>1, <2>2, SeqEqual
  <1>8. H = Header(req)
    BY DEF H, u, a, z, q, Header, Cat
  <1> QED BY <1>5, <1>6, <1>7, <1>8 DEF WellFormed

LEMMA Longer ==
  ASSUME NEW H \in Seq(Levels), NEW n \in Nat, n < Len(H)
  PROVE  /\ Put(SubSeq(H, 1, n), H[n + 1]) = SubSeq(H, 1, n + 1)
         /\ SubSeq(H, 1, n) \in Seq(Levels) /\ Len(SubSeq(H, 1, n)) = n
         /\ H[n + 1] \in Levels
  <1>1. n + 1 \in 1..Len(H) /\ 1 \in 1..Len(H) /\ n + 1 \in 1..Len(H) /\ (n + 1) - 1 = n /\ Len(H) \in Nat
    OBVIOUS
  <1>2. \A j \in 1..n : H[j] \in Levels
    OBVIOUS
  <1>3. SubSeq(H, 1, n) \in Seq(Levels) /\ Len(SubSeq(H, 1, n)) = n
    <2>1. SubSeq(H, 1, n) \in Seq(Levels) /\ Len(SubSeq(H, 1, n)) = IF 1 <= n THEN n - 1 + 1 ELSE 0
      BY <1>2, SubSeqProperties
    <2> QED BY <2>1
  <1>4. H[n + 1] \in Levels
    BY <1>1
  <1>5. SubSeq(H, 1, n + 1) = SubSeq(H, 1, n) \o <<H[n + 1]>>
    BY <1>1, SubSeqRecursiveSecond
  <1>6. Append(SubSeq(H, 1, n), H[n + 1]) = SubSeq(H, 1, n) \o <<H[n + 1]>>
    BY <1>3, <1>4, AppendIsConcat
  <1> QED BY <1>3, <1>4, <1>5, <1>6 DEF Put

\* The bus after bits 1 to n of a request.
Asked(H, o, p, r, k, n, b) ==
    \E z \in 0..(o + n) : /\ b = On("out", H[n], Hears(SubSeq(H, 1, n), z), p, r, k)
                          /\ H[n] = 0 => z = 0

LEMMA AskedFirst ==
  ASSUME NEW H \in Seq(Levels), Len(H) = 8, H[1] = 1,
         NEW o \in Nat, o + 1 < ResetBits, NEW l, NEW p, p.pull \in Levels, NEW r, NEW k
  PROVE  Asked(H, o, p, r, k, 1, Move(On("out", l, Idle(o), p, r, k), H[1]))
  <1> DEFINE e == <<>>
             f == <<1>>
  <1>1. Idle(o) = Tgt("idle", o, e, <<>>)
    BY DEF Idle
  <1>2. SubSeq(H, 1, 1) = f
    <2>1. SubSeq(H, 1, 1) = SubSeq(H, 1, 0) \o <<H[1]>> /\ SubSeq(H, 1, 0) = <<>>
      <3>1. 1 \in 1..Len(H) /\ 1 \in 1..Len(H) /\ 1 - 1 = 0 /\ 0 < 1 /\ 0 \in Int /\ 1 \in Int
        OBVIOUS
      <3>2. SubSeq(H, 1, 1) = SubSeq(H, 1, 1 - 1) \o <<H[1]>>
        BY <3>1, SubSeqRecursiveSecond
      <3> QED BY <3>1, <3>2, SubSeqEmpty
    <2>2. <<>> \o <<1>> = <<1>>
      OBVIOUS
    <2> QED BY <2>1, <2>2
  <1> HIDE DEF e
  <1>3. Move(On("out", l, Idle(o), p, r, k), 1) = Edge(On("out", 1, Idle(o), p, r, k))
    BY Moves DEF Levels
  <1>4. Edge(On("out", 1, Idle(o), p, r, k))
          = On("out", 1, WithOnes(Listening(Idle(o), 1, p), o + 1), p, r, k)
    BY <1>1, ListeningEdge DEF Levels
  <1>5. WithOnes(Listening(Idle(o), 1, p), o + 1) = Hears(f, o + 1)
    BY Listens DEF Levels
  <1>6. o + 1 \in 0..(o + 1)
    OBVIOUS
  <1> HIDE DEF f
  <1>7. Move(On("out", l, Idle(o), p, r, k), H[1]) = On("out", H[1], Hears(SubSeq(H, 1, 1), o + 1), p, r, k)
    BY <1>2, <1>3, <1>4, <1>5
  <1> QED BY <1>6, <1>7 DEF Asked

LEMMA AskedNext ==
  ASSUME NEW H \in Seq(Levels), Len(H) = 8, H[7] = 0, NEW n \in 1..6,
         NEW o \in Nat, o + 6 < ResetBits, NEW p, p.pull \in Levels, NEW r, NEW k,
         NEW b, Asked(H, o, p, r, k, n, b)
  PROVE  Asked(H, o, p, r, k, n + 1, Move(b, H[n + 1]))
  <1>1. PICK z \in 0..(o + n) : b = On("out", H[n], Hears(SubSeq(H, 1, n), z), p, r, k)
    BY DEF Asked
  <1> DEFINE m == H[n + 1]
             h == SubSeq(H, 1, n)
             y == IF m = 0 THEN 0 ELSE z + 1
  <1>2. m \in Levels /\ h \in Seq(Levels) /\ Len(h) = n /\ Put(h, m) = SubSeq(H, 1, n + 1)
    BY Longer
  <1>3. z \in Nat /\ (m = 0 \/ z + 1 < ResetBits)
    BY WireAssumption
  <1> HIDE DEF m, h
  <1>4. Move(b, m) = Edge(On("out", m, Hears(h, z), p, r, k))
    BY <1>1, <1>2, Moves DEF h
  <1>5. Edge(On("out", m, Hears(h, z), p, r, k))
          = On("out", m, WithOnes(Listening(Hears(h, z), m, p), y), p, r, k)
    BY <1>2, <1>3, ListeningEdge DEF Hears
  <1>6. WithOnes(Listening(Hears(h, z), m, p), y) = Hears(SubSeq(H, 1, n + 1), y)
    <2> HIDE DEF y
    <2>1. Len(h) \in 1..7 /\ Len(h) < 7
      BY <1>2
    <2>2. WithOnes(Listening(Hears(h, z), m, p), y)
            = IF Len(h) < 7 THEN Hears(Put(h, m), y)
              ELSE IF WellFormed(Put(h, m)) THEN Rest(Ready(p, Put(h, m)), y) ELSE Lost(y)
      <3>1. m \in Levels /\ h \in Seq(Levels) /\ Len(h) \in 1..7
        BY <1>2, <2>1
      <3> QED BY ONLY <3>1, ListensOn
    <2> QED BY <1>2, <2>1, <2>2
  <1>7. y \in 0..(o + (n + 1)) /\ (m = 0 => y = 0)
    OBVIOUS
  <1> HIDE DEF y
  <1>8. Move(b, H[n + 1]) = On("out", H[n + 1], Hears(SubSeq(H, 1, n + 1), y), p, r, k)
        /\ (H[n + 1] = 0 => y = 0)
    BY <1>4, <1>5, <1>6, <1>7 DEF m
  <1> QED BY <1>7, <1>8 DEF Asked

\* A target that waits has its answer ready when the request is over.
LEMMA Request ==
  ASSUME NEW req \in [1..4 -> Levels], NEW o \in Nat, o + 6 < ResetBits,
         NEW l, NEW p, p.pull \in Levels, NEW r, NEW k
  PROVE  Play(On("out", l, Idle(o), p, r, k), Header(req)) = On("out", 1, Rest(Answer(p, req), 1), p, r, k)
  <1> DEFINE H == Header(req)
             f == Path(On("out", l, Idle(o), p, r, k), H)
  <1>1. /\ H \in Seq(Levels) /\ Len(H) = 8 /\ H[1] = 1 /\ H[7] = 0 /\ H[8] = 1
        /\ SubSeq(H, 2, 5) = req /\ WellFormed(H)
    BY HeaderIs
  <1> HIDE DEF H
  <1>2. /\ f[0] = On("out", l, Idle(o), p, r, k)
        /\ \A n \in 1..8 : f[n] = Move(f[n - 1], H[n])
        /\ Play(On("out", l, Idle(o), p, r, k), H) = f[8]
    <2>1. /\ f[0] = On("out", l, Idle(o), p, r, k)
          /\ \A n \in 1..Len(H) : f[n] = Move(f[n - 1], H[n])
          /\ Play(On("out", l, Idle(o), p, r, k), H) = f[Len(H)]
      <3>1. H \in Seq(Levels)
        BY <1>1
      <3> QED BY <3>1, PathIs
    <2> HIDE DEF f
    <2> QED BY <1>1, <2>1
  <1> HIDE DEF f
  <1>3. Asked(H, o, p, r, k, 1, f[1])
    <2>1. f[1] = Move(f[0], H[1])
      BY <1>2
    <2> QED BY <1>1, <1>2, <2>1, AskedFirst, WireAssumption
  <1>4. ASSUME NEW n \in 1..6, Asked(H, o, p, r, k, n, f[n])
        PROVE  Asked(H, o, p, r, k, n + 1, f[n + 1])
    <2>1. f[n + 1] = Move(f[n], H[n + 1])
      <3>1. n + 1 \in 1..8 /\ (n + 1) - 1 = n
        OBVIOUS
      <3> QED BY <1>2, <3>1
    <2> QED BY <1>1, <1>4, <2>1, AskedNext
  <1>5. Asked(H, o, p, r, k, 7, f[7])
    <2>1. Asked(H, o, p, r, k, 2, f[2])
      BY <1>3, <1>4
    <2>2. Asked(H, o, p, r, k, 3, f[3])
      BY <1>4, <2>1
    <2>3. Asked(H, o, p, r, k, 4, f[4])
      BY <1>4, <2>2
    <2>4. Asked(H, o, p, r, k, 5, f[5])
      BY <1>4, <2>3
    <2>5. Asked(H, o, p, r, k, 6, f[6])
      BY <1>4, <2>4
    <2> QED BY <1>4, <2>5
  <1> DEFINE h == SubSeq(H, 1, 7)
  <1>6. f[7] = On("out", 0, Hears(h, 0), p, r, k)
    BY <1>1, <1>5 DEF Asked
  <1>7. h \in Seq(Levels) /\ Len(h) = 7 /\ Put(h, 1) = H
    <2>1. SubSeq(H, 1, 8) = H
      BY <1>1, SubSeqFull
    <2>2. 7 < Len(H) /\ 7 + 1 = 8
      BY <1>1
    <2>3. Put(SubSeq(H, 1, 7), H[7 + 1]) = SubSeq(H, 1, 7 + 1) /\ SubSeq(H, 1, 7) \in Seq(Levels)
          /\ Len(SubSeq(H, 1, 7)) = 7
      BY <1>1, <2>2, Longer
    <2> QED BY <1>1, <2>1, <2>2, <2>3
  <1> HIDE DEF h
  <1>8. f[8] = Edge(On("out", 1, Hears(h, 0), p, r, k))
    <2>1. f[8] = Move(f[7], H[8])
      BY <1>2
    <2> QED BY <1>1, <1>6, <2>1, Moves DEF Levels
  <1>9. f[8] = On("out", 1, WithOnes(Listening(Hears(h, 0), 1, p), 1), p, r, k)
    BY <1>8, ListeningEdge, WireAssumption DEF Levels, Hears
  <1>10. WithOnes(Listening(Hears(h, 0), 1, p), 1) = Rest(Answer(p, req), 1)
    <2>1. WithOnes(Listening(Hears(h, 0), 1, p), 1)
            = IF Len(h) < 7 THEN Hears(Put(h, 1), 1)
              ELSE IF WellFormed(Put(h, 1)) THEN Rest(Ready(p, Put(h, 1)), 1) ELSE Lost(1)
      <3>1. Len(h) \in 1..7
        BY <1>7
      <3> QED BY <1>7, <3>1, ListensOn DEF Levels
    <2>2. Ready(p, H) = Answer(p, req)
      BY <1>1 DEF Ready
    <2> QED BY <1>1, <1>7, <2>1, <2>2
  <1> QED BY <1>2, <1>9, <1>10 DEF H
-----------------------------------------------------------------------------
(* The answer, part by part. *)

LEMMA TimesIs ==
  ASSUME NEW S, NEW v \in S, NEW n \in Nat
  PROVE  /\ Times(v, n) \in Seq(S) /\ Len(Times(v, n)) = n
         /\ \A i \in 1..n : Times(v, n)[i] = v
  BY DEF Times

\* T is A, B, C and E, one behind the other.
Parts(T, A, B, C, E) ==
    /\ Len(T) = Len(A) + Len(B) + Len(C) + Len(E)
    /\ \A i \in 1..Len(A) : T[i] = A[i]
    /\ \A i \in 1..Len(B) : T[Len(A) + i] = B[i]
    /\ \A i \in 1..Len(C) : T[Len(A) + Len(B) + i] = C[i]
    /\ \A i \in 1..Len(E) : T[Len(A) + Len(B) + Len(C) + i] = E[i]

LEMMA FourParts ==
  ASSUME NEW S, NEW A \in Seq(S), NEW B \in Seq(S), NEW C \in Seq(S), NEW E \in Seq(S)
  PROVE  LET T == (A \o B) \o (C \o E) IN T \in Seq(S) /\ Parts(T, A, B, C, E)
  <1> DEFINE u == Cat(A, B)
             w == Cat(C, E)
             T == Cat(u, w)
  <1>1. Len(A) \in Nat /\ Len(B) \in Nat /\ Len(C) \in Nat /\ Len(E) \in Nat
    OBVIOUS
  <1>2. u \in Seq(S) /\ IsCat(u, A, B)
    BY CatIs
  <1>3. w \in Seq(S) /\ IsCat(w, C, E)
    BY CatIs
  <1> HIDE DEF u, w
  <1>4. T \in Seq(S) /\ IsCat(T, u, w)
    BY <1>2, <1>3, CatIs
  <1> HIDE DEF T
  <1>5. Len(T) = Len(A) + Len(B) + Len(C) + Len(E)
    BY <1>1, <1>2, <1>3, <1>4 DEF IsCat
  <1>6. \A i \in 1..Len(A) : T[i] = A[i]
    <2> TAKE i \in 1..Len(A)
    <2>1. i \in 1..Len(u)
      BY <1>1, <1>2 DEF IsCat
    <2> QED BY <1>2, <1>4, <2>1 DEF IsCat
  <1>7. \A i \in 1..Len(B) : T[Len(A) + i] = B[i]
    <2> TAKE i \in 1..Len(B)
    <2>1. Len(A) + i \in 1..Len(u)
      BY <1>1, <1>2 DEF IsCat
    <2> QED BY <1>2, <1>4, <2>1 DEF IsCat
  <1>8. \A i \in 1..Len(C) : T[Len(A) + Len(B) + i] = C[i]
    <2> TAKE i \in 1..Len(C)
    <2>1. i \in 1..Len(w) /\ Len(u) = Len(A) + Len(B)
      BY <1>1, <1>2, <1>3 DEF IsCat
    <2>2. T[Len(u) + i] = w[i] /\ w[i] = C[i]
      BY <1>3, <1>4, <2>1 DEF IsCat
    <2> QED BY <2>1, <2>2
  <1>9. \A i \in 1..Len(E) : T[Len(A) + Len(B) + Len(C) + i] = E[i]
    <2> TAKE i \in 1..Len(E)
    <2>1. Len(C) + i \in 1..Len(w) /\ Len(u) = Len(A) + Len(B)
      BY <1>1, <1>2, <1>3 DEF IsCat
    <2>2. T[Len(u) + (Len(C) + i)] = w[Len(C) + i] /\ w[Len(C) + i] = E[i]
      BY <1>3, <1>4, <2>1 DEF IsCat
    <2>3. Len(u) + (Len(C) + i) = Len(A) + Len(B) + Len(C) + i
      BY <1>1, <2>1
    <2> QED BY <2>2, <2>3
  <1>10. Parts(T, A, B, C, E)
    BY <1>5, <1>6, <1>7, <1>8, <1>9 DEF Parts
  <1> QED BY <1>4, <1>10 DEF T, u, w, Cat

\* The plans of a target.
PlanOk(p) == /\ p.ack \in Acks /\ p.word \in [1..Width -> Levels] /\ p.noise \in Levels
             /\ p.turn \in Nat \ {0} /\ p.data_phase \in BOOLEAN /\ p.pull \in Levels

\* A word with its parity, and the bits a target sends or takes after its acknowledge.
Framed(word, parity) == Append(word, parity)
Sent(p) == Framed(p.word, (Parity(p.word) + p.noise) % 2)
Exchanged(p, req) ==
    CASE p.ack = OK -> IF RnW(req) THEN Sent(p) ELSE Times(Take, Width + 1)
      [] p.ack # OK /\ p.data_phase -> Times(IF RnW(req) THEN 0 ELSE Skip, Width + 1)
      [] OTHER -> <<>>

LEMMA FramedIs ==
  ASSUME NEW word \in [1..Width -> Levels], NEW v \in Levels
  PROVE  /\ Framed(word, v) \in Seq(Levels) /\ Len(Framed(word, v)) = Width + 1
         /\ \A i \in 1..Width : Framed(word, v)[i] = word[i]
         /\ Framed(word, v)[Width + 1] = v
         /\ Len(word) = Width /\ word \in Seq(Levels)
  <1>1. word \in Seq(Levels) /\ Len(word) = Width
    BY WireAssumption
  <1> QED BY <1>1, AppendProperties DEF Framed

LEMMA SentIs ==
  ASSUME NEW p, PlanOk(p)
  PROVE  /\ (Parity(p.word) + p.noise) % 2 \in Levels
         /\ Parity(p.word) \in Levels
         /\ (Parity(p.word) + p.noise) % 2 = Parity(p.word) <=> p.noise = 0
         /\ Sent(p) \in Seq(Levels) /\ Len(Sent(p)) = Width + 1
         /\ \A i \in 1..Width : Sent(p)[i] = p.word[i]
         /\ Sent(p)[Width + 1] = (Parity(p.word) + p.noise) % 2
  <1>1. Parity(p.word) \in Levels
    BY ParityBit, WireAssumption DEF PlanOk
  <1>2. /\ (Parity(p.word) + p.noise) % 2 \in Levels
        /\ (Parity(p.word) + p.noise) % 2 = Parity(p.word) <=> p.noise = 0
    BY <1>1 DEF Levels, PlanOk
  <1>3. p.word \in [1..Width -> Levels]
    BY DEF PlanOk
  <1> QED BY <1>1, <1>2, <1>3, FramedIs DEF Sent

LEMMA AcksAre ==
  ASSUME NEW a \in Acks
  PROVE  a \in Seq(Levels) /\ Len(a) = 3 /\ \A i \in 1..3 : a[i] \in Levels
  <1> USE DEF Levels
  <1>1. CASE a = <<1, 0, 0>>
    BY <1>1
  <1>2. CASE a = <<0, 1, 0>>
    BY <1>2
  <1>3. CASE a = <<0, 0, 1>>
    BY <1>3
  <1> QED BY <1>1, <1>2, <1>3 DEF Acks, OK, WAIT, FAULT

LEMMA ExchangedIs ==
  ASSUME NEW p, PlanOk(p), NEW req
  PROVE  /\ Exchanged(p, req) \in Seq(0..3)
         /\ p.ack = OK /\ RnW(req) => Exchanged(p, req) = Sent(p)
         /\ p.ack = OK /\ ~RnW(req) => Exchanged(p, req) = Times(Take, Width + 1)
         /\ p.ack # OK /\ p.data_phase /\ RnW(req) => Exchanged(p, req) = Times(0, Width + 1)
         /\ p.ack # OK /\ p.data_phase /\ ~RnW(req) => Exchanged(p, req) = Times(Skip, Width + 1)
         /\ p.ack # OK /\ ~p.data_phase => Exchanged(p, req) = <<>>
         /\ Len(Exchanged(p, req)) \in {0, Width + 1}
  <1> DEFINE s == Sent(p)
             t == Times(Take, Width + 1)
             n == Times(0, Width + 1)
             k == Times(Skip, Width + 1)
             e == <<>>
             X == Exchanged(p, req)
  <1>1. s \in Seq(0..3) /\ Len(s) = Width + 1
    <2>1. s \in Seq(Levels) /\ Len(s) = Width + 1
      BY SentIs
    <2>2. Levels \subseteq 0..3
      BY DEF Levels
    <2> HIDE DEF s
    <2> QED BY <2>1, <2>2, SeqMonotonic
  <1>2. /\ t \in Seq(0..3) /\ n \in Seq(0..3) /\ k \in Seq(0..3)
        /\ Len(t) = Width + 1 /\ Len(n) = Width + 1 /\ Len(k) = Width + 1
    <2>1. Take \in 0..3 /\ Skip \in 0..3 /\ 0 \in 0..3 /\ Width + 1 \in Nat
      BY WireAssumption DEF Take, Skip
    <2> QED BY <2>1, TimesIs
  <1>3. e \in Seq(0..3) /\ Len(e) = 0
    OBVIOUS
  <1>4. Times(IF RnW(req) THEN 0 ELSE Skip, Width + 1) = IF RnW(req) THEN n ELSE k
    OBVIOUS
  <1> HIDE DEF s, t, n, k, e
  <1>5. X = CASE p.ack = OK -> IF RnW(req) THEN s ELSE t
              [] p.ack # OK /\ p.data_phase -> IF RnW(req) THEN n ELSE k
              [] OTHER -> e
    BY <1>4 DEF Exchanged, s, t, e
  <1>6. p.data_phase \in BOOLEAN
    BY DEF PlanOk
  <1> HIDE DEF X
  <1>7. /\ p.ack = OK /\ RnW(req) => X = s
        /\ p.ack = OK /\ ~RnW(req) => X = t
        /\ p.ack # OK /\ p.data_phase /\ RnW(req) => X = n
        /\ p.ack # OK /\ p.data_phase /\ ~RnW(req) => X = k
        /\ p.ack # OK /\ ~p.data_phase => X = e
    BY <1>5, <1>6
  <1>8. X = s \/ X = t \/ X = n \/ X = k \/ X = e
    BY <1>6, <1>7
  <1>9. X \in Seq(0..3) /\ Len(X) \in {0, Width + 1}
    BY <1>1, <1>2, <1>3, <1>8
  <1> QED BY <1>7, <1>9 DEF X, s, t, n, k, e

LEMMA AnswerIs ==
  ASSUME NEW p, PlanOk(p), NEW req
  PROVE  LET T == Answer(p, req)
             turn == Times(Skip, p.turn)
             X == Exchanged(p, req)
         IN /\ T \in Seq(0..3)
            /\ RnW(req) => Parts(T, turn, p.ack, X, turn)
            /\ ~RnW(req) => Parts(T, turn, p.ack, turn, X)
  <1> DEFINE turn == Times(Skip, p.turn)
             X == Exchanged(p, req)
  <1>1. Answer(p, req) = (turn \o p.ack) \o (IF RnW(req) THEN X \o turn ELSE turn \o X)
    BY DEF Answer, Exchanged, Sent, Framed
  <1>2. turn \in Seq(0..3)
    <2>1. Skip \in 0..3 /\ p.turn \in Nat
      BY DEF PlanOk, Skip
    <2> QED BY <2>1, TimesIs
  <1>3. p.ack \in Seq(0..3)
    <2>1. p.ack \in Seq(Levels) /\ Levels \subseteq 0..3
      BY AcksAre DEF PlanOk, Levels
    <2> QED BY <2>1, SeqMonotonic
  <1>4. X \in Seq(0..3)
    BY ExchangedIs
  <1> HIDE DEF turn, X
  <1> DEFINE a == p.ack
  <1> HIDE DEF a
  <1>5. a \in Seq(0..3)
    BY <1>3 DEF a
  <1>6. CASE RnW(req)
    <2>1. Answer(p, req) = (turn \o a) \o (X \o turn)
      BY <1>1, <1>6 DEF a
    <2>2. (turn \o a) \o (X \o turn) \in Seq(0..3) /\ Parts((turn \o a) \o (X \o turn), turn, a, X, turn)
      BY <1>2, <1>4, <1>5, FourParts
    <2> QED BY <1>6, <2>1, <2>2 DEF turn, X, a
  <1>7. CASE ~RnW(req)
    <2>1. Answer(p, req) = (turn \o a) \o (turn \o X)
      BY <1>1, <1>7 DEF a
    <2>2. (turn \o a) \o (turn \o X) \in Seq(0..3) /\ Parts((turn \o a) \o (turn \o X), turn, a, turn, X)
      BY <1>2, <1>4, <1>5, FourParts
    <2> QED BY <1>7, <2>1, <2>2 DEF turn, X, a
  <1> QED BY <1>6, <1>7
-----------------------------------------------------------------------------
(* Runs of clocks while the target answers. *)

LEMMA TimesMoves ==
  ASSUME NEW v \in 0..9, NEW n \in Nat
  PROVE  Times(v, n) \in Seq(0..9) /\ Len(Times(v, n)) = n
  BY TimesIs

\* Clocks at which the target takes nothing and nothing is read.
PulsesTo(T, i, n, o, d, p, r, k, b) ==
    \E z \in 0..(o + n), y \in Levels :
       /\ b = On(d, y, At(T, i + n, z), p, r, k)
       /\ n > 0 /\ d = "in" /\ T[i + n - 1] \in Levels => z = 0

LEMMA PulseRun ==
  ASSUME NEW T \in Seq(0..3), NEW i \in 1..(Len(T) + 1), NEW n \in Nat, i + n <= Len(T) + 1,
         NEW o \in Nat, o + n < ResetBits, NEW d \in {"in", "out"}, NEW l \in Levels,
         NEW p, p.pull \in Levels, NEW r \in Seq(Levels), NEW k \in Seq(Levels),
         \A j \in 1..n : T[i + j - 1] # Take /\ (d = "out" => T[i + j - 1] \notin Levels)
  PROVE  PulsesTo(T, i, n, o, d, p, r, k, Play(On(d, l, At(T, i, o), p, r, k), Times(Pulse, n)))
  <1> DEFINE ms == Times(Pulse, n)
             b == Play(On(d, l, At(T, i, o), p, r, k), ms)
  <1>1. ms \in Seq(0..3) /\ Len(ms) = n /\ \A j \in 1..n : ms[j] = 2
    <2>1. Pulse = 2 /\ 2 \in 0..3
      BY DEF Pulse
    <2> QED BY <2>1, TimesIs
  <1>2. Fits(T, ms, i, d, 0, 0)
    <2> HIDE DEF ms
    <2> SUFFICES ASSUME NEW j \in 1..Len(ms)
                 PROVE  /\ d = "out" => T[i + j - 1] \notin Levels
                        /\ ms[j] = Sample <=> 0 = 1
                        /\ T[i + j - 1] = Take <=> 0 = 1
      BY DEF Fits
    <2>1. j \in 1..n
      BY <1>1
    <2>2. ms[j] # Sample
      BY <1>1, <2>1 DEF Sample
    <2>3. T[i + j - 1] # Take /\ (d = "out" => T[i + j - 1] \notin Levels)
      BY <2>1
    <2> QED BY <2>2, <2>3
  <1> HIDE DEF ms
  <1>3. RunsTo(T, ms, i, o, d, l, p, r, k, 0, 0, Len(ms), b)
    BY <1>1, <1>2, Run, ZenonT(60)
  <1>4. RunsTo(T, ms, i, o, d, l, p, r, k, 0, 0, n, b)
    BY <1>1, <1>3
  <1> HIDE DEF b
  <1>5. PICK w \in Seq(Levels), z \in 0..(o + n), y \in Levels :
           /\ b = On(d, y, At(T, i + n, z), p, r, k)
           /\ n > 0 /\ d = "in" /\ T[i + n - 1] \in Levels => z = 0
    BY <1>4 DEF RunsTo
  <1>6. PulsesTo(T, i, n, o, d, p, r, k, b)
    BY <1>5 DEF PulsesTo
  <1> QED BY <1>6 DEF b, ms

\* Clocks at which the probe reads.
SamplesTo(T, i, n, o, p, r, k, b) ==
    \E w \in Seq(Levels), z \in 0..(o + n), y \in Levels :
       /\ b = On("in", y, At(T, i + n, z), p, Cat(r, w), k)
       /\ Len(w) = n
       /\ \A j \in 1..n : T[i + j - 1] \in Levels => w[j] = T[i + j - 1]
       /\ n > 0 /\ T[i + n - 1] \in Levels => z = 0

LEMMA SampleRun ==
  ASSUME NEW T \in Seq(0..3), NEW i \in 1..(Len(T) + 1), NEW n \in Nat, i + n <= Len(T) + 1,
         NEW o \in Nat, o + n < ResetBits, NEW l \in Levels,
         NEW p, p.pull \in Levels, NEW r \in Seq(Levels), NEW k \in Seq(Levels),
         \A j \in 1..n : T[i + j - 1] # Take
  PROVE  SamplesTo(T, i, n, o, p, r, k, Play(On("in", l, At(T, i, o), p, r, k), Times(Sample, n)))
  <1> DEFINE ms == Times(Sample, n)
             d == "in"
             b == Play(On(d, l, At(T, i, o), p, r, k), ms)
  <1>1. ms \in Seq(0..3) /\ Len(ms) = n /\ (\A j \in 1..n : ms[j] = Sample) /\ d \in {"in", "out"}
        /\ d # "out"
    <2>1. Sample \in 0..3
      BY DEF Sample
    <2> QED BY <2>1, TimesIs
  <1> HIDE DEF ms, d
  <1>2. Fits(T, ms, i, d, 1, 0)
    <2> SUFFICES ASSUME NEW j \in 1..Len(ms)
                 PROVE  /\ d = "out" => T[i + j - 1] \notin Levels
                        /\ ms[j] = Sample <=> 1 = 1
                        /\ T[i + j - 1] = Take <=> 0 = 1
      BY DEF Fits
    <2>1. j \in 1..n
      BY <1>1
    <2>2. ms[j] = Sample /\ d # "out"
      BY <1>1, <2>1
    <2>3. T[i + j - 1] # Take
      BY <2>1
    <2> QED BY <2>2, <2>3
  <1>3. RunsTo(T, ms, i, o, d, l, p, r, k, 1, 0, Len(ms), b)
    BY <1>1, <1>2, Run, ZenonT(60)
  <1>4. RunsTo(T, ms, i, o, d, l, p, r, k, 1, 0, n, b)
    BY <1>1, <1>3
  <1> HIDE DEF b
  <1>5. PICK w \in Seq(Levels), z \in 0..(o + n), y \in Levels :
           /\ Len(w) = n
           /\ b = On(d, y, At(T, i + n, z), p, Cat(r, w), k)
           /\ \A j \in 1..n : d = "in" /\ T[i + j - 1] \in Levels => w[j] = T[i + j - 1]
           /\ n > 0 /\ d = "in" /\ T[i + n - 1] \in Levels => z = 0
    BY <1>4 DEF RunsTo, Cat
  <1>6. SamplesTo(T, i, n, o, p, r, k, b)
    BY <1>5 DEF SamplesTo, d
  <1> QED BY <1>6 DEF b, ms, d

\* Clocks at which the probe reads what the target sends.
ReadsTo(T, i, W, p, r, k, b) ==
    \E y \in Levels : b = On("in", y, At(T, i + Len(W), 0), p, Cat(r, W), k)

LEMMA ReadRun ==
  ASSUME NEW T \in Seq(0..3), NEW i \in 1..(Len(T) + 1), NEW W \in Seq(Levels), Len(W) > 0,
         i + Len(W) <= Len(T) + 1,
         NEW o \in Nat, o + Len(W) < ResetBits, NEW l \in Levels,
         NEW p, p.pull \in Levels, NEW r \in Seq(Levels), NEW k \in Seq(Levels),
         \A j \in 1..Len(W) : T[i + j - 1] = W[j]
  PROVE  ReadsTo(T, i, W, p, r, k, Play(On("in", l, At(T, i, o), p, r, k), Times(Sample, Len(W))))
  <1> DEFINE n == Len(W)
             b == Play(On("in", l, At(T, i, o), p, r, k), Times(Sample, n))
  <1>1. n \in Nat /\ n > 0 /\ i + n <= Len(T) + 1 /\ o + n < ResetBits /\ n \in 1..n
    OBVIOUS
  <1>2. \A j \in 1..n : T[i + j - 1] = W[j] /\ W[j] \in Levels
    OBVIOUS
  <1>3. \A j \in 1..n : T[i + j - 1] # Take /\ T[i + j - 1] \in Levels
    BY <1>2, SMTT(30) DEF Take, Levels
  <1> HIDE DEF n
  <1>4. PICK w \in Seq(Levels), z \in 0..(o + n), y \in Levels :
            /\ b = On("in", y, At(T, i + n, z), p, Cat(r, w), k)
            /\ Len(w) = n
            /\ \A j \in 1..n : T[i + j - 1] \in Levels => w[j] = T[i + j - 1]
            /\ n > 0 /\ T[i + n - 1] \in Levels => z = 0
    <2>1. \A j \in 1..n : T[i + j - 1] # Take
      BY <1>3
    <2>2. SamplesTo(T, i, n, o, p, r, k, b)
      BY <1>1, <2>1, SampleRun
    <2> HIDE DEF b
    <2> QED BY <2>2 DEF SamplesTo
  <1> HIDE DEF b
  <1>5. w = W
    BY <1>2, <1>3, <1>4, SeqEqual DEF n
  <1>6. z = 0
    BY <1>1, <1>3, <1>4
  <1>7. ReadsTo(T, i, W, p, r, k, b)
    BY <1>4, <1>5, <1>6 DEF ReadsTo, n
  <1> QED BY <1>7 DEF b, n

\* Clocks at which the target takes what the probe sends.
WritesTo(T, i, W, o, p, r, k, b) ==
    \E z \in 0..(o + Len(W)), y \in Levels :
       b = On("out", y, At(T, i + Len(W), z), p, r, Cat(k, W))

LEMMA WriteRun ==
  ASSUME NEW T \in Seq(0..3), NEW i \in 1..(Len(T) + 1), NEW W \in Seq(Levels),
         i + Len(W) <= Len(T) + 1,
         NEW o \in Nat, o + Len(W) < ResetBits, NEW l \in Levels,
         NEW p, p.pull \in Levels, NEW r \in Seq(Levels), NEW k \in Seq(Levels),
         \A j \in 1..Len(W) : T[i + j - 1] = Take
  PROVE  WritesTo(T, i, W, o, p, r, k, Play(On("out", l, At(T, i, o), p, r, k), W))
  <1> DEFINE d == "out"
             n == Len(W)
             b == Play(On(d, l, At(T, i, o), p, r, k), W)
  <1>1. /\ W \in Seq(0..3) /\ n \in Nat /\ d \in {"in", "out"}
        /\ \A j \in 1..n : W[j] \in Levels
    <2>1. Levels \subseteq 0..3
      BY DEF Levels
    <2>2. W \in Seq(0..3)
      BY <2>1, SeqMonotonic
    <2> QED BY <2>2
  <1>2. Fits(T, W, i, d, 0, 1)
    <2> SUFFICES ASSUME NEW j \in 1..Len(W)
                 PROVE  /\ d = "out" => T[i + j - 1] \notin Levels
                        /\ W[j] = Sample <=> 0 = 1
                        /\ T[i + j - 1] = Take <=> 1 = 1
      BY DEF Fits
    <2>1. W[j] # Sample
      <3>1. W[j] \in Levels
        BY <1>1
      <3> QED BY <3>1 DEF Sample, Levels
    <2>2. T[i + j - 1] = Take /\ Take \notin Levels
      BY DEF Levels, Take
    <2> QED BY <2>1, <2>2
  <1> HIDE DEF d
  <1>3. RunsTo(T, W, i, o, d, l, p, r, k, 0, 1, n, b)
    BY <1>1, <1>2, Run
  <1> HIDE DEF b, n
  <1>4. PICK w \in Seq(Levels), z \in 0..(o + n), y \in Levels :
           /\ Len(w) = n
           /\ b = On(d, y, At(T, i + n, z), p, r, Cat(k, w))
           /\ \A j \in 1..n : d = "out" /\ W[j] \in Levels => w[j] = W[j]
    BY <1>3, SMTT(30) DEF RunsTo, Cat
  <1>5. w = W
    BY <1>1, <1>4, SeqEqual DEF n, d
  <1>6. WritesTo(T, i, W, o, p, r, k, b)
    BY <1>4, <1>5 DEF WritesTo, n, d
  <1> QED BY <1>6 DEF b, d

\* Idle cycles, at level 0.
IdlesTo(p, r, k, b) == \E z \in Nat : b = On("out", 0, Idle(z), p, r, k)

LEMMA IdleRun ==
  ASSUME NEW n \in Nat, NEW o \in Nat, NEW p, p.pull \in Levels, NEW r, NEW k
  PROVE  IdlesTo(p, r, k, Play(On("out", 0, Idle(o), p, r, k), Times(Pulse, n)))
  <1> DEFINE ms == Times(Pulse, n)
             f == Path(On("out", 0, Idle(o), p, r, k), ms)
             S == {j \in Nat : j <= n => \E z \in Nat : f[j] = On("out", 0, Idle(z), p, r, k)}
  <1>1. ms \in Seq(0..3) /\ Len(ms) = n /\ \A j \in 1..n : ms[j] = Pulse
    <2>1. Pulse \in 0..3
      BY DEF Pulse
    <2> QED BY <2>1, TimesIs
  <1> HIDE DEF ms
  <1>2. /\ f[0] = On("out", 0, Idle(o), p, r, k)
        /\ \A j \in 1..Len(ms) : f[j] = Move(f[j - 1], ms[j])
        /\ Play(On("out", 0, Idle(o), p, r, k), ms) = f[Len(ms)]
    <2>1. ms \in Seq(0..3)
      BY <1>1
    <2> QED BY <2>1, PathIs
  <1> HIDE DEF f
  <1>3. 0 \in S
    BY <1>2
  <1>4. ASSUME NEW j \in S PROVE j + 1 \in S
    <2> SUFFICES ASSUME j + 1 <= n PROVE \E z \in Nat : f[j + 1] = On("out", 0, Idle(z), p, r, k)
      OBVIOUS
    <2>1. j \in Nat /\ j + 1 \in 1..n /\ (j + 1) - 1 = j /\ j <= n
      OBVIOUS
    <2>2. PICK z \in Nat : f[j] = On("out", 0, Idle(z), p, r, k)
      BY <2>1
    <2>3. f[j + 1] = Edge(On("out", 0, Idle(z), p, r, k))
      <3>1. f[j + 1] = Move(f[j], Pulse)
        BY <1>1, <1>2, <2>1
      <3> QED BY <2>2, <3>1, Moves
    <2> DEFINE e == <<>>
    <2>4. Idle(z) = Tgt("idle", z, e, <<>>)
      BY DEF Idle
    <2> HIDE DEF e
    <2>5. Edge(On("out", 0, Idle(z), p, r, k)) = On("out", 0, WithOnes(Listening(Idle(z), 0, p), 0), p, r, k)
      BY <2>4, ListeningEdge DEF Levels
    <2>6. WithOnes(Listening(Idle(z), 0, p), 0) = Idle(0)
      BY Listens DEF Levels
    <2> QED BY <2>3, <2>5, <2>6
  <1>5. S \in SUBSET Nat
    OBVIOUS
  <1>6. n \in S
    <2> HIDE DEF S
    <2> QED BY <1>3, <1>4, <1>5, Induct
  <1>7. IdlesTo(p, r, k, f[n])
    BY <1>6 DEF IdlesTo
  <1>8. Play(On("out", 0, Idle(o), p, r, k), ms) = f[n]
    BY <1>1, <1>2
  <1> QED BY <1>7, <1>8 DEF ms
-----------------------------------------------------------------------------
(* A transfer, from a target that waits to one that waits again. *)

LEMMA Then ==
  ASSUME NEW b, NEW s \in Seq(0..9), NEW t \in Seq(0..9)
  PROVE  Play(b, Cat(s, t)) = Play(Play(b, s), t) /\ Cat(s, t) \in Seq(0..9)
  BY PlayBoth, CatIs DEF Cat

LEMMA OneOf ==
  ASSUME NEW m \in 0..9, NEW b
  PROVE  <<m>> \in Seq(0..9) /\ Play(b, <<m>>) = Move(b, m)
  BY PlayOne

LEMMA AnswerStarts ==
  ASSUME NEW p, PlanOk(p), NEW req
  PROVE  LET T == Answer(p, req)
             n == p.turn
         IN /\ T \in Seq(0..3) /\ Len(T) \in Nat /\ n + n + 3 <= Len(T)
            /\ \A j \in 1..n : T[1 + j - 1] = Skip
            /\ p.ack \in Seq(Levels) /\ Len(p.ack) = 3
            /\ \A j \in 1..3 : T[(n + 1) + j - 1] = p.ack[j]
  <1> DEFINE T == Answer(p, req)
             n == p.turn
             turn == Times(Skip, n)
             X == Exchanged(p, req)
             a == p.ack
  <1>1. n \in Nat /\ turn \in Seq(0..3) /\ Len(turn) = n /\ \A i \in 1..n : turn[i] = Skip
    <2>1. Skip \in 0..3 /\ n \in Nat
      BY DEF PlanOk, Skip
    <2> HIDE DEF n
    <2> QED BY <2>1, TimesIs
  <1>2. a \in Seq(Levels) /\ Len(a) = 3
    BY AcksAre DEF PlanOk
  <1>3. X \in Seq(0..3) /\ Len(X) \in Nat
    <2>1. X \in Seq(0..3)
      BY ExchangedIs
    <2> HIDE DEF X
    <2> QED BY <2>1
  <1>4. T \in Seq(0..3) /\ (RnW(req) => Parts(T, turn, a, X, turn)) /\ (~RnW(req) => Parts(T, turn, a, turn, X))
    BY AnswerIs
  <1> HIDE DEF T, turn, X, n, a
  <1>5. /\ Len(T) = n + 3 + Len(X) + n
        /\ \A i \in 1..n : T[i] = turn[i]
        /\ \A i \in 1..3 : T[n + i] = a[i]
    <2>1. CASE RnW(req)
      BY <1>1, <1>2, <1>3, <1>4, <2>1 DEF Parts
    <2>2. CASE ~RnW(req)
      BY <1>1, <1>2, <1>3, <1>4, <2>2 DEF Parts
    <2> QED BY <2>1, <2>2
  <1>6. Len(T) \in Nat /\ n + n + 3 <= Len(T)
    BY <1>1, <1>3, <1>5
  <1>7. \A j \in 1..n : T[1 + j - 1] = Skip
    <2> TAKE j \in 1..n
    <2>1. 1 + j - 1 = j
      BY <1>1
    <2> QED BY <1>1, <1>5, <2>1
  <1>8. \A j \in 1..3 : T[(n + 1) + j - 1] = a[j]
    <2> TAKE j \in 1..3
    <2>1. (n + 1) + j - 1 = n + j
      BY <1>1
    <2> QED BY <1>5, <2>1
  <1>9. T \in Seq(0..3)
    BY <1>4
  <1> QED BY <1>2, <1>6, <1>7, <1>8, <1>9 DEF T, n, a

LEMMA AnswerEnds ==
  ASSUME NEW p, PlanOk(p), NEW req, NEW i, i = p.turn + 4
  PROVE  LET T == Answer(p, req)
             n == p.turn
             X == Exchanged(p, req)
         IN /\ Len(X) \in Nat /\ Len(T) + 1 = i + n + Len(X)
            /\ RnW(req) => /\ \A j \in 1..Len(X) : T[i + j - 1] = X[j]
                           /\ \A j \in 1..n : T[(i + Len(X)) + j - 1] = Skip
            /\ ~RnW(req) => /\ \A j \in 1..n : T[i + j - 1] = Skip
                            /\ \A j \in 1..Len(X) : T[(i + n) + j - 1] = X[j]
  <1> DEFINE T == Answer(p, req)
             n == p.turn
             turn == Times(Skip, n)
             X == Exchanged(p, req)
             a == p.ack
             m == Len(X)
  <1>1. n \in Nat /\ turn \in Seq(0..3) /\ Len(turn) = n /\ \A j \in 1..n : turn[j] = Skip
    <2>1. Skip \in 0..3 /\ n \in Nat
      BY DEF PlanOk, Skip
    <2> HIDE DEF n
    <2> QED BY <2>1, TimesIs
  <1>2. Len(a) = 3
    BY AcksAre DEF PlanOk
  <1>3. m \in Nat
    <2>1. X \in Seq(0..3)
      BY ExchangedIs
    <2> HIDE DEF X
    <2> QED BY <2>1
  <1>4. (RnW(req) => Parts(T, turn, a, X, turn)) /\ (~RnW(req) => Parts(T, turn, a, turn, X))
    BY AnswerIs
  <1>5. i = n + 4
    OBVIOUS
  <1> HIDE DEF T, turn, X, n, a
  <1>6. ASSUME RnW(req)
        PROVE  /\ Len(T) = n + 3 + m + n
               /\ \A j \in 1..m : T[n + 3 + j] = X[j]
               /\ \A j \in 1..n : T[n + 3 + m + j] = turn[j]
    <2>1. Parts(T, turn, a, X, turn)
      BY <1>4, <1>6
    <2> QED BY <1>1, <1>2, <2>1 DEF Parts, m
  <1>7. ASSUME ~RnW(req)
        PROVE  /\ Len(T) = n + 3 + n + m
               /\ \A j \in 1..n : T[n + 3 + j] = turn[j]
               /\ \A j \in 1..m : T[n + 3 + n + j] = X[j]
    <2>1. Parts(T, turn, a, turn, X)
      BY <1>4, <1>7
    <2> QED BY <1>1, <1>2, <2>1 DEF Parts, m
  <1> HIDE DEF m
  <1>8. Len(T) + 1 = i + n + m
    <2>1. Len(T) = n + 3 + m + n \/ Len(T) = n + 3 + n + m
      BY <1>6, <1>7
    <2> QED BY <1>1, <1>3, <1>5, <2>1, SMTT(30)
  <1>9. ASSUME RnW(req)
        PROVE  (\A j \in 1..m : T[i + j - 1] = X[j]) /\ (\A j \in 1..n : T[(i + m) + j - 1] = Skip)
    <2>1. ASSUME NEW j \in 1..m PROVE T[i + j - 1] = X[j]
      <3>1. i + j - 1 = n + 3 + j
        BY <1>1, <1>3, <1>5
      <3> QED BY <1>6, <1>9, <3>1
    <2>2. ASSUME NEW j \in 1..n PROVE T[(i + m) + j - 1] = Skip
      <3>1. (i + m) + j - 1 = n + 3 + m + j
        BY <1>1, <1>3, <1>5
      <3> QED BY <1>1, <1>6, <1>9, <3>1
    <2> QED BY <2>1, <2>2
  <1>10. ASSUME ~RnW(req)
         PROVE  (\A j \in 1..n : T[i + j - 1] = Skip) /\ (\A j \in 1..m : T[(i + n) + j - 1] = X[j])
    <2>1. ASSUME NEW j \in 1..n PROVE T[i + j - 1] = Skip
      <3>1. i + j - 1 = n + 3 + j
        BY <1>1, <1>3, <1>5
      <3> QED BY <1>1, <1>7, <1>10, <3>1
    <2>2. ASSUME NEW j \in 1..m PROVE T[(i + n) + j - 1] = X[j]
      <3>1. (i + n) + j - 1 = n + 3 + n + j
        BY <1>1, <1>3, <1>5
      <3> QED BY <1>7, <1>10, <3>1
    <2> QED BY <2>1, <2>2
  <1> QED BY <1>3, <1>8, <1>9, <1>10 DEF T, n, X, m

\* The bounds that keep every run of a transfer below a line reset.
Short(n) == n \in Nat \ {0} /\ Width + 7 + n < ResetBits

LEMMA AskRun ==
  ASSUME NEW req \in [1..4 -> Levels], NEW p, PlanOk(p), p.turn = turnaround, Short(turnaround),
         NEW o \in Nat, o + 6 < ResetBits, NEW l \in Levels, NEW e, e = <<>>
  PROVE  /\ Ask(req) \in Seq(0..9)
         /\ \E y \in Levels : Play(On("out", l, Idle(o), p, e, e), Ask(req))
                               = On("in", y, At(Answer(p, req), turnaround + 4, 0), p, p.ack, e)
  <1> DEFINE T == Answer(p, req)
             n == turnaround
             H == Header(req)
             s1 == <<DioIn>>
             s2 == Times(Pulse, n)
             s3 == Times(Sample, 3)
             b == On("out", l, Idle(o), p, e, e)
             a == p.ack
  <1>1. /\ T \in Seq(0..3) /\ Len(T) \in Nat /\ n + n + 3 <= Len(T)
        /\ \A j \in 1..n : T[1 + j - 1] = Skip
        /\ a \in Seq(Levels) /\ Len(a) = 3
        /\ \A j \in 1..3 : T[(n + 1) + j - 1] = a[j]
    BY AnswerStarts, SMTT(30)
  <1>2. n \in Nat /\ n > 0 /\ n + 8 < ResetBits /\ ResetBits \in Nat
    BY WireAssumption DEF Short
  <1>3. p.pull \in Levels /\ e \in Seq(Levels)
    BY DEF PlanOk
  <1>4. H \in Seq(0..9)
    <2>1. H \in Seq(Levels) /\ Levels \subseteq 0..9
      BY HeaderIs DEF Levels
    <2> HIDE DEF H
    <2> QED BY <2>1, SeqMonotonic
  <1>5. s1 \in Seq(0..9) /\ s2 \in Seq(0..9) /\ s3 \in Seq(0..9)
    <2>1. DioIn \in 0..9 /\ Pulse \in 0..9 /\ Sample \in 0..9 /\ 3 \in Nat
      BY DEF DioIn, Pulse, Sample
    <2>2. s1 \in Seq(0..9)
      BY <2>1, OneOf
    <2>3. s2 \in Seq(0..9) /\ s3 \in Seq(0..9)
      BY <1>2, <2>1, TimesMoves
    <2> QED BY <2>2, <2>3
  <1>6. Play(b, H) = On("out", 1, At(T, 1, 1), p, e, e)
    <2>1. Play(b, H) = On("out", 1, Rest(T, 1), p, e, e)
      BY <1>3, Request
    <2>2. At(T, 1, 1) = Rest(T, 1)
      <3> HIDE DEF T
      <3>1. SubSeq(T, 1, Len(T)) = T
        BY <1>1, SubSeqFull
      <3>2. ~(1 > Len(T))
        BY <1>1, <1>2
      <3> QED BY <3>1, <3>2 DEF At
    <2> QED BY <2>1, <2>2
  <1> HIDE DEF T, n, H, s1, s2, s3, b, a
  <1>7. Play(b, Cat(H, s1)) = On("in", 1, At(T, 1, 1), p, e, e) /\ Cat(H, s1) \in Seq(0..9)
    <2>1. Play(b, Cat(H, s1)) = Play(Play(b, H), s1) /\ Cat(H, s1) \in Seq(0..9)
      BY <1>4, <1>5, Then
    <2>2. Play(On("out", 1, At(T, 1, 1), p, e, e), s1) = On("in", 1, At(T, 1, 1), p, e, e)
      <3>1. DioIn \in 0..9
        BY DEF DioIn
      <3>2. Play(On("out", 1, At(T, 1, 1), p, e, e), s1) = Move(On("out", 1, At(T, 1, 1), p, e, e), DioIn)
        BY <3>1, OneOf DEF s1
      <3> QED BY <3>2, Moves
    <2> QED BY <1>6, <2>1, <2>2
  <1> DEFINE u1 == Cat(H, s1)
             u2 == Cat(u1, s2)
             u3 == Cat(u2, s3)
  <1>8. PICK z \in 0..(1 + n), y \in Levels :
           Play(b, u2) = On("in", y, At(T, 1 + n, z), p, e, e) /\ u2 \in Seq(0..9)
    <2>1. Play(b, u2) = Play(Play(b, u1), s2) /\ u2 \in Seq(0..9)
      BY <1>5, <1>7, Then
    <2>2. \E z \in 0..(1 + n), y \in Levels :
             Play(On("in", 1, At(T, 1, 1), p, e, e), s2) = On("in", y, At(T, 1 + n, z), p, e, e)
      <3>1. /\ 1 \in 1..(Len(T) + 1) /\ 1 + n <= Len(T) + 1 /\ 1 \in Nat /\ 1 + n < ResetBits /\ "in" \in {"in", "out"}
            /\ 1 \in Levels
        BY <1>1, <1>2, SMTT(30) DEF Levels
      <3>2. \A j \in 1..n : T[1 + j - 1] # Take /\ ("in" = "out" => T[1 + j - 1] \notin Levels)
        BY <1>1 DEF Skip, Take
      <3> DEFINE c == Play(On("in", 1, At(T, 1, 1), p, e, e), s2)
      <3>3. PulsesTo(T, 1, n, 1, "in", p, e, e, c)
        BY <1>1, <1>2, <1>3, <3>1, <3>2, PulseRun DEF s2
      <3> HIDE DEF c
      <3>4. \E z \in 0..(1 + n), y \in Levels : c = On("in", y, At(T, 1 + n, z), p, e, e)
        BY <3>3 DEF PulsesTo
      <3> QED BY <3>4 DEF c
    <2> HIDE DEF u2
    <2> QED BY <1>7, <2>1, <2>2 DEF u1
  <1>9. PICK x \in Levels : Play(b, u3) = On("in", x, At(T, n + 4, 0), p, a, e) /\ u3 \in Seq(0..9)
    <2>1. Play(b, u3) = Play(Play(b, u2), s3) /\ u3 \in Seq(0..9)
      BY <1>5, <1>8, Then
    <2>2. \E x \in Levels : Play(On("in", y, At(T, n + 1, z), p, e, e), Times(Sample, Len(a)))
                               = On("in", x, At(T, (n + 1) + Len(a), 0), p, Cat(e, a), e)
      <3>1. /\ n + 1 \in 1..(Len(T) + 1) /\ (n + 1) + Len(a) <= Len(T) + 1 /\ z \in Nat
            /\ z + Len(a) < ResetBits /\ Len(a) > 0
        BY <1>1, <1>2
      <3>2. \A j \in 1..Len(a) : T[(n + 1) + j - 1] = a[j]
        BY <1>1
      <3> DEFINE c == Play(On("in", y, At(T, n + 1, z), p, e, e), Times(Sample, Len(a)))
      <3>3. ReadsTo(T, n + 1, a, p, e, e, c)
        BY <1>1, <1>3, <3>1, <3>2, ReadRun
      <3> HIDE DEF c
      <3>4. \E x \in Levels : c = On("in", x, At(T, (n + 1) + Len(a), 0), p, Cat(e, a), e)
        BY <3>3 DEF ReadsTo
      <3> QED BY <3>4 DEF c
    <2>3. (n + 1) + Len(a) = n + 4 /\ Cat(e, a) = a /\ 1 + n = n + 1 /\ Times(Sample, Len(a)) = s3
      <3>1. Cat(e, a) = a
        BY <1>1, ConcatEmptySeq DEF Cat
      <3> QED BY <1>1, <1>2, <3>1 DEF s3
    <2> HIDE DEF u3, u2
    <2> QED BY <1>8, <2>1, <2>2, <2>3
  <1>10. u3 = Ask(req)
    BY DEF u3, u2, u1, H, s1, s2, s3, n, Ask, Turnaround, Cat
  <1> HIDE DEF u3
  <1> QED BY <1>9, <1>10 DEF T, n, b, a

\* Moves of a pin alone.
LEMMA DioRun ==
  ASSUME NEW d, NEW l, NEW t, NEW p, NEW r, NEW k, NEW v \in Levels
  PROVE  Play(On(d, l, t, p, r, k), <<Dio(v)>>) = On(d, v, t, p, r, k) /\ <<Dio(v)>> \in Seq(0..9)
  <1>1. Dio(v) \in 0..9
    BY DEF Dio, Levels
  <1>2. Play(On(d, l, t, p, r, k), <<Dio(v)>>) = Move(On(d, l, t, p, r, k), Dio(v)) /\ <<Dio(v)>> \in Seq(0..9)
    BY <1>1, OneOf
  <1>3. Move(On(d, l, t, p, r, k), Dio(v)) = On(d, v, t, p, r, k)
    BY Moves
  <1> QED BY <1>2, <1>3

LEMMA TurnRun ==
  ASSUME NEW d, NEW l, NEW t, NEW p, NEW r, NEW k
  PROVE  /\ Play(On(d, l, t, p, r, k), <<DioOut>>) = On("out", l, t, p, r, k)
         /\ Play(On(d, l, t, p, r, k), <<DioIn>>) = On("in", l, t, p, r, k)
  <1>1. DioOut \in 0..9 /\ DioIn \in 0..9
    BY DEF DioOut, DioIn
  <1>2. /\ Play(On(d, l, t, p, r, k), <<DioOut>>) = Move(On(d, l, t, p, r, k), DioOut)
        /\ Play(On(d, l, t, p, r, k), <<DioIn>>) = Move(On(d, l, t, p, r, k), DioIn)
    BY <1>1, OneOf
  <1>3. /\ Move(On(d, l, t, p, r, k), DioOut) = On("out", l, t, p, r, k)
        /\ Move(On(d, l, t, p, r, k), DioIn) = On("in", l, t, p, r, k)
    BY Moves
  <1> QED BY <1>2, <1>3

LEMMA PinsAreMoves ==
  <<DioOut>> \in Seq(0..9) /\ <<DioIn>> \in Seq(0..9) /\ <<Dio(0)>> \in Seq(0..9) /\ <<Dio(1)>> \in Seq(0..9)
  <1>1. DioOut \in 0..9 /\ DioIn \in 0..9 /\ Dio(0) \in 0..9 /\ Dio(1) \in 0..9
    BY DEF DioOut, DioIn, Dio
  <1> QED BY <1>1, OneOf

LEMMA AcksDiffer == OK # WAIT /\ OK # FAULT /\ WAIT # FAULT /\ OK # ERROR
  <1>1. OK[1] # WAIT[1] /\ OK[1] # FAULT[1] /\ WAIT[2] # FAULT[2] /\ OK[1] # ERROR[1]
    BY DEF OK, WAIT, FAULT, ERROR
  <1> QED BY <1>1

\* Behind the answer the target waits.
LEMMA Behind ==
  ASSUME NEW T \in Seq(0..3), NEW o
  PROVE  At(T, Len(T) + 1, o) = Idle(o)
  BY DEF At

\* The end of a transfer: SWDIO is driven and high, and the target waits.
Ends(p, r, k, b) == \E z \in Nat : b = On("out", 1, Idle(z), p, r, k)

\* The end of a transfer that was acknowledged: the idle cycles.
LEMMA AfterData ==
  ASSUME NEW b, NEW u \in Seq(0..9), NEW y, NEW z \in Nat, NEW p, p.pull \in Levels, NEW r, NEW k,
         NEW n \in Nat, Play(b, u) = On("out", y, Idle(z), p, r, k)
  PROVE  LET w == Cat(Cat(Cat(u, <<Dio(0)>>), Times(Pulse, n)), <<Dio(1)>>)
         IN w \in Seq(0..9) /\ Ends(p, r, k, Play(b, w))
  <1> DEFINE s4 == <<Dio(0)>>
             s5 == Times(Pulse, n)
             s6 == <<Dio(1)>>
             u4 == Cat(u, s4)
             u5 == Cat(u4, s5)
             u6 == Cat(u5, s6)
  <1>1. s4 \in Seq(0..9) /\ s5 \in Seq(0..9) /\ s6 \in Seq(0..9)
    <2>1. Pulse \in 0..9
      BY DEF Pulse
    <2> QED BY <2>1, TimesMoves, PinsAreMoves
  <1> HIDE DEF s4, s5, s6
  <1>2. Play(b, u4) = On("out", 0, Idle(z), p, r, k) /\ u4 \in Seq(0..9)
    <2>1. Play(b, u4) = Play(Play(b, u), s4) /\ u4 \in Seq(0..9)
      BY <1>1, Then
    <2>2. Play(On("out", y, Idle(z), p, r, k), s4) = On("out", 0, Idle(z), p, r, k)
      <3>1. 0 \in Levels
        BY DEF Levels
      <3> QED BY <3>1, DioRun DEF s4
    <2> QED BY <2>1, <2>2
  <1> HIDE DEF u4
  <1>3. IdlesTo(p, r, k, Play(b, u5)) /\ u5 \in Seq(0..9)
    <2>1. Play(b, u5) = Play(Play(b, u4), s5) /\ u5 \in Seq(0..9)
      BY <1>1, <1>2, Then
    <2>2. IdlesTo(p, r, k, Play(On("out", 0, Idle(z), p, r, k), s5))
      BY IdleRun DEF s5
    <2> QED BY <1>2, <2>1, <2>2
  <1> HIDE DEF u5
  <1>4. PICK x \in Nat : Play(b, u5) = On("out", 0, Idle(x), p, r, k)
    BY <1>3 DEF IdlesTo
  <1>5. Play(b, u6) = On("out", 1, Idle(x), p, r, k) /\ u6 \in Seq(0..9)
    <2>1. Play(b, u6) = Play(Play(b, u5), s6) /\ u6 \in Seq(0..9)
      BY <1>1, <1>3, Then
    <2>2. Play(On("out", 0, Idle(x), p, r, k), s6) = On("out", 1, Idle(x), p, r, k)
      <3>1. 1 \in Levels
        BY DEF Levels
      <3> QED BY <3>1, DioRun DEF s6
    <2> QED BY <1>4, <2>1, <2>2
  <1> HIDE DEF u6
  <1>6. Ends(p, r, k, Play(b, u6)) /\ u6 \in Seq(0..9)
    BY <1>5 DEF Ends
  <1> QED BY <1>6 DEF u6, u5, u4, s4, s5, s6

\* The end of any other.
LEMMA Closing ==
  ASSUME NEW b, NEW u \in Seq(0..9), NEW y, NEW z \in Nat, NEW p, NEW r, NEW k,
         Play(b, u) = On("out", y, Idle(z), p, r, k)
  PROVE  Cat(u, <<Dio(1)>>) \in Seq(0..9) /\ Ends(p, r, k, Play(b, Cat(u, <<Dio(1)>>)))
  <1>1. 1 \in Levels
    BY DEF Levels
  <1> DEFINE s6 == <<Dio(1)>>
  <1>2. s6 \in Seq(0..9) /\ Play(On("out", y, Idle(z), p, r, k), s6) = On("out", 1, Idle(z), p, r, k)
    BY <1>1, DioRun
  <1> HIDE DEF s6
  <1>3. Play(b, Cat(u, s6)) = Play(Play(b, u), s6) /\ Cat(u, s6) \in Seq(0..9)
    BY <1>2, Then
  <1>4. Ends(p, r, k, Play(b, Cat(u, s6)))
    BY <1>2, <1>3 DEF Ends
  <1> QED BY <1>3, <1>4 DEF s6

\* Clocks to the end of an answer at which nothing is taken.
Waits(d, p, r, k, b) == \E z \in Nat, y \in Levels : b = On(d, y, Idle(z), p, r, k)

LEMMA LastPulses ==
  ASSUME NEW T \in Seq(0..3), NEW i \in Nat \ {0}, NEW n \in Nat, i + n = Len(T) + 1,
         NEW o \in Nat, o + n < ResetBits, NEW d \in {"in", "out"}, NEW l \in Levels,
         NEW p, p.pull \in Levels, NEW r \in Seq(Levels), NEW k \in Seq(Levels),
         \A j \in 1..n : T[i + j - 1] = Skip
  PROVE  Waits(d, p, r, k, Play(On(d, l, At(T, i, o), p, r, k), Times(Pulse, n)))
  <1> DEFINE c == Play(On(d, l, At(T, i, o), p, r, k), Times(Pulse, n))
  <1>1. i \in 1..(Len(T) + 1) /\ i + n <= Len(T) + 1
    OBVIOUS
  <1>2. \A j \in 1..n : T[i + j - 1] # Take /\ (d = "out" => T[i + j - 1] \notin Levels)
    <2> TAKE j \in 1..n
    <2>1. T[i + j - 1] = Skip
      OBVIOUS
    <2> QED BY <2>1 DEF Skip, Take, Levels
  <1>3. PulsesTo(T, i, n, o, d, p, r, k, c)
    BY <1>1, <1>2, PulseRun, ZenonT(60)
  <1> HIDE DEF c
  <1>4. PICK z \in 0..(o + n), y \in Levels : c = On(d, y, At(T, i + n, z), p, r, k)
    BY <1>3 DEF PulsesTo
  <1>5. At(T, i + n, z) = Idle(z)
    BY Behind
  <1>6. Waits(d, p, r, k, c)
    BY <1>4, <1>5 DEF Waits
  <1> QED BY <1>6 DEF c

\* The word of a read.
LEMMA ReadRest ==
  ASSUME NEW req, RnW(req), NEW word, NEW p, PlanOk(p), p.ack = OK, p.turn = turnaround,
         Short(turnaround), idle_cycles \in Nat, NEW y \in Levels, NEW e, e = <<>>
  PROVE  /\ SwdRest(req, word, OK) \in Seq(0..9)
         /\ Ends(p, Cat(p.ack, Sent(p)), e,
                 Play(On("in", y, At(Answer(p, req), turnaround + 4, 0), p, p.ack, e), SwdRest(req, word, OK)))
  <1> DEFINE T == Answer(p, req)
             n == turnaround
             i == n + 4
             W == Sent(p)
             a == p.ack
             s1 == Times(Sample, Width + 1)
             s2 == Times(Pulse, n)
             s3 == <<DioOut>>
             b == On("in", y, At(T, i, 0), p, a, e)
             r == Cat(a, W)
  <1>1. T \in Seq(0..3) /\ Len(T) \in Nat /\ n + n + 3 <= Len(T) /\ a \in Seq(Levels)
    BY AnswerStarts
  <1>2. n \in Nat /\ n > 0 /\ Width + 7 + n < ResetBits /\ ResetBits \in Nat /\ Width \in Nat /\ i \in Nat
    BY WireAssumption DEF Short
  <1>3. p.pull \in Levels /\ e \in Seq(Levels)
    BY DEF PlanOk
  <1>4. W \in Seq(Levels) /\ Len(W) = Width + 1
    BY SentIs
  <1>5. /\ Len(T) + 1 = i + n + Len(W)
        /\ \A j \in 1..Len(W) : T[i + j - 1] = W[j]
        /\ \A j \in 1..n : T[(i + Len(W)) + j - 1] = Skip
    <2>1. Exchanged(p, req) = W /\ i = p.turn + 4
      BY ExchangedIs
    <2> HIDE DEF T, W
    <2> QED BY <2>1, AnswerEnds DEF T
  <1>6. s1 \in Seq(0..9) /\ s2 \in Seq(0..9) /\ s3 \in Seq(0..9)
    <2>1. Pulse \in 0..9 /\ Sample \in 0..9 /\ Width + 1 \in Nat
      BY <1>2 DEF Pulse, Sample
    <2> QED BY <1>2, <2>1, TimesMoves, PinsAreMoves
  <1>7. r \in Seq(Levels)
    BY <1>1, <1>4, CatIs
  <1> DEFINE u2 == Cat(s1, s2)
             u3 == Cat(u2, s3)
             u6 == Cat(Cat(Cat(u3, <<Dio(0)>>), Times(Pulse, idle_cycles)), <<Dio(1)>>)
  <1>8. u6 = SwdRest(req, word, OK)
    <2>1. SwdRest(req, word, OK) = (Data(req, word) \o <<Dio(0)>> \o Times(Pulse, idle_cycles)) \o <<Dio(1)>>
      BY AcksDiffer DEF SwdRest
    <2>2. Data(req, word) = Times(Sample, Width + 1) \o Turnaround \o <<DioOut>>
      BY DEF Data
    <2> QED BY <2>1, <2>2, Zenon DEF u6, u3, u2, s1, s2, s3, n, Turnaround, Cat
  <1> HIDE DEF T, n, i, W, a, s1, s2, s3, b, r
  <1>9. PICK x \in Levels : Play(b, s1) = On("in", x, At(T, i + Len(W), 0), p, r, e)
    <2>1. /\ i \in 1..(Len(T) + 1) /\ i + Len(W) <= Len(T) + 1 /\ 0 \in Nat
          /\ 0 + Len(W) < ResetBits /\ Len(W) > 0
      BY <1>1, <1>2, <1>4, <1>5, SMTT(30) DEF i
    <2> DEFINE c == Play(On("in", y, At(T, i, 0), p, a, e), Times(Sample, Len(W)))
    <2>2. ReadsTo(T, i, W, p, a, e, c)
      BY <1>1, <1>3, <1>4, <1>5, <2>1, ReadRun
    <2>3. c = Play(b, s1)
      BY <1>4 DEF b, s1
    <2> HIDE DEF c
    <2> QED BY <2>2, <2>3 DEF ReadsTo, r
  <1>10. PICK z \in Nat, x2 \in Levels : Play(b, u2) = On("in", x2, Idle(z), p, r, e) /\ u2 \in Seq(0..9)
    <2>1. Play(b, u2) = Play(Play(b, s1), s2) /\ u2 \in Seq(0..9)
      <3>1. s1 \in Seq(0..9) /\ s2 \in Seq(0..9)
        BY <1>6
      <3> QED BY ONLY <3>1, Then
    <2> HIDE DEF u2
    <2> DEFINE k == i + Len(W)
    <2>2. k \in Nat \ {0} /\ k + n = Len(T) + 1 /\ 0 \in Nat /\ 0 + n < ResetBits /\ "in" \in {"in", "out"}
      BY <1>1, <1>2, <1>4, <1>5, SMTT(30)
    <2>3. \A j \in 1..n : T[k + j - 1] = Skip
      BY <1>5
    <2> HIDE DEF k
    <2>4. Waits("in", p, r, e, Play(On("in", x, At(T, k, 0), p, r, e), s2))
      BY <1>1, <1>2, <1>3, <1>7, <2>2, <2>3, LastPulses DEF s2
    <2>5. Waits("in", p, r, e, Play(b, u2))
      BY <1>9, <2>1, <2>4 DEF k
    <2> QED BY <2>1, <2>5 DEF Waits
  <1> HIDE DEF u2
  <1>11. Play(b, u3) = On("out", x2, Idle(z), p, r, e) /\ u3 \in Seq(0..9)
    <2>1. Play(b, u3) = Play(Play(b, u2), s3) /\ u3 \in Seq(0..9)
      BY <1>6, <1>10, Then
    <2>2. Play(On("in", x2, Idle(z), p, r, e), s3) = On("out", x2, Idle(z), p, r, e)
      BY TurnRun DEF s3
    <2> QED BY <1>10, <2>1, <2>2
  <1> HIDE DEF u3
  <1>12. Ends(p, r, e, Play(b, u6)) /\ u6 \in Seq(0..9)
    BY <1>3, <1>11, AfterData
  <1> HIDE DEF u6
  <1> QED BY <1>8, <1>12 DEF T, n, i, a, b, r, W

\* The word of a write.
LEMMA WriteRest ==
  ASSUME NEW req, ~RnW(req), NEW word \in [1..Width -> Levels], NEW p, PlanOk(p), p.ack = OK,
         p.turn = turnaround, Short(turnaround), idle_cycles \in Nat, NEW y \in Levels, NEW e, e = <<>>
  PROVE  /\ SwdRest(req, word, OK) \in Seq(0..9)
         /\ Ends(p, p.ack, Framed(word, Parity(word)),
                 Play(On("in", y, At(Answer(p, req), turnaround + 4, 0), p, p.ack, e), SwdRest(req, word, OK)))
  <1> DEFINE T == Answer(p, req)
             n == turnaround
             i == n + 4
             W == Framed(word, Parity(word))
             a == p.ack
             s1 == Times(Pulse, n)
             s2 == <<DioOut>>
             b == On("in", y, At(T, i, 0), p, a, e)
  <1>1. T \in Seq(0..3) /\ Len(T) \in Nat /\ n + n + 3 <= Len(T) /\ a \in Seq(Levels)
    BY AnswerStarts
  <1>2. n \in Nat /\ n > 0 /\ Width + 7 + n < ResetBits /\ ResetBits \in Nat /\ Width \in Nat /\ i \in Nat
    BY WireAssumption DEF Short
  <1>3. p.pull \in Levels /\ e \in Seq(Levels)
    BY DEF PlanOk
  <1>4. W \in Seq(Levels) /\ Len(W) = Width + 1
    <2>1. Parity(word) \in Levels
      BY <1>2, ParityBit
    <2> QED BY <2>1, FramedIs
  <1>5. /\ Len(T) + 1 = i + n + Len(W)
        /\ \A j \in 1..n : T[i + j - 1] = Skip
        /\ \A j \in 1..Len(W) : T[(i + n) + j - 1] = Take
    <2> DEFINE X == Times(Take, Width + 1)
    <2>1. Exchanged(p, req) = X /\ i = p.turn + 4
      BY ExchangedIs
    <2>2. Len(X) = Width + 1 /\ \A j \in 1..(Width + 1) : X[j] = Take
      <3>1. Take \in 0..3 /\ Width + 1 \in Nat
        BY <1>2 DEF Take
      <3> QED BY <3>1, TimesIs
    <2> HIDE DEF T, W, X
    <2>3. /\ Len(T) + 1 = i + n + Len(X)
          /\ \A j \in 1..n : T[i + j - 1] = Skip
          /\ \A j \in 1..Len(X) : T[(i + n) + j - 1] = X[j]
      BY <2>1, AnswerEnds DEF T
    <2> QED BY <1>4, <2>2, <2>3
  <1>6. s1 \in Seq(0..9) /\ s2 \in Seq(0..9) /\ W \in Seq(0..9)
    <2>1. Pulse \in 0..9 /\ Levels \subseteq 0..9
      BY DEF Pulse, Levels
    <2>2. s1 \in Seq(0..9) /\ s2 \in Seq(0..9)
      BY <1>2, <2>1, TimesMoves, PinsAreMoves
    <2> HIDE DEF W
    <2> QED BY <1>4, <2>1, <2>2, SeqMonotonic
  <1> DEFINE u2 == Cat(s1, s2)
             u3 == Cat(u2, W)
             u6 == Cat(Cat(Cat(u3, <<Dio(0)>>), Times(Pulse, idle_cycles)), <<Dio(1)>>)
  <1>7. u6 = SwdRest(req, word, OK)
    <2>1. SwdRest(req, word, OK) = (Data(req, word) \o <<Dio(0)>> \o Times(Pulse, idle_cycles)) \o <<Dio(1)>>
      BY AcksDiffer DEF SwdRest
    <2>2. Data(req, word) = Turnaround \o <<DioOut>> \o Append(word, Parity(word))
      BY DEF Data
    <2> QED BY <2>1, <2>2, Zenon DEF u6, u3, u2, s1, s2, W, Framed, n, Turnaround, Cat
  <1> HIDE DEF T, n, i, W, a, s1, s2, b
  <1>8. PulsesTo(T, i, n, 0, "in", p, a, e, Play(b, s1))
    <2>1. /\ i \in 1..(Len(T) + 1) /\ i + n <= Len(T) + 1 /\ 0 \in Nat
          /\ 0 + n < ResetBits /\ "in" \in {"in", "out"}
      BY <1>1, <1>2, <1>4, <1>5 DEF i
    <2>2. \A j \in 1..n : T[i + j - 1] # Take /\ ("in" = "out" => T[i + j - 1] \notin Levels)
      BY <1>5 DEF Skip, Take
    <2> QED BY <1>1, <1>2, <1>3, <2>1, <2>2, PulseRun DEF s1, b
  <1>9. PICK z \in 0..n, x \in Levels : Play(b, s1) = On("in", x, At(T, i + n, z), p, a, e)
    BY <1>2, <1>8 DEF PulsesTo
  <1>10. Play(b, u2) = On("out", x, At(T, i + n, z), p, a, e) /\ u2 \in Seq(0..9)
    <2>1. Play(b, u2) = Play(Play(b, s1), s2) /\ u2 \in Seq(0..9)
      <3>1. s1 \in Seq(0..9) /\ s2 \in Seq(0..9)
        BY <1>6
      <3> QED BY ONLY <3>1, Then
    <2>2. Play(On("in", x, At(T, i + n, z), p, a, e), s2) = On("out", x, At(T, i + n, z), p, a, e)
      BY TurnRun DEF s2
    <2> QED BY <1>9, <2>1, <2>2
  <1> HIDE DEF u2
  <1>11. Waits("out", p, a, W, Play(b, u3)) /\ u3 \in Seq(0..9)
    <2>1. Play(b, u3) = Play(Play(b, u2), W) /\ u3 \in Seq(0..9)
      BY <1>6, <1>10, Then
    <2> DEFINE k == i + n
               c == Play(On("out", x, At(T, k, z), p, a, e), W)
    <2>2. /\ k \in 1..(Len(T) + 1) /\ k + Len(W) = Len(T) + 1 /\ k + Len(W) <= Len(T) + 1 /\ z \in Nat
          /\ z + Len(W) < ResetBits
      BY <1>1, <1>2, <1>4, <1>5
    <2>3. \A j \in 1..Len(W) : T[k + j - 1] = Take
      BY <1>5
    <2>4. Play(b, u3) = c
      BY <1>10, <2>1
    <2> HIDE DEF k, u3
    <2>5. WritesTo(T, k, W, z, p, a, e, c)
      BY <1>1, <1>3, <1>4, <2>2, <2>3, WriteRun
    <2> HIDE DEF c
    <2>6. PICK zz \in 0..(z + Len(W)), yy \in Levels : c = On("out", yy, At(T, k + Len(W), zz), p, a, Cat(e, W))
      BY <2>5 DEF WritesTo
    <2>7. At(T, k + Len(W), zz) = Idle(zz) /\ Cat(e, W) = W /\ zz \in Nat
      <3>1. At(T, k + Len(W), zz) = Idle(zz)
        BY <1>1, <2>2, Behind
      <3>2. Cat(e, W) = W
        BY <1>4, ConcatEmptySeq DEF Cat
      <3> QED BY <1>2, <1>4, <2>2, <3>1, <3>2
    <2> QED BY <2>1, <2>4, <2>6, <2>7 DEF Waits
  <1> HIDE DEF u3
  <1>12. PICK zz \in Nat, yy \in Levels : Play(b, u3) = On("out", yy, Idle(zz), p, a, W)
    BY <1>11 DEF Waits
  <1>13. Ends(p, a, W, Play(b, u6)) /\ u6 \in Seq(0..9)
    BY <1>3, <1>11, <1>12, AfterData
  <1> HIDE DEF u6
  <1> QED BY <1>7, <1>13 DEF T, n, i, a, b, W

\* WAIT and FAULT without a data phase.
LEMMA RefusedNow ==
  ASSUME NEW req, NEW word, NEW p, PlanOk(p), p.ack # OK, ~p.data_phase, data_phase = p.data_phase,
         p.turn = turnaround, Short(turnaround), NEW y \in Levels, NEW e, e = <<>>
  PROVE  /\ SwdRest(req, word, p.ack) \in Seq(0..9)
         /\ Ends(p, p.ack, e,
                 Play(On("in", y, At(Answer(p, req), turnaround + 4, 0), p, p.ack, e), SwdRest(req, word, p.ack)))
  <1> DEFINE T == Answer(p, req)
             n == turnaround
             i == n + 4
             a == p.ack
             s1 == Times(Pulse, n)
             s2 == <<DioOut>>
             b == On("in", y, At(T, i, 0), p, a, e)
  <1>1. T \in Seq(0..3) /\ Len(T) \in Nat /\ n + n + 3 <= Len(T) /\ a \in Seq(Levels)
    BY AnswerStarts
  <1>2. n \in Nat /\ n > 0 /\ Width + 7 + n < ResetBits /\ ResetBits \in Nat /\ Width \in Nat /\ i \in Nat
    BY WireAssumption DEF Short
  <1>3. p.pull \in Levels /\ e \in Seq(Levels)
    BY DEF PlanOk
  <1>4. Len(T) + 1 = i + n /\ \A j \in 1..n : T[i + j - 1] = Skip
    <2> DEFINE X == Exchanged(p, req)
    <2>1. X = <<>> /\ i = p.turn + 4
      BY ExchangedIs
    <2>2. Len(X) = 0
      BY <2>1
    <2> HIDE DEF T, X
    <2>3. /\ Len(T) + 1 = i + n + Len(X)
          /\ RnW(req) => \A j \in 1..n : T[(i + Len(X)) + j - 1] = Skip
          /\ ~RnW(req) => \A j \in 1..n : T[i + j - 1] = Skip
      BY <2>1, AnswerEnds DEF T, X
    <2>4. i + Len(X) = i /\ i + n + Len(X) = i + n
      BY <1>2, <2>2
    <2> QED BY <2>3, <2>4
  <1>5. s1 \in Seq(0..9) /\ s2 \in Seq(0..9)
    <2>1. Pulse \in 0..9
      BY DEF Pulse
    <2> QED BY <1>2, <2>1, TimesMoves, PinsAreMoves
  <1> DEFINE u2 == Cat(s1, s2)
             u3 == Cat(u2, <<Dio(1)>>)
  <1>6. u3 = SwdRest(req, word, a)
    <2>1. SwdRest(req, word, a) = Refused(req) \o <<Dio(1)>>
      <3>1. a # OK /\ a \in {WAIT, FAULT}
        BY DEF PlanOk, Acks
      <3> HIDE DEF a
      <3> QED BY <3>1 DEF SwdRest
    <2>2. Refused(req) = Turnaround \o <<DioOut>>
      BY DEF Refused
    <2> QED BY <2>1, <2>2, Zenon DEF u3, u2, s1, s2, n, Turnaround, Cat
  <1> HIDE DEF T, n, i, a, s1, s2, b
  <1>7. Waits("in", p, a, e, Play(b, s1))
    <2>1. i \in Nat \ {0} /\ i + n = Len(T) + 1 /\ 0 \in Nat /\ 0 + n < ResetBits /\ "in" \in {"in", "out"}
      BY <1>1, <1>2, <1>4 DEF i
    <2> QED BY <1>1, <1>2, <1>3, <1>4, <2>1, LastPulses DEF s1, b
  <1>8. PICK z \in Nat, x \in Levels : Play(b, s1) = On("in", x, Idle(z), p, a, e)
    BY <1>7 DEF Waits
  <1>9. Play(b, u2) = On("out", x, Idle(z), p, a, e) /\ u2 \in Seq(0..9)
    <2>1. Play(b, u2) = Play(Play(b, s1), s2) /\ u2 \in Seq(0..9)
      <3>1. s1 \in Seq(0..9) /\ s2 \in Seq(0..9)
        BY <1>5
      <3> QED BY ONLY <3>1, Then
    <2>2. Play(On("in", x, Idle(z), p, a, e), s2) = On("out", x, Idle(z), p, a, e)
      BY TurnRun DEF s2
    <2> QED BY <1>8, <2>1, <2>2
  <1> HIDE DEF u2
  <1>10. Ends(p, a, e, Play(b, u3)) /\ u3 \in Seq(0..9)
    BY <1>9, Closing
  <1> HIDE DEF u3
  <1> QED BY <1>6, <1>10 DEF T, n, i, a, b

\* WAIT and FAULT to a read, with a data phase.
LEMMA RefusedRead ==
  ASSUME NEW req, RnW(req), NEW word, NEW p, PlanOk(p), p.ack # OK, p.data_phase, data_phase = p.data_phase,
         p.turn = turnaround, Short(turnaround), NEW y \in Levels, NEW e, e = <<>>
  PROVE  /\ SwdRest(req, word, p.ack) \in Seq(0..9)
         /\ Ends(p, p.ack, e,
                 Play(On("in", y, At(Answer(p, req), turnaround + 4, 0), p, p.ack, e), SwdRest(req, word, p.ack)))
  <1> DEFINE T == Answer(p, req)
             n == turnaround
             i == n + 4
             m == Width + 1
             a == p.ack
             s1 == Times(Pulse, m)
             s2 == Times(Pulse, n)
             s3 == <<DioOut>>
             b == On("in", y, At(T, i, 0), p, a, e)
  <1>1. T \in Seq(0..3) /\ Len(T) \in Nat /\ n + n + 3 <= Len(T) /\ a \in Seq(Levels)
    BY AnswerStarts
  <1>2. n \in Nat /\ n > 0 /\ m + 6 + n < ResetBits /\ ResetBits \in Nat /\ m \in Nat \ {0} /\ i \in Nat
    BY WireAssumption DEF Short
  <1>3. p.pull \in Levels /\ e \in Seq(Levels)
    BY DEF PlanOk
  <1>4. /\ Len(T) + 1 = i + n + m
        /\ \A j \in 1..m : T[i + j - 1] = 0
        /\ \A j \in 1..n : T[(i + m) + j - 1] = Skip
    <2> DEFINE X == Times(0, m)
    <2>1. Exchanged(p, req) = X /\ i = p.turn + 4
      BY ExchangedIs
    <2>2. Len(X) = m /\ \A j \in 1..m : X[j] = 0
      <3>1. 0 \in 0..3 /\ m \in Nat
        BY <1>2
      <3> HIDE DEF m
      <3> QED BY <3>1, TimesIs
    <2> HIDE DEF T, X, m
    <2>3. /\ Len(T) + 1 = i + n + Len(X)
          /\ \A j \in 1..Len(X) : T[i + j - 1] = X[j]
          /\ \A j \in 1..n : T[(i + Len(X)) + j - 1] = Skip
      BY <2>1, AnswerEnds DEF T
    <2> QED BY <2>2, <2>3
  <1>5. s1 \in Seq(0..9) /\ s2 \in Seq(0..9) /\ s3 \in Seq(0..9)
    <2>1. Pulse \in 0..9 /\ m \in Nat
      BY <1>2 DEF Pulse
    <2> HIDE DEF m
    <2> QED BY <1>2, <2>1, TimesMoves, PinsAreMoves
  <1> DEFINE u2 == Cat(s1, s2)
             u3 == Cat(u2, s3)
             u4 == Cat(u3, <<Dio(1)>>)
  <1>6. u4 = SwdRest(req, word, a)
    <2>1. SwdRest(req, word, a) = Refused(req) \o <<Dio(1)>>
      <3>1. a # OK /\ a \in {WAIT, FAULT}
        BY DEF PlanOk, Acks
      <3> HIDE DEF a
      <3> QED BY <3>1 DEF SwdRest
    <2>2. Refused(req) = Times(Pulse, Width + 1) \o Turnaround \o <<DioOut>>
      BY DEF Refused
    <2> QED BY <2>1, <2>2, Zenon DEF u4, u3, u2, s1, s2, s3, n, m, Turnaround, Cat
  <1> HIDE DEF T, n, i, a, m, s1, s2, s3, b
  <1>7. PulsesTo(T, i, m, 0, "in", p, a, e, Play(b, s1))
    <2>1. /\ i \in 1..(Len(T) + 1) /\ i + m <= Len(T) + 1 /\ 0 \in Nat
          /\ 0 + m < ResetBits /\ "in" \in {"in", "out"}
      BY <1>1, <1>2, <1>4 DEF i
    <2>2. \A j \in 1..m : T[i + j - 1] # Take /\ ("in" = "out" => T[i + j - 1] \notin Levels)
      BY <1>4 DEF Take
    <2> QED BY <1>1, <1>2, <1>3, <2>1, <2>2, PulseRun DEF s1, b
  <1>8. PICK z \in 0..m, x \in Levels : /\ Play(b, s1) = On("in", x, At(T, i + m, z), p, a, e)
                                        /\ T[i + m - 1] \in Levels => z = 0
    BY <1>2, <1>7 DEF PulsesTo
  <1>9. z = 0
    <2>1. m \in 1..m
      BY <1>2
    <2> QED BY <1>4, <1>8, <2>1 DEF Levels
  <1>10. Waits("in", p, a, e, Play(b, u2)) /\ u2 \in Seq(0..9)
    <2>1. Play(b, u2) = Play(Play(b, s1), s2) /\ u2 \in Seq(0..9)
      <3>1. s1 \in Seq(0..9) /\ s2 \in Seq(0..9)
        BY <1>5
      <3> QED BY ONLY <3>1, Then
    <2> HIDE DEF u2
    <2> DEFINE k == i + m
    <2>2. k \in Nat \ {0} /\ k + n = Len(T) + 1 /\ 0 \in Nat /\ 0 + n < ResetBits /\ "in" \in {"in", "out"}
      BY <1>1, <1>2, <1>4
    <2>3. \A j \in 1..n : T[k + j - 1] = Skip
      BY <1>4
    <2> HIDE DEF k
    <2>4. Waits("in", p, a, e, Play(On("in", x, At(T, k, 0), p, a, e), s2))
      BY <1>1, <1>2, <1>3, <2>2, <2>3, LastPulses DEF s2
    <2> QED BY <1>8, <1>9, <2>1, <2>4 DEF k
  <1> HIDE DEF u2
  <1>11. PICK zz \in Nat, x2 \in Levels : Play(b, u2) = On("in", x2, Idle(zz), p, a, e)
    BY <1>10 DEF Waits
  <1>12. Play(b, u3) = On("out", x2, Idle(zz), p, a, e) /\ u3 \in Seq(0..9)
    <2>1. Play(b, u3) = Play(Play(b, u2), s3) /\ u3 \in Seq(0..9)
      BY <1>5, <1>10, Then
    <2>2. Play(On("in", x2, Idle(zz), p, a, e), s3) = On("out", x2, Idle(zz), p, a, e)
      BY TurnRun DEF s3
    <2> QED BY <1>11, <2>1, <2>2
  <1> HIDE DEF u3
  <1>13. Ends(p, a, e, Play(b, u4)) /\ u4 \in Seq(0..9)
    BY <1>12, Closing
  <1> HIDE DEF u4
  <1> QED BY <1>6, <1>13 DEF T, n, i, a, b

\* WAIT and FAULT to a write, with a data phase.
LEMMA RefusedWrite ==
  ASSUME NEW req, ~RnW(req), NEW word, NEW p, PlanOk(p), p.ack # OK, p.data_phase, data_phase = p.data_phase,
         p.turn = turnaround, Short(turnaround), NEW y \in Levels, NEW e, e = <<>>
  PROVE  /\ SwdRest(req, word, p.ack) \in Seq(0..9)
         /\ Ends(p, p.ack, e,
                 Play(On("in", y, At(Answer(p, req), turnaround + 4, 0), p, p.ack, e), SwdRest(req, word, p.ack)))
  <1> DEFINE T == Answer(p, req)
             n == turnaround
             i == n + 4
             m == Width + 1
             a == p.ack
             s1 == Times(Pulse, n)
             s2 == <<DioOut, Dio(0)>>
             s3 == Times(Pulse, m)
             b == On("in", y, At(T, i, 0), p, a, e)
  <1>1. T \in Seq(0..3) /\ Len(T) \in Nat /\ n + n + 3 <= Len(T) /\ a \in Seq(Levels)
    BY AnswerStarts
  <1>2. n \in Nat /\ n > 0 /\ m + 6 + n < ResetBits /\ ResetBits \in Nat /\ m \in Nat \ {0} /\ i \in Nat
    BY WireAssumption DEF Short
  <1>3. p.pull \in Levels /\ e \in Seq(Levels)
    BY DEF PlanOk
  <1>4. /\ Len(T) + 1 = i + n + m
        /\ \A j \in 1..n : T[i + j - 1] = Skip
        /\ \A j \in 1..m : T[(i + n) + j - 1] = Skip
    <2> DEFINE X == Times(Skip, m)
    <2>1. Exchanged(p, req) = X /\ i = p.turn + 4
      BY ExchangedIs
    <2>2. Len(X) = m /\ \A j \in 1..m : X[j] = Skip
      <3>1. Skip \in 0..3 /\ m \in Nat
        BY <1>2 DEF Skip
      <3> HIDE DEF m
      <3> QED BY <3>1, TimesIs
    <2> HIDE DEF T, X, m
    <2>3. /\ Len(T) + 1 = i + n + Len(X)
          /\ \A j \in 1..n : T[i + j - 1] = Skip
          /\ \A j \in 1..Len(X) : T[(i + n) + j - 1] = X[j]
      BY <2>1, AnswerEnds DEF T
    <2> QED BY <2>2, <2>3
  <1>5. s1 \in Seq(0..9) /\ s3 \in Seq(0..9) /\ s2 = Cat(<<DioOut>>, <<Dio(0)>>) /\ s2 \in Seq(0..9)
    <2>1. Pulse \in 0..9 /\ m \in Nat
      BY <1>2 DEF Pulse
    <2>2. s2 = Cat(<<DioOut>>, <<Dio(0)>>)
      BY DEF Cat
    <2>3. Cat(<<DioOut>>, <<Dio(0)>>) \in Seq(0..9)
      BY PinsAreMoves, Then
    <2> HIDE DEF m
    <2> QED BY <1>2, <2>1, <2>2, <2>3, TimesMoves
  <1> DEFINE u2 == Cat(s1, s2)
             u3 == Cat(u2, s3)
             u4 == Cat(u3, <<Dio(1)>>)
  <1>6. u4 = SwdRest(req, word, a)
    <2>1. SwdRest(req, word, a) = Refused(req) \o <<Dio(1)>>
      <3>1. a # OK /\ a \in {WAIT, FAULT}
        BY DEF PlanOk, Acks
      <3> HIDE DEF a
      <3> QED BY <3>1 DEF SwdRest
    <2>2. Refused(req) = Turnaround \o <<DioOut, Dio(0)>> \o Times(Pulse, Width + 1)
      BY DEF Refused
    <2> QED BY <2>1, <2>2, Zenon DEF u4, u3, u2, s1, s2, s3, n, m, Turnaround, Cat
  <1> HIDE DEF T, n, i, a, m, s1, s2, s3, b
  <1>7. PulsesTo(T, i, n, 0, "in", p, a, e, Play(b, s1))
    <2>1. /\ i \in 1..(Len(T) + 1) /\ i + n <= Len(T) + 1 /\ 0 \in Nat
          /\ 0 + n < ResetBits /\ "in" \in {"in", "out"}
      BY <1>1, <1>2, <1>4 DEF i
    <2>2. \A j \in 1..n : T[i + j - 1] # Take /\ ("in" = "out" => T[i + j - 1] \notin Levels)
      BY <1>4 DEF Skip, Take
    <2> QED BY <1>1, <1>2, <1>3, <2>1, <2>2, PulseRun DEF s1, b
  <1>8. PICK z \in 0..n, x \in Levels : Play(b, s1) = On("in", x, At(T, i + n, z), p, a, e)
    BY <1>2, <1>7 DEF PulsesTo
  <1>9. Play(b, u2) = On("out", 0, At(T, i + n, z), p, a, e) /\ u2 \in Seq(0..9)
    <2>1. Play(b, u2) = Play(Play(b, s1), s2) /\ u2 \in Seq(0..9)
      <3>1. s1 \in Seq(0..9) /\ s2 \in Seq(0..9)
        BY <1>5
      <3> QED BY ONLY <3>1, Then
    <2> DEFINE c == On("in", x, At(T, i + n, z), p, a, e)
               d == On("out", x, At(T, i + n, z), p, a, e)
               s == <<DioOut>>
               t == <<Dio(0)>>
    <2>2. Play(c, s) = d
      BY TurnRun
    <2>3. Play(d, t) = On("out", 0, At(T, i + n, z), p, a, e)
      <3>1. 0 \in Levels
        BY DEF Levels
      <3> QED BY <3>1, DioRun
    <2>4. s \in Seq(0..9) /\ t \in Seq(0..9) /\ s2 = Cat(s, t)
      BY <1>5, PinsAreMoves
    <2> HIDE DEF s, t, c, d
    <2>5. Play(c, Cat(s, t)) = Play(Play(c, s), t)
      BY <2>4, Then
    <2>6. Play(c, s2) = On("out", 0, At(T, i + n, z), p, a, e)
      BY <2>2, <2>3, <2>4, <2>5
    <2> QED BY <1>8, <2>1, <2>6 DEF c
  <1> HIDE DEF u2
  <1>10. Waits("out", p, a, e, Play(b, u3)) /\ u3 \in Seq(0..9)
    <2>1. Play(b, u3) = Play(Play(b, u2), s3) /\ u3 \in Seq(0..9)
      BY <1>5, <1>9, Then
    <2> HIDE DEF u3
    <2> DEFINE k == i + n
    <2>2. k \in Nat \ {0} /\ k + m = Len(T) + 1 /\ z \in Nat /\ z + m < ResetBits /\ "out" \in {"in", "out"} /\ 0 \in Levels
      BY <1>1, <1>2, <1>4 DEF Levels
    <2>3. \A j \in 1..m : T[k + j - 1] = Skip
      BY <1>4
    <2> HIDE DEF k
    <2>4. Waits("out", p, a, e, Play(On("out", 0, At(T, k, z), p, a, e), s3))
      BY <1>1, <1>2, <1>3, <2>2, <2>3, LastPulses DEF s3
    <2> QED BY <1>9, <2>1, <2>4 DEF k
  <1> HIDE DEF u3
  <1>11. PICK zz \in Nat, x2 \in Levels : Play(b, u3) = On("out", x2, Idle(zz), p, a, e)
    BY <1>10 DEF Waits
  <1>12. Ends(p, a, e, Play(b, u4)) /\ u4 \in Seq(0..9)
    BY <1>10, <1>11, Closing
  <1> HIDE DEF u4
  <1> QED BY <1>6, <1>12 DEF T, n, i, a, b
-----------------------------------------------------------------------------
(* What comes of a transfer. *)

\* The bus of a command that begins in step.
LEMMA BusIs ==
  ASSUME NEW p, NEW o, clk = 1, tgt = Idle(o)
  PROVE  Bus(p) = On(dir, level, Idle(o), p, <<>>, <<>>)
  BY DEF Bus, On, High, Never

\* The acknowledge and the word found in what a read has read.
LEMMA WordRead ==
  ASSUME NEW p, PlanOk(p), NEW r, r = Cat(p.ack, Sent(p))
  PROVE  /\ Len(r) = Width + 4
         /\ SubSeq(r, 4, Width + 3) = p.word
         /\ r[Width + 4] = Parity(p.word) <=> p.noise = 0
  <1> DEFINE a == p.ack
             W == Sent(p)
             w == p.word
             u == Cat(a, W)
             s == SubSeq(r, 4, Width + 3)
  <1>1. a \in Seq(Levels) /\ Len(a) = 3
    BY AcksAre DEF PlanOk
  <1>2. W \in Seq(Levels) /\ Len(W) = Width + 1 /\ (\A i \in 1..Width : W[i] = w[i])
        /\ (W[Width + 1] = Parity(w) <=> p.noise = 0)
    BY SentIs
  <1>3. w \in Seq(Levels) /\ Len(w) = Width /\ Width \in Nat
    BY WireAssumption DEF PlanOk
  <1> HIDE DEF a, W, w
  <1>4. u \in Seq(Levels) /\ IsCat(u, a, W)
    BY <1>1, <1>2, CatIs
  <1>5. r = u
    BY DEF u, a, W
  <1> HIDE DEF u
  <1>6. /\ Len(u) = Width + 4 /\ u[Width + 4] = W[Width + 1]
        /\ \A i \in 1..Width : u[3 + i] = W[i]
    <2>1. Len(u) = 3 + (Width + 1) /\ \A i \in 1..(Width + 1) : u[3 + i] = W[i]
      BY <1>1, <1>2, <1>4 DEF IsCat
    <2>2. 3 + (Width + 1) = Width + 4 /\ Width + 1 \in 1..(Width + 1)
      BY <1>3
    <2>3. u[3 + (Width + 1)] = W[Width + 1]
      BY <2>1, <2>2
    <2>4. ASSUME NEW i \in 1..Width PROVE u[3 + i] = W[i]
      <3>1. i \in 1..(Width + 1)
        BY <1>3
      <3> QED BY <2>1, <3>1
    <2> QED BY <2>1, <2>2, <2>3, <2>4
  <1>7. s \in Seq(Levels) /\ Len(s) = Width /\ \A i \in 1..Width : s[i] = u[3 + i]
    <2>1. ASSUME NEW i \in 4..(Width + 3) PROVE u[i] \in Levels
      <3>1. i \in 1..Len(u)
        BY <1>3, <1>6
      <3> QED BY <1>4, <3>1
    <2> DEFINE v == SubSeq(u, 4, Width + 3)
               k == Width + 3
    <2>2. k \in Int /\ 4 \in Int
      BY <1>3
    <2> HIDE DEF k
    <2>3. /\ SubSeq(u, 4, k) \in Seq(Levels)
          /\ Len(SubSeq(u, 4, k)) = IF 4 <= k THEN k - 4 + 1 ELSE 0
          /\ \A i \in 1..(k - 4 + 1) : SubSeq(u, 4, k)[i] = u[4 + i - 1]
      BY <2>1, <2>2, SubSeqProperties DEF k
    <2>4. s = SubSeq(u, 4, k)
      BY <1>5 DEF k
    <2> DEFINE x == SubSeq(u, 4, k)
    <2> HIDE DEF s, x
    <2>5. x \in Seq(Levels) /\ Len(x) = Width /\ \A i \in 1..Width : x[i] = u[4 + i - 1]
      BY <1>3, <2>3 DEF k, x
    <2>6. \A i \in 1..Width : x[i] = u[3 + i]
      <3> TAKE i \in 1..Width
      <3>1. 4 + i - 1 = 3 + i
        OBVIOUS
      <3> QED BY <2>5, <3>1
    <2> QED BY <2>4, <2>5, <2>6 DEF x
  <1> HIDE DEF s
  <1>8. s = w
    <2>1. \A i \in 1..Len(s) : s[i] = w[i]
      BY <1>2, <1>6, <1>7
    <2> QED BY <1>3, <1>7, <2>1, SeqEqual
  <1> QED BY <1>2, <1>5, <1>6, <1>8 DEF s, w

\* What is known of a transfer that begins in step.
Result(bus, ack, word, req, p) ==
    /\ bus.dir = "out" /\ bus.clk = 1 /\ bus.tgt.state = "idle" /\ bus.clash = Never /\ bus.plan = p
    /\ ack = IF p.ack = OK /\ RnW(req) /\ p.noise = 1 THEN ERROR ELSE p.ack
    /\ ack = OK /\ RnW(req) => word = p.word
    /\ bus.taken = IF p.ack = OK /\ ~RnW(req) THEN Framed(word, Parity(word)) ELSE <<>>

LEMMA EndsIs ==
  ASSUME NEW p, NEW r, NEW k, NEW b, Ends(p, r, k, b)
  PROVE  b.dir = "out" /\ b.clk = 1 /\ b.tgt.state = "idle" /\ b.clash = Never /\ b.plan = p
         /\ b.read = r /\ b.taken = k
  <1>1. PICK z \in Nat : b = On("out", 1, Idle(z), p, r, k)
    BY DEF Ends
  <1>2. Idle(z).state = "idle"
    BY IdleFields
  <1> DEFINE t == Idle(z)
  <1> HIDE DEF t
  <1>3. LET c == On("out", 1, t, p, r, k)
        IN /\ c.dir = "out" /\ c.clk = 1 /\ c.tgt = t /\ c.plan = p /\ c.read = r /\ c.taken = k
           /\ c.clash = Never
    BY Fields, NoClash
  <1> QED BY <1>1, <1>2, <1>3 DEF t

\* What dap_swd_operation returns, from what it has read.
WordOf(r) == SubSeq(r, 4, Width + 3)
ReturnedAck(r, ack) == IF Len(r) > 3 /\ r[Width + 4] # Parity(WordOf(r)) THEN ERROR ELSE ack
ReturnedWord(r, word) == IF Len(r) > 3 THEN WordOf(r) ELSE word

LEMMA OperationIs ==
  ASSUME NEW req, NEW word, NEW p, NEW ack, NEW asked, asked = Play(Bus(p), Ask(req)), asked.read = ack,
         NEW done, done = Play(asked, SwdRest(req, word, ack))
  PROVE  /\ SwdOperation(req, word, p).bus = done
         /\ SwdOperation(req, word, p).ack = ReturnedAck(done.read, ack)
         /\ SwdOperation(req, word, p).word = ReturnedWord(done.read, word)
  BY DEF SwdOperation, ReturnedAck, ReturnedWord, WordOf

\* A transfer that begins in step has the result it should have.
LEMMA TransferResult ==
  ASSUME NEW req \in [1..4 -> Levels], NEW word \in [1..Width -> Levels], NEW p, PlanOk(p),
         p.noise = 1 => p.ack = OK,
         p.turn = turnaround, p.data_phase = data_phase, Short(turnaround), idle_cycles \in Nat,
         NEW o \in Nat, o + 6 < ResetBits, clk = 1, tgt = Idle(o), dir = "out", level \in Levels
  PROVE  LET r == SwdOperation(req, word, p)
         IN Result(r.bus, r.ack, r.word, req, p)
  <1> DEFINE e == <<>>
             a == p.ack
             S == SwdOperation(req, word, p)
             c == Play(Bus(p), Ask(req))
             d == Play(c, SwdRest(req, word, a))
             F == Framed(word, Parity(word))
             R == Cat(a, Sent(p))
  <1> HIDE DEF e, S, c, d, F, R
  <1>1. Bus(p) = On("out", level, Idle(o), p, e, e)
    BY BusIs DEF e
  <1>2. PICK y \in Levels : c = On("in", y, At(Answer(p, req), turnaround + 4, 0), p, a, e)
    <2>1. e = <<>>
      BY DEF e
    <2>2. \E y \in Levels : Play(On("out", level, Idle(o), p, e, e), Ask(req))
                             = On("in", y, At(Answer(p, req), turnaround + 4, 0), p, p.ack, e)
      BY <2>1, AskRun
    <2> QED BY <1>1, <2>2 DEF c
  <1>3. c.read = a
    <2> DEFINE t == At(Answer(p, req), turnaround + 4, 0)
    <2> HIDE DEF t
    <2>1. On("in", y, t, p, a, e).read = a
      BY Fields
    <2> QED BY <1>2, <2>1 DEF t
  <1>4. S.bus = d /\ S.ack = ReturnedAck(d.read, a) /\ S.word = ReturnedWord(d.read, word)
    <2>1. c = Play(Bus(p), Ask(req)) /\ d = Play(c, SwdRest(req, word, a))
      BY DEF c, d
    <2> HIDE DEF a
    <2> QED BY <1>3, <2>1, OperationIs DEF S
  <1>5. a \in Acks /\ Len(a) = 3 /\ p.noise \in {0, 1} /\ p.data_phase \in BOOLEAN
    BY AcksAre DEF PlanOk, Levels
  <1>6. CASE a = OK /\ RnW(req)
    <2>1. Ends(p, R, e, d)
      <3>1. e = <<>>
        BY DEF e
      <3> QED BY <1>2, <1>6, <3>1, ReadRest DEF d, R
    <2>2. d.dir = "out" /\ d.clk = 1 /\ d.tgt.state = "idle" /\ d.clash = Never /\ d.plan = p
          /\ d.read = R /\ d.taken = e
      BY <2>1, EndsIs
    <2>3. Len(R) = Width + 4 /\ WordOf(R) = p.word /\ (R[Width + 4] = Parity(p.word) <=> p.noise = 0)
      BY WordRead DEF R, WordOf
    <2>4. Len(R) > 3
      BY <2>3, WireAssumption
    <2>5. ReturnedWord(R, word) = p.word /\ ReturnedAck(R, a) = IF p.noise = 1 THEN ERROR ELSE a
      BY <1>5, <2>3, <2>4 DEF ReturnedWord, ReturnedAck
    <2>6. S.ack = (IF p.noise = 1 THEN ERROR ELSE a) /\ S.word = p.word
      BY <1>4, <2>2, <2>5
    <2> QED BY <1>4, <1>6, <2>2, <2>6 DEF Result, S, e
  <1>7. ASSUME ~(a = OK /\ RnW(req)), NEW k, k = IF a = OK THEN F ELSE e, Ends(p, a, k, d)
        PROVE  Result(S.bus, S.ack, S.word, req, p)
    <2>1. d.dir = "out" /\ d.clk = 1 /\ d.tgt.state = "idle" /\ d.clash = Never /\ d.plan = p
          /\ d.read = a /\ d.taken = k
      BY <1>7, EndsIs
    <2>2. ReturnedWord(a, word) = word /\ ReturnedAck(a, a) = a
      BY <1>5 DEF ReturnedWord, ReturnedAck
    <2>3. S.ack = a /\ S.word = word
      BY <1>4, <2>1, <2>2
    <2>4. S.bus.taken = IF a = OK /\ ~RnW(req) THEN Framed(S.word, Parity(S.word)) ELSE <<>>
      <3>1. S.bus.taken = k
        BY <1>4, <2>1
      <3>2. CASE a = OK
        BY <1>7, <2>3, <3>1, <3>2 DEF F
      <3>3. CASE a # OK
        BY <1>7, <3>1, <3>3 DEF e
      <3> QED BY <3>2, <3>3
    <2>5. S.ack = IF a = OK /\ RnW(req) /\ p.noise = 1 THEN ERROR ELSE a
      BY <1>7, <2>3
    <2>6. ~(S.ack = OK /\ RnW(req))
      BY <1>7, <2>3
    <2> HIDE DEF a
    <2>7. S.bus.dir = "out" /\ S.bus.clk = 1 /\ S.bus.tgt.state = "idle" /\ S.bus.clash = Never /\ S.bus.plan = p
      BY <1>4, <2>1
    <2> QED BY <2>4, <2>5, <2>6, <2>7 DEF Result, a
  <1>8. CASE a = OK /\ ~RnW(req)
    <2>1. Ends(p, a, F, d)
      <3>1. e = <<>>
        BY DEF e
      <3> QED BY <1>2, <1>8, <3>1, WriteRest DEF d, F
    <2> QED BY <1>7, <1>8, <2>1 DEF S
  <1>9. CASE a # OK
    <2>1. Ends(p, a, e, d)
      <3>1. e = <<>>
        BY DEF e
      <3>2. CASE ~p.data_phase
        BY <1>2, <1>9, <3>1, <3>2, RefusedNow DEF d
      <3>3. CASE p.data_phase /\ RnW(req)
        BY <1>2, <1>9, <3>1, <3>3, RefusedRead DEF d
      <3>4. CASE p.data_phase /\ ~RnW(req)
        BY <1>2, <1>9, <3>1, <3>4, RefusedWrite DEF d
      <3> QED BY <1>5, <3>2, <3>3, <3>4
    <2> QED BY <1>7, <1>9, <2>1 DEF S
  <1> QED BY <1>6, <1>8, <1>9
-----------------------------------------------------------------------------
(* A read that the host clocks itself. *)

LEMMA TimesBoth ==
  ASSUME NEW v \in 0..9, NEW m \in Nat, NEW n \in Nat
  PROVE  Times(v, m + n) = Cat(Times(v, m), Times(v, n))
  <1> DEFINE a == Times(v, m)
             b == Times(v, n)
             c == Times(v, m + n)
             u == Cat(a, b)
  <1>1. /\ a \in Seq(0..9) /\ Len(a) = m /\ (\A i \in 1..m : a[i] = v)
        /\ b \in Seq(0..9) /\ Len(b) = n /\ (\A i \in 1..n : b[i] = v)
    BY TimesIs
  <1>2. c \in Seq(0..9) /\ Len(c) = m + n /\ (\A i \in 1..(m + n) : c[i] = v)
    <2>1. m + n \in Nat
      OBVIOUS
    <2> QED BY <2>1, TimesIs
  <1> HIDE DEF a, b, c
  <1>3. u \in Seq(0..9) /\ IsCat(u, a, b)
    BY <1>1, CatIs
  <1> HIDE DEF u
  <1>4. ASSUME NEW i \in 1..(m + n) PROVE u[i] = v
    <2>1. CASE i <= m
      BY <1>1, <1>3, <2>1 DEF IsCat
    <2>2. CASE i > m
      <3>1. i - m \in 1..n /\ m + (i - m) = i
        BY <2>2
      <3> QED BY <1>1, <1>3, <3>1 DEF IsCat
    <2> QED BY <2>1, <2>2
  <1>5. Len(u) = m + n
    BY <1>1, <1>3 DEF IsCat
  <1>6. c = u
    BY <1>2, <1>3, <1>4, <1>5, SeqEqual
  <1> QED BY <1>6 DEF a, b, c, u

\* What a read finds behind a turnaround: the acknowledge, and the word.
ReadApart(w, a, W, x, n, word) ==
    /\ SubSeq(Cat(Cat(Cat(w, a), W), x), n + 1, n + 3) = a
    /\ SubSeq(Cat(Cat(Cat(w, a), W), x), n + 4, n + 3 + Width) = word

LEMMA PartsRead ==
  ASSUME NEW w \in Seq(Levels), NEW a \in Seq(Levels), NEW W \in Seq(Levels), NEW x \in Seq(Levels),
         NEW n \in Nat, Len(w) = n, Len(a) = 3, Len(W) = Width + 1,
         NEW word \in Seq(Levels), Len(word) = Width, \A i \in 1..Width : W[i] = word[i]
  PROVE  ReadApart(w, a, W, x, n, word)
  <1> DEFINE u == Cat(w, a)
             v == Cat(u, W)
             r == Cat(v, x)
  <1>1. Width \in Nat /\ Len(x) \in Nat
    BY WireAssumption
  <1>2. u \in Seq(Levels) /\ IsCat(u, w, a)
    BY CatIs
  <1> HIDE DEF u
  <1>3. v \in Seq(Levels) /\ IsCat(v, u, W)
    BY <1>2, CatIs
  <1> HIDE DEF v
  <1>4. r \in Seq(Levels) /\ IsCat(r, v, x)
    BY <1>3, CatIs
  <1> HIDE DEF r
  <1>5. Len(u) = n + 3 /\ Len(v) = n + Width + 4 /\ Len(r) = n + Width + 4 + Len(x)
    BY <1>1, <1>2, <1>3, <1>4 DEF IsCat
  <1>6. \A i \in 1..3 : r[n + i] = a[i]
    <2> TAKE i \in 1..3
    <2>1. n + i \in 1..Len(u) /\ n + i \in 1..Len(v)
      BY <1>1, <1>5
    <2> QED BY <1>2, <1>3, <1>4, <2>1 DEF IsCat
  <1>7. \A i \in 1..Width : r[n + 3 + i] = word[i]
    <2> TAKE i \in 1..Width
    <2>1. n + 3 + i \in 1..Len(v) /\ i \in 1..Len(W) /\ Len(u) + i = n + 3 + i
      BY <1>1, <1>5
    <2>2. r[n + 3 + i] = v[n + 3 + i] /\ v[Len(u) + i] = W[i]
      BY <1>3, <1>4, <2>1 DEF IsCat
    <2> QED BY <2>1, <2>2
  <1>8. ASSUME NEW m \in Nat, NEW k \in Nat, m + k <= Len(r), NEW s \in Seq(Levels), Len(s) = k,
               \A i \in 1..k : r[m + i] = s[i]
        PROVE  SubSeq(r, m + 1, m + k) = s
    <2>1. ASSUME NEW i \in (m + 1)..(m + k) PROVE r[i] \in Levels
      <3>1. i \in 1..Len(r)
        BY <1>1, <1>5, <1>8
      <3> QED BY <1>4, <3>1
    <2> DEFINE f == m + 1
               g == m + k
    <2>2. f \in Int /\ g \in Int /\ g - f + 1 = k /\ (f <= g <=> k > 0)
      OBVIOUS
    <2> HIDE DEF f, g
    <2>3. /\ SubSeq(r, f, g) \in Seq(Levels)
          /\ Len(SubSeq(r, f, g)) = IF f <= g THEN g - f + 1 ELSE 0
          /\ \A i \in 1..(g - f + 1) : SubSeq(r, f, g)[i] = r[f + i - 1]
      BY <2>1, <2>2, SubSeqProperties DEF f, g
    <2> DEFINE y == SubSeq(r, f, g)
    <2> HIDE DEF y
    <2>4. y \in Seq(Levels) /\ Len(y) = k /\ \A i \in 1..k : y[i] = r[f + i - 1]
      BY <2>2, <2>3 DEF y
    <2>5. \A i \in 1..k : y[i] = s[i]
      <3> TAKE i \in 1..k
      <3>1. f + i - 1 = m + i
        BY DEF f
      <3> QED BY <1>8, <2>4, <3>1
    <2>6. y = s
      BY <1>8, <2>4, <2>5, SeqEqual
    <2> QED BY <2>6 DEF y, f, g
  <1>9. SubSeq(r, n + 1, n + 3) = a
    <2>1. n + 3 <= Len(r)
      BY <1>1, <1>5
    <2> QED BY <1>6, <1>8, <2>1
  <1>10. SubSeq(r, n + 4, n + 3 + Width) = word
    <2>1. n + 3 \in Nat /\ n + 3 + Width <= Len(r) /\ (n + 3) + 1 = n + 4
      BY <1>1, <1>5
    <2>2. SubSeq(r, (n + 3) + 1, (n + 3) + Width) = word
      BY <1>1, <1>7, <1>8, <2>1
    <2> QED BY <2>1, <2>2
  <1> QED BY ONLY <1>9, <1>10, Zenon DEF ReadApart, r, v, u

\* The clocks of dap_swd_sequence for a read.
ReadSequence(req, n) == <<DioOut>> \o Header(req) \o <<DioIn>>
                        \o Times(Sample, n + 3 + Width + 1 + n) \o <<DioOut>>

LEMMA SequenceResult ==
  ASSUME NEW req \in [1..4 -> Levels], RnW(req), NEW p, PlanOk(p), p.ack = OK,
         NEW n, n = p.turn, Short(n),
         NEW o \in Nat, o + 6 < ResetBits, clk = 1, tgt = Idle(o), dir \in {"in", "out"}, level \in Levels
  PROVE  LET got == Play(Bus(p), ReadSequence(req, n))
         IN /\ got.dir = "out" /\ got.clk = 1 /\ got.tgt.state = "idle" /\ got.clash = Never /\ got.plan = p
            /\ SubSeq(got.read, n + 1, n + 3) = OK
            /\ SubSeq(got.read, n + 4, n + 3 + Width) = p.word
  <1> DEFINE T == Answer(p, req)
             i == n + 4
             W == Sent(p)
             a == p.ack
             e == <<>>
             H == Header(req)
             s1 == <<DioOut>>
             s2 == <<DioIn>>
             t1 == Times(Sample, n)
             t2 == Times(Sample, 3)
             t3 == Times(Sample, Width + 1)
             b == Bus(p)
  <1>1. /\ T \in Seq(0..3) /\ Len(T) \in Nat /\ n + n + 3 <= Len(T)
        /\ \A j \in 1..n : T[1 + j - 1] = Skip
        /\ a \in Seq(Levels) /\ Len(a) = 3
        /\ \A j \in 1..3 : T[(n + 1) + j - 1] = a[j]
    BY AnswerStarts
  <1>2. n \in Nat /\ n > 0 /\ Width + 7 + n < ResetBits /\ ResetBits \in Nat /\ Width \in Nat /\ i \in Nat
    BY WireAssumption DEF Short
  <1>3. p.pull \in Levels /\ e \in Seq(Levels)
    BY DEF PlanOk
  <1>4. W \in Seq(Levels) /\ Len(W) = Width + 1 /\ (\A j \in 1..Width : W[j] = p.word[j])
        /\ p.word \in Seq(Levels) /\ Len(p.word) = Width
    <2>1. W \in Seq(Levels) /\ Len(W) = Width + 1 /\ \A j \in 1..Width : W[j] = p.word[j]
      BY SentIs
    <2>2. p.word \in [1..Width -> Levels] /\ 1 \in Levels
      BY DEF PlanOk, Levels
    <2> QED BY <2>1, <2>2, FramedIs
  <1>5. /\ Len(T) + 1 = i + n + Len(W)
        /\ \A j \in 1..Len(W) : T[i + j - 1] = W[j]
        /\ \A j \in 1..n : T[(i + Len(W)) + j - 1] = Skip
    <2>1. Exchanged(p, req) = W /\ i = p.turn + 4
      BY ExchangedIs
    <2> HIDE DEF T, W
    <2> QED BY <2>1, AnswerEnds DEF T
  <1>6. /\ s1 \in Seq(0..9) /\ s2 \in Seq(0..9) /\ H \in Seq(0..9)
        /\ t1 \in Seq(0..9) /\ t2 \in Seq(0..9) /\ t3 \in Seq(0..9)
    <2>1. Sample \in 0..9 /\ Width + 1 \in Nat /\ 3 \in Nat /\ Levels \subseteq 0..9
      BY <1>2 DEF Sample, Levels
    <2>2. H \in Seq(0..9)
      <3>1. H \in Seq(Levels)
        BY HeaderIs
      <3> HIDE DEF H
      <3> QED BY <2>1, <3>1, SeqMonotonic
    <2> HIDE DEF H
    <2> QED BY <1>2, <2>1, <2>2, TimesMoves, PinsAreMoves
  <1> DEFINE u1 == Cat(s1, H)
             u2 == Cat(u1, s2)
             t4 == Cat(t1, t2)
             t5 == Cat(t4, t3)
             t6 == Cat(t5, t1)
             u3 == Cat(u2, t6)
             u4 == Cat(u3, s1)
  <1>7. u4 = ReadSequence(req, n)
    <2>1. Times(Sample, n + 3 + Width + 1 + n) = t6
      <3>1. Sample \in 0..9 /\ 3 \in Nat /\ n + 3 \in Nat /\ Width + 1 \in Nat /\ n + 3 + (Width + 1) \in Nat
            /\ n + 3 + Width + 1 + n = (n + 3 + (Width + 1)) + n
        BY <1>2 DEF Sample
      <3>2. Times(Sample, (n + 3 + (Width + 1)) + n) = Cat(Times(Sample, n + 3 + (Width + 1)), Times(Sample, n))
        BY <1>2, <3>1, TimesBoth
      <3>3. Times(Sample, (n + 3) + (Width + 1)) = Cat(Times(Sample, n + 3), Times(Sample, Width + 1))
        BY <3>1, TimesBoth
      <3>4. Times(Sample, n + 3) = Cat(Times(Sample, n), Times(Sample, 3))
        BY <1>2, <3>1, TimesBoth
      <3> QED BY <3>1, <3>2, <3>3, <3>4
    <2> HIDE DEF t6
    <2> QED BY <2>1, Zenon DEF u4, u3, u2, u1, s1, s2, H, ReadSequence, Cat
  <1>8. Bus(p) = On(dir, level, Idle(o), p, e, e)
    BY BusIs
  <1>9. Play(On("out", level, Idle(o), p, e, e), H) = On("out", 1, At(T, 1, 1), p, e, e)
    <2>1. Play(On("out", level, Idle(o), p, e, e), H) = On("out", 1, Rest(T, 1), p, e, e)
      <3> HIDE DEF e
      <3> QED BY <1>3, Request
    <2>2. At(T, 1, 1) = Rest(T, 1)
      <3> HIDE DEF T
      <3>1. SubSeq(T, 1, Len(T)) = T
        BY <1>1, SubSeqFull
      <3>2. ~(1 > Len(T))
        BY <1>1, <1>2
      <3> QED BY <3>1, <3>2 DEF At
    <2> QED BY <2>1, <2>2
  <1>p. i = n + 4 /\ n + 4 \in Nat
    BY <1>2 DEF i
  <1> HIDE DEF T, i, W, a, e, H, s1, s2, t1, t2, t3, b
  <1>n. /\ n \in Nat /\ n > 0 /\ Width \in Nat /\ ResetBits \in Nat /\ Width + 7 + n < ResetBits
        /\ Len(T) \in Nat /\ Len(W) = Width + 1 /\ Len(a) = 3
        /\ Len(T) + 1 = i + n + Len(W) /\ i = n + 4
    <2>1. Len(T) \in Nat /\ Len(a) = 3
      BY <1>1
    <2>2. n \in Nat /\ n > 0 /\ Width \in Nat /\ ResetBits \in Nat /\ Width + 7 + n < ResetBits
      BY <1>2
    <2>3. Len(W) = Width + 1
      BY <1>4
    <2>4. Len(T) + 1 = i + n + Len(W)
      BY <1>5
    <2> QED BY ONLY <2>1, <2>2, <2>3, <2>4, <1>p
  <1>10. Play(b, u1) = On("out", 1, At(T, 1, 1), p, e, e) /\ u1 \in Seq(0..9)
    <2>1. Play(b, u1) = Play(Play(b, s1), H) /\ u1 \in Seq(0..9)
      <3>1. s1 \in Seq(0..9) /\ H \in Seq(0..9)
        BY <1>6
      <3> QED BY ONLY <3>1, Then
    <2>2. Play(b, s1) = On("out", level, Idle(o), p, e, e)
      BY <1>8, TurnRun DEF b, s1
    <2> QED BY <1>9, <2>1, <2>2
  <1> HIDE DEF u1
  <1>11. Play(b, u2) = On("in", 1, At(T, 1, 1), p, e, e) /\ u2 \in Seq(0..9)
    <2>1. Play(b, u2) = Play(Play(b, u1), s2) /\ u2 \in Seq(0..9)
      BY <1>6, <1>10, Then
    <2>2. Play(On("out", 1, At(T, 1, 1), p, e, e), s2) = On("in", 1, At(T, 1, 1), p, e, e)
      BY TurnRun DEF s2
    <2> QED BY <1>10, <2>1, <2>2
  <1> HIDE DEF u2
  <1> DEFINE c == On("in", 1, At(T, 1, 1), p, e, e)
  <1>12. PICK w \in Seq(Levels), z \in 0..(1 + n), y \in Levels :
            Play(c, t1) = On("in", y, At(T, n + 1, z), p, w, e) /\ Len(w) = n
    <2>1. /\ 1 \in 1..(Len(T) + 1) /\ 1 + n <= Len(T) + 1 /\ 1 \in Nat /\ 1 + n < ResetBits /\ 1 \in Levels
      BY ONLY <1>n DEF Levels
    <2>2. \A j \in 1..n : T[1 + j - 1] # Take
      BY <1>1 DEF Skip, Take
    <2> DEFINE f == Play(c, t1)
    <2>3. SamplesTo(T, 1, n, 1, p, e, e, f)
      BY <1>1, <1>2, <1>3, <2>1, <2>2, SampleRun DEF t1
    <2> HIDE DEF f
    <2>4. PICK w \in Seq(Levels), z \in 0..(1 + n), y \in Levels :
             f = On("in", y, At(T, 1 + n, z), p, Cat(e, w), e) /\ Len(w) = n
      BY <2>3 DEF SamplesTo
    <2>5. Cat(e, w) = w /\ 1 + n = n + 1
      <3>1. Cat(e, w) = w
        BY ConcatEmptySeq DEF Cat, e
      <3> QED BY <1>2, <3>1
    <2> QED BY <2>4, <2>5 DEF f
  <1> HIDE DEF c
  <1> DEFINE r4 == Cat(w, a)
             r5 == Cat(r4, W)
  <1>13. PICK y4 \in Levels : Play(c, t4) = On("in", y4, At(T, i, 0), p, r4, e) /\ t4 \in Seq(0..9)
    <2>1. Play(c, t4) = Play(Play(c, t1), t2) /\ t4 \in Seq(0..9)
      <3>1. t1 \in Seq(0..9) /\ t2 \in Seq(0..9)
        BY <1>6
      <3> QED BY ONLY <3>1, Then
    <2>2. /\ n + 1 \in 1..(Len(T) + 1) /\ (n + 1) + Len(a) <= Len(T) + 1 /\ z \in Nat
          /\ z + Len(a) < ResetBits /\ Len(a) > 0
      <3>1. z \in 0..(1 + n)
        BY <1>12
      <3> QED BY ONLY <1>n, <3>1
    <2>3. \A j \in 1..Len(a) : T[(n + 1) + j - 1] = a[j]
      BY <1>1
    <2> DEFINE f == Play(On("in", y, At(T, n + 1, z), p, w, e), Times(Sample, Len(a)))
    <2>4. ReadsTo(T, n + 1, a, p, w, e, f)
      BY <1>1, <1>3, <2>2, <2>3, ReadRun
    <2>5. f = Play(c, t4)
      BY <1>1, <1>12, <2>1 DEF t2
    <2>6. (n + 1) + Len(a) = i
      BY <1>1, <1>2 DEF i
    <2> HIDE DEF f, t4
    <2> QED BY <2>1, <2>4, <2>5, <2>6 DEF ReadsTo
  <1> HIDE DEF t4
  <1>14. r4 \in Seq(Levels)
    BY <1>1, CatIs
  <1> HIDE DEF r4
  <1>15. PICK y5 \in Levels : Play(c, t5) = On("in", y5, At(T, i + Len(W), 0), p, r5, e) /\ t5 \in Seq(0..9)
    <2>1. Play(c, t5) = Play(Play(c, t4), t3) /\ t5 \in Seq(0..9)
      BY <1>6, <1>13, Then
    <2>2. /\ i \in 1..(Len(T) + 1) /\ i + Len(W) <= Len(T) + 1 /\ 0 \in Nat
          /\ 0 + Len(W) < ResetBits /\ Len(W) > 0
      BY ONLY <1>n
    <2> DEFINE f == Play(On("in", y4, At(T, i, 0), p, r4, e), Times(Sample, Len(W)))
    <2>3. ReadsTo(T, i, W, p, r4, e, f)
      BY <1>1, <1>3, <1>4, <1>5, <1>14, <2>2, ReadRun
    <2>4. f = Play(c, t5)
      BY <1>4, <1>13, <2>1 DEF t3
    <2> HIDE DEF f, t5
    <2> QED BY <2>1, <2>3, <2>4 DEF ReadsTo
  <1> HIDE DEF t5
  <1>16. r5 \in Seq(Levels)
    BY <1>4, <1>14, CatIs
  <1> HIDE DEF r5
  <1>17. PICK x \in Seq(Levels), q \in Nat, y6 \in Levels :
            Play(c, t6) = On("in", y6, Idle(q), p, Cat(r5, x), e) /\ t6 \in Seq(0..9)
    <2>1. Play(c, t6) = Play(Play(c, t5), t1) /\ t6 \in Seq(0..9)
      BY <1>6, <1>15, Then
    <2> DEFINE k == i + Len(W)
               f == Play(On("in", y5, At(T, k, 0), p, r5, e), t1)
    <2>2. /\ k \in 1..(Len(T) + 1) /\ k + n <= Len(T) + 1 /\ 0 \in Nat /\ 0 + n < ResetBits
          /\ k + n = Len(T) + 1
      BY ONLY <1>n
    <2>3. \A j \in 1..n : T[k + j - 1] # Take
      BY <1>5 DEF Skip, Take
    <2>4. Play(c, t6) = f
      BY <1>15, <2>1
    <2> HIDE DEF k, t6
    <2>5. SamplesTo(T, k, n, 0, p, r5, e, f)
      BY <1>1, <1>2, <1>3, <1>16, <2>2, <2>3, SampleRun DEF t1
    <2> HIDE DEF f
    <2>6. PICK x \in Seq(Levels), q \in 0..(0 + n), y6 \in Levels :
             f = On("in", y6, At(T, k + n, q), p, Cat(r5, x), e)
      BY <2>5 DEF SamplesTo
    <2>7. At(T, k + n, q) = Idle(q)
      BY <1>1, <2>2, Behind
    <2> QED BY <1>2, <2>1, <2>4, <2>6, <2>7
  <1> HIDE DEF t6
  <1> DEFINE r == Cat(r5, x)
  <1>18. Play(b, u3) = On("in", y6, Idle(q), p, r, e) /\ u3 \in Seq(0..9)
    <2>1. Play(b, u3) = Play(Play(b, u2), t6) /\ u3 \in Seq(0..9)
      BY <1>11, <1>17, Then
    <2>2. Play(b, u2) = c
      BY <1>11 DEF c
    <2> QED BY <1>17, <2>1, <2>2
  <1> HIDE DEF u3
  <1>19. Play(b, u4) = On("out", y6, Idle(q), p, r, e)
    <2>1. Play(b, u4) = Play(Play(b, u3), s1)
      BY <1>6, <1>18, Then
    <2>2. Play(On("in", y6, Idle(q), p, r, e), s1) = On("out", y6, Idle(q), p, r, e)
      <3> HIDE DEF r
      <3> QED BY TurnRun DEF s1
    <2> QED BY <1>18, <2>1, <2>2
  <1> HIDE DEF u4
  <1>20. SubSeq(r, n + 1, n + 3) = a /\ SubSeq(r, n + 4, n + 3 + Width) = p.word
    <2>1. w \in Seq(Levels) /\ a \in Seq(Levels) /\ W \in Seq(Levels) /\ x \in Seq(Levels)
      BY <1>1, <1>4, <1>12, <1>17
    <2>2. p.word \in Seq(Levels) /\ Len(p.word) = Width /\ \A j \in 1..Width : W[j] = p.word[j]
      BY <1>4
    <2>3. n \in Nat /\ Len(w) = n /\ Len(a) = 3 /\ Len(W) = Width + 1
      BY <1>n, <1>12
    <2> DEFINE word == p.word
      <2>5. word \in Seq(Levels) /\ Len(word) = Width /\ \A j \in 1..Width : W[j] = word[j]
      BY <2>2
    <2> HIDE DEF word
    <2>6. ReadApart(w, a, W, x, n, word)
      BY ONLY <2>1, <2>3, <2>5, PartsRead
    <2> QED BY ONLY <2>6, Zenon DEF ReadApart, word, r, r5, r4
  <1> DEFINE got == Play(b, u4)
  <1>21. /\ got.dir = "out" /\ got.clk = 1 /\ got.tgt.state = "idle" /\ got.clash = Never /\ got.plan = p
         /\ got.read = r
    <2> HIDE DEF r
    <2>1. Idle(q).state = "idle"
      BY IdleFields
    <2> DEFINE t == Idle(q)
    <2> HIDE DEF t
    <2>2. LET d == On("out", y6, t, p, r, e)
          IN d.dir = "out" /\ d.clk = 1 /\ d.tgt = t /\ d.plan = p /\ d.read = r /\ d.clash = Never
      BY Fields, NoClash
    <2> HIDE DEF got
    <2>3. got = On("out", y6, t, p, r, e)
      BY <1>19 DEF got, t
    <2> QED BY <2>1, <2>2, <2>3 DEF t
  <1>22. Play(Bus(p), ReadSequence(req, n)) = got /\ a = OK
    BY <1>7 DEF b, a
  <1> HIDE DEF got, r
  <1> DEFINE R1 == SubSeq(r, n + 1, n + 3)
             R2 == SubSeq(r, n + 4, n + 3 + Width)
  <1>23. SubSeq(got.read, n + 1, n + 3) = R1 /\ SubSeq(got.read, n + 4, n + 3 + Width) = R2
    BY <1>21
  <1> HIDE DEF R1, R2
  <1>24. R1 = OK /\ R2 = p.word
    BY <1>20, <1>22 DEF R1, R2
  <1> QED BY <1>21, <1>22, <1>23, <1>24
-----------------------------------------------------------------------------
(* The targets there can be. *)

\* An answer of which s is left drives the wire again before the ones on it can
\* be taken for a line reset: they are few, or a bit that is sent is still to come
\* and not many clocks come behind it.
TailOk(s, o, M) == \/ o + Len(s) <= M
                   \/ \E j \in 1..Len(s) : s[j] \in Levels /\ Len(s) - j <= M

\* A target between two clocks; M is the longest that an answer goes on without a
\* bit that is sent.
TgtOk(t, M) ==
    \/ \E o \in 0..M : t = Idle(o)
    \/ \E o \in 0..(ResetBits - 1), h \in Seq(Levels) : Len(h) \in 1..7 /\ t = Hears(h, o)
    \/ \E o \in 0..(ResetBits - 1) : t = Lost(o)
    \/ t = Reset(ResetBits)
    \/ \E s \in Seq(0..3), o \in 0..(ResetBits - 1) : s # <<>> /\ TailOk(s, o, M) /\ t = Rest(s, o)

\* The target behind a clock with v on the wire.
Counted(t, v) == IF v = 0 \/ Drives(t) THEN 0 ELSE IF t.ones < ResetBits THEN t.ones + 1 ELSE t.ones
NextTgt(t, v, p) ==
    IF Counted(t, v) = ResetBits THEN Reset(ResetBits)
    ELSE WithOnes(IF t.state = "answer" THEN Answering(t) ELSE Listening(t, v, p), Counted(t, v))
NextTaken(t, v, k) == IF t.state = "answer" /\ Head(t.todo) = Take THEN Append(k, v) ELSE k
Fought(c, d, t) == c \/ (d = "out" /\ Drives(t))

LEMMA AnyEdge ==
  ASSUME NEW d, NEW l, NEW t, NEW p, NEW r, NEW k, NEW c
  PROVE  LET b == High(d, l, t, p, r, k, c)
             v == Line(b)
         IN Edge(b) = High(d, l, NextTgt(t, v, p), p, r, NextTaken(t, v, k), Fought(c, d, t))
  <1> DEFINE b == High(d, l, t, p, r, k, c)
             v == Line(b)
             z == Counted(t, v)
             n == IF t.state = "answer" THEN Answering(t) ELSE Listening(t, v, p)
             x == NextTgt(t, v, p)
             w == NextTaken(t, v, k)
             f == Fought(c, d, t)
  <1>1. b.dir = d /\ b.tgt = t /\ b.plan = p /\ b.taken = k
    BY DEF High
  <1>2. b.clash = c
    BY Zenon DEF High
  <1>3. Clock(b, x, w, f) = High(d, l, x, p, r, w, f)
    <2> HIDE DEF x, w, f
    <2>1. Clock(b, x, w, f) = WithClash(WithTaken(WithTgt(b, x), w), f)
      BY DEF Clock, WithTgt, WithTaken, WithClash
    <2> QED BY <2>1, WiresHigh
  <1>4. [NoTarget EXCEPT !.state = "reset", !.ones = ResetBits] = Reset(ResetBits)
    <2>1. [NoTarget EXCEPT !.state = "reset", !.ones = ResetBits]
             = WithOnes(WithState(NoTarget, "reset"), ResetBits)
      BY DEF WithOnes, WithState
    <2> QED BY <2>1, NoTargetIs, TgtFields DEF Reset
  <1> HIDE DEF b
  <1>5. (IF z = ResetBits THEN [NoTarget EXCEPT !.state = "reset", !.ones = z] ELSE WithOnes(n, z)) = x
    <2>1. CASE z = ResetBits
      <3>1. x = Reset(ResetBits)
        BY <2>1 DEF NextTgt
      <3> HIDE DEF x, z, n
      <3> QED BY <1>4, <2>1, <3>1
    <2>2. CASE z # ResetBits
      <3>1. x = WithOnes(n, z)
        BY <2>2 DEF NextTgt
      <3> HIDE DEF x, z, n
      <3> QED BY <2>2, <3>1
    <2> QED BY <2>1, <2>2
  <1> DEFINE y == IF z = ResetBits THEN [NoTarget EXCEPT !.state = "reset", !.ones = z] ELSE WithOnes(n, z)
  <1>6. Edge(b) = Clock(b, y, w, b.clash \/ (d = "out" /\ Drives(t)))
    BY <1>1 DEF Edge, Clock, WithOnes, Counted, NextTaken
  <1>7. (b.clash \/ (d = "out" /\ Drives(t))) = f
    BY <1>2 DEF Fought
  <1> HIDE DEF y, w, f, x
  <1>8. Edge(b) = Clock(b, y, w, f)
    BY <1>6, <1>7
  <1>9. y = x
    BY <1>5 DEF y
  <1>10. Edge(b) = High(d, l, x, p, r, w, f)
    BY <1>3, <1>8, <1>9
  <1> QED BY <1>10 DEF b, x, w, f

\* What a target has ready for a request always drives the wire in time.
LEMMA AnswerDrives ==
  ASSUME NEW p, PlanOk(p), NEW req, NEW o
  PROVE  LET s == Answer(p, req)
         IN s \in Seq(0..3) /\ s # <<>> /\ TailOk(s, o, Width + 1 + p.turn)
  <1> DEFINE T == Answer(p, req)
             n == p.turn
             X == Exchanged(p, req)
  <1>1. /\ T \in Seq(0..3) /\ Len(T) \in Nat /\ n + n + 3 <= Len(T)
        /\ p.ack \in Seq(Levels) /\ Len(p.ack) = 3
        /\ \A k \in 1..3 : T[(n + 1) + k - 1] = p.ack[k]
    BY AnswerStarts
  <1>2. n \in Nat /\ n > 0 /\ Width \in Nat
    BY WireAssumption DEF PlanOk
  <1>3. Len(X) \in {0, Width + 1}
    BY ExchangedIs
  <1>4. Len(T) + 1 = (n + 4) + n + Len(X)
    BY AnswerEnds
  <1> HIDE DEF T, X
  <1> DEFINE j == n + 3
  <1>5. T[j] \in Levels
    <2>1. p.ack[3] \in Levels /\ 3 \in 1..3
      BY <1>1
    <2>2. T[(n + 1) + 3 - 1] = p.ack[3]
      BY <1>1, <2>1
    <2>3. (n + 1) + 3 - 1 = j
      BY <1>2
    <2> QED BY <2>1, <2>2, <2>3
  <1>6. j \in 1..Len(T) /\ Len(T) - j <= Width + 1 + n
    <2>1. Len(T) \in Nat /\ n + n + 3 <= Len(T)
      BY <1>1
    <2> HIDE DEF n
    <2>2. j = n + 3
      BY DEF j
    <2> QED BY ONLY <1>2, <1>3, <1>4, <2>1, <2>2
  <1>7. T # <<>>
    <2>1. Len(T) # 0
      BY <1>1, <1>2
    <2> QED BY <2>1
  <1>8. TailOk(T, o, Width + 1 + n)
    BY <1>5, <1>6 DEF TailOk
  <1> QED BY <1>1, <1>7, <1>8 DEF T

\* A clock leaves a target one of those there can be.
LEMMA ListeningGoesOn ==
  ASSUME NEW M \in Nat, NEW p, PlanOk(p), M = Width + 1 + p.turn,
         NEW v \in Levels, NEW z \in 0..(ResetBits - 1), v = 0 => z = 0,
         NEW t, TgtOk(t, M), t.state # "answer", t = Reset(ResetBits) => v = 0
  PROVE  TgtOk(WithOnes(Listening(t, v, p), z), M)
  <1> DEFINE x == WithOnes(Listening(t, v, p), z)
  <1>1. 0 \in 0..M /\ 0 \in 0..(ResetBits - 1)
    BY WireAssumption
  <1>2. ASSUME NEW o, t = Idle(o) PROVE TgtOk(x, M)
    <2>1. CASE v = 0
      <3>1. x = Idle(z) /\ z = 0
        BY <1>2, <2>1, Listens
      <3> HIDE DEF x
      <3> QED BY <1>1, <3>1 DEF TgtOk
    <2>2. CASE v = 1
      <3> DEFINE g == <<1>>
      <3>1. x = Hears(g, z)
        BY <1>2, <2>2, Listens
      <3>2. g \in Seq(Levels) /\ Len(g) \in 1..7
        BY DEF Levels
      <3> HIDE DEF x, g
      <3> QED BY <3>1, <3>2 DEF TgtOk
    <2> QED BY <2>1, <2>2 DEF Levels
  <1>3. ASSUME NEW o, NEW h \in Seq(Levels), Len(h) \in 1..7, t = Hears(h, o) PROVE TgtOk(x, M)
    <2> DEFINE g == Put(h, v)
    <2>1. x = IF Len(h) < 7 THEN Hears(g, z)
              ELSE IF WellFormed(g) THEN Rest(Ready(p, g), z) ELSE Lost(z)
      BY <1>3, ListensOn
    <2>2. g \in Seq(Levels) /\ Len(g) = Len(h) + 1
      BY LongerWord
    <2>3. Ready(p, g) \in Seq(0..3) /\ Ready(p, g) # <<>> /\ TailOk(Ready(p, g), z, M)
      BY AnswerDrives DEF Ready
    <2> DEFINE a == Ready(p, g)
    <2> HIDE DEF x, g, a
    <2>4. CASE Len(h) < 7
      <3>1. x = Hears(g, z) /\ Len(g) \in 1..7
        BY <1>3, <2>1, <2>2, <2>4
      <3> QED BY <2>2, <3>1 DEF TgtOk
    <2>5. CASE ~(Len(h) < 7) /\ WellFormed(g)
      <3>1. x = Rest(a, z) /\ a \in Seq(0..3) /\ a # <<>> /\ TailOk(a, z, M)
        BY <2>1, <2>3, <2>5 DEF a
      <3> QED BY <3>1 DEF TgtOk
    <2>6. CASE ~(Len(h) < 7) /\ ~WellFormed(g)
      <3>1. x = Lost(z)
        BY <2>1, <2>6
      <3> QED BY <3>1 DEF TgtOk
    <2> QED BY <2>4, <2>5, <2>6
  <1>4. ASSUME NEW o, t = Lost(o) PROVE TgtOk(x, M)
    <2>1. x = Lost(z)
      BY <1>4, Listens
    <2> HIDE DEF x
    <2> QED BY <2>1 DEF TgtOk
  <1>5. ASSUME t = Reset(ResetBits) PROVE TgtOk(x, M)
    <2>1. x = Idle(z) /\ z = 0
      BY <1>5, Listens
    <2> HIDE DEF x
    <2> QED BY <1>1, <2>1 DEF TgtOk
  <1>6. ASSUME NEW s, NEW o, t = Rest(s, o) PROVE FALSE
    BY <1>6, RestFields
  <1> HIDE DEF x
  <1>7. TgtOk(x, M)
    BY <1>2, <1>3, <1>4, <1>5, <1>6 DEF TgtOk
  <1> QED BY <1>7 DEF x

LEMMA TailOkOn ==
  ASSUME NEW s \in Seq(0..3), s # <<>>, Len(s) # 1, NEW o \in Nat, NEW M \in Nat, TailOk(s, o, M),
         NEW z \in 0..(o + 1), s[1] \in Levels => z = 0
  PROVE  Tail(s) \in Seq(0..3) /\ Tail(s) # <<>> /\ TailOk(Tail(s), z, M)
  <1> DEFINE u == Tail(s)
  <1>1. /\ u \in Seq(0..3) /\ Len(u) = Len(s) - 1 /\ Len(s) \in Nat /\ Len(s) > 1
        /\ \A j \in 1..Len(u) : u[j] = s[j + 1]
    <2>1. Len(s) \in Nat /\ Len(s) # 0
      BY EmptySeq
    <2>2. u \in Seq(0..3) /\ Len(u) = Len(s) - 1 /\ \A j \in 1..Len(u) : u[j] = s[j + 1]
      BY HeadTailProperties
    <2> HIDE DEF u
    <2> QED BY <2>1, <2>2
  <1> HIDE DEF u
  <1>2. u # <<>>
    <2>1. Len(u) # 0
      BY <1>1
    <2> QED BY <2>1
  <1>3. CASE o + Len(s) <= M
    <2>1. z + Len(u) <= M
      BY <1>1, <1>3
    <2> QED BY <1>1, <1>2, <2>1 DEF TailOk, u
  <1>4. ASSUME NEW j \in 1..Len(s), s[j] \in Levels, Len(s) - j <= M PROVE TailOk(u, z, M)
    <2>1. CASE j = 1
      <3>1. z + Len(u) <= M
        BY <1>1, <1>4, <2>1
      <3> QED BY <3>1 DEF TailOk
    <2>2. CASE j # 1
      <3> DEFINE i == j - 1
      <3>1. i \in 1..Len(u) /\ i + 1 = j /\ Len(u) - i <= M
        BY <1>1, <1>4, <2>2
      <3>2. u[i] \in Levels
        BY <1>1, <1>4, <3>1
      <3> HIDE DEF i
      <3> QED BY <3>1, <3>2 DEF TailOk
    <2> QED BY <2>1, <2>2
  <1>5. o + Len(s) <= M \/ \E j \in 1..Len(s) : s[j] \in Levels /\ Len(s) - j <= M
    BY DEF TailOk
  <1> QED BY <1>1, <1>2, <1>3, <1>4, <1>5 DEF u

LEMMA AnsweringGoesOn ==
  ASSUME NEW M \in Nat, NEW s \in Seq(0..3), NEW o \in 0..(ResetBits - 1), s # <<>>, TailOk(s, o, M),
         NEW z \in 0..(ResetBits - 1), z \in 0..(o + 1), s[1] \in Levels => z = 0
  PROVE  TgtOk(WithOnes(Answering(Rest(s, o)), z), M)
  <1> DEFINE t == Rest(s, o)
             u == Tail(s)
             x == WithOnes(Answering(t), z)
  <1>1. t.todo = s
    BY RestFields
  <1>2. Answering(t) = IF Len(s) = 1 THEN IdleTarget ELSE WithTodo(t, u)
    BY <1>1 DEF Answering, WithTodo
  <1>3. CASE Len(s) = 1
    <2>1. x = Idle(z)
      BY <1>2, <1>3, IdleFields
    <2>2. z \in 0..M
      <3>1. CASE o + Len(s) <= M
        BY <1>3, <3>1, WireAssumption
      <3>2. ASSUME NEW j \in 1..Len(s), s[j] \in Levels PROVE z = 0
        <4>1. j = 1
          BY <1>3, <3>2
        <4> QED BY <3>2, <4>1
      <3> QED BY <3>1, <3>2 DEF TailOk
    <2> HIDE DEF x
    <2> QED BY <2>1, <2>2 DEF TgtOk, x
  <1>4. CASE Len(s) # 1
    <2>1. x = Rest(u, z)
      <3>1. x = WithOnes(WithTodo(t, u), z)
        BY <1>2, <1>4
      <3>2. WithOnes(WithTodo(t, u), z) = Rest(u, z)
        <4> HIDE DEF u
        <4> QED BY RestFields
      <3> QED BY <3>1, <3>2
    <2>2. u \in Seq(0..3) /\ u # <<>> /\ TailOk(u, z, M)
      <3>1. o \in Nat
        BY WireAssumption
      <3> QED BY <1>4, <3>1, TailOkOn
    <2> HIDE DEF x, u
    <2>3. TgtOk(x, M)
      BY <2>1, <2>2 DEF TgtOk
    <2> QED BY <2>3 DEF x
  <1> QED BY <1>3, <1>4

\* What the kinds of targets have in common.
LEMMA TgtIs ==
  ASSUME NEW M \in Nat, M < ResetBits, NEW t, TgtOk(t, M)
  PROVE  /\ t.ones \in 0..ResetBits /\ (t.ones = ResetBits => t = Reset(ResetBits))
         /\ t.state \in {"lost", "reset", "idle", "header", "answer"}
         /\ t.state = "answer" <=> t.todo # <<>>
         /\ t.state = "idle" => \E o \in 0..M : t = Idle(o)
         /\ t.state = "answer" =>
               \E s \in Seq(0..3), o \in 0..(ResetBits - 1) : s # <<>> /\ TailOk(s, o, M) /\ t = Rest(s, o)
  <1>1. ResetBits \in Nat /\ 0..M \subseteq 0..(ResetBits - 1)
    BY WireAssumption
  <1>2. ASSUME NEW o \in 0..M, t = Idle(o)
        PROVE  t.ones \in 0..(ResetBits - 1) /\ t.state = "idle" /\ t.todo = <<>>
    BY <1>1, <1>2, IdleFields
  <1>3. ASSUME NEW o \in 0..(ResetBits - 1), NEW h, t = Hears(h, o)
        PROVE  t.ones \in 0..(ResetBits - 1) /\ t.state = "header" /\ t.todo = <<>>
    BY <1>3, TgtFields DEF Hears
  <1>4. ASSUME NEW o \in 0..(ResetBits - 1), t = Lost(o)
        PROVE  t.ones \in 0..(ResetBits - 1) /\ t.state = "lost" /\ t.todo = <<>>
    BY <1>4, TgtFields DEF Lost
  <1>5. ASSUME t = Reset(ResetBits)
        PROVE  t.ones = ResetBits /\ t.state = "reset" /\ t.todo = <<>>
    BY <1>5, TgtFields DEF Reset
  <1>6. ASSUME NEW s, NEW o \in 0..(ResetBits - 1), t = Rest(s, o)
        PROVE  t.ones \in 0..(ResetBits - 1) /\ t.state = "answer" /\ t.todo = s
    BY <1>6, RestFields
  <1>7. CASE \E o \in 0..M : t = Idle(o)
    BY <1>1, <1>2, <1>7
  <1>8. CASE \E o \in 0..(ResetBits - 1), h \in Seq(Levels) : Len(h) \in 1..7 /\ t = Hears(h, o)
    BY <1>1, <1>3, <1>8
  <1>9. CASE \E o \in 0..(ResetBits - 1) : t = Lost(o)
    BY <1>1, <1>4, <1>9
  <1>10. CASE t = Reset(ResetBits)
    BY <1>1, <1>5, <1>10
  <1>11. CASE \E s \in Seq(0..3), o \in 0..(ResetBits - 1) : s # <<>> /\ TailOk(s, o, M) /\ t = Rest(s, o)
    <2>1. PICK s \in Seq(0..3), o \in 0..(ResetBits - 1) : s # <<>> /\ TailOk(s, o, M) /\ t = Rest(s, o)
      BY <1>11
    <2>2. t.ones \in 0..(ResetBits - 1) /\ t.state = "answer" /\ t.todo = s
      BY <1>6, <2>1
    <2> QED BY <1>1, <1>11, <2>1, <2>2
  <1> QED BY <1>7, <1>8, <1>9, <1>10, <1>11 DEF TgtOk

LEMMA NextOk ==
  ASSUME NEW M \in Nat, M < ResetBits, NEW p, PlanOk(p), M = Width + 1 + p.turn,
         NEW v \in Levels, NEW t, TgtOk(t, M)
  PROVE  TgtOk(NextTgt(t, v, p), M)
  <1> DEFINE z == Counted(t, v)
  <1>1. t.ones \in 0..ResetBits /\ (t.ones = ResetBits => t = Reset(ResetBits))
    BY TgtIs
  <1>2. CASE z = ResetBits
    <2>1. NextTgt(t, v, p) = Reset(ResetBits)
      BY <1>2 DEF NextTgt
    <2> QED BY <2>1 DEF TgtOk
  <1>3. CASE z # ResetBits
    <2>1. /\ z \in 0..(ResetBits - 1) /\ z \in 0..(t.ones + 1) /\ (v = 0 \/ Drives(t) => z = 0)
          /\ v # 0 /\ ~Drives(t) /\ t.ones = ResetBits => FALSE
      BY <1>1, <1>3, WireAssumption DEF Counted
    <2>2. CASE t.state # "answer"
      <3>1. t = Reset(ResetBits) => v = 0
        <4>1. t = Reset(ResetBits) => t.ones = ResetBits
          BY TgtFields DEF Reset
        <4>2. ~Drives(t)
          BY <2>2 DEF Drives
        <4> QED BY <2>1, <4>1, <4>2
      <3> DEFINE x == WithOnes(Listening(t, v, p), z)
      <3> HIDE DEF z
      <3>2. TgtOk(x, M)
        BY <2>1, <2>2, <3>1, ListeningGoesOn
      <3> HIDE DEF x
      <3>3. NextTgt(t, v, p) = x
        BY <1>3, <2>2 DEF NextTgt, x, z
      <3> QED BY <3>2, <3>3
    <2>3. CASE t.state = "answer"
      <3>1. PICK s \in Seq(0..3), o \in 0..(ResetBits - 1) : s # <<>> /\ TailOk(s, o, M) /\ t = Rest(s, o)
        BY <2>3, TgtIs
      <3>2. t.ones = o /\ t.todo = s
        BY <3>1, RestFields
      <3>3. Head(s) = s[1]
        OBVIOUS
      <3>4. s[1] \in Levels => Drives(t)
        BY <2>3, <3>2, <3>3 DEF Drives
      <3> DEFINE x == WithOnes(Answering(Rest(s, o)), z)
      <3> HIDE DEF z
      <3>5. TgtOk(x, M)
        BY <2>1, <3>1, <3>2, <3>4, AnsweringGoesOn
      <3> HIDE DEF x
      <3>6. NextTgt(t, v, p) = x
        BY <1>3, <2>3, <3>1 DEF NextTgt, x, z
      <3> QED BY <3>5, <3>6
    <2> QED BY <2>2, <2>3
  <1> QED BY <1>2, <1>3
-----------------------------------------------------------------------------
(* Any moves on any bus. *)

Wire(d, l, q, t, p, r, k, c) == [dir |-> d, level |-> l, clk |-> q, tgt |-> t, plan |-> p,
                                 read |-> r, taken |-> k, clash |-> c]
BusOk(b, p, M) == \E d, l, q, t, r, k, c :
                     /\ d \in {"in", "out"} /\ l \in Levels /\ q \in Levels
                     /\ b = Wire(d, l, q, t, p, r, k, c) /\ TgtOk(t, M)

LEMMA AnyWires ==
  ASSUME NEW d, NEW l, NEW q, NEW t, NEW p, NEW r, NEW k, NEW c
  PROVE  /\ \A a : WithLevel(Wire(d, l, q, t, p, r, k, c), a) = Wire(d, a, q, t, p, r, k, c)
         /\ \A a : WithDir(Wire(d, l, q, t, p, r, k, c), a) = Wire(a, l, q, t, p, r, k, c)
         /\ \A a : WithRead(Wire(d, l, q, t, p, r, k, c), a) = Wire(d, l, q, t, p, a, k, c)
         /\ \A a : WithClk(Wire(d, l, q, t, p, r, k, c), a) = Wire(d, l, a, t, p, r, k, c)
         /\ Wire(d, l, 1, t, p, r, k, c) = High(d, l, t, p, r, k, c)
  <1>1. \A a : WithLevel(Wire(d, l, q, t, p, r, k, c), a) = Wire(d, a, q, t, p, r, k, c)
    BY DEF Wire, WithLevel
  <1>2. \A a : WithDir(Wire(d, l, q, t, p, r, k, c), a) = Wire(a, l, q, t, p, r, k, c)
    BY DEF Wire, WithDir
  <1>3. \A a : WithRead(Wire(d, l, q, t, p, r, k, c), a) = Wire(d, l, q, t, p, a, k, c)
    BY DEF Wire, WithRead
  <1>4. \A a : WithClk(Wire(d, l, q, t, p, r, k, c), a) = Wire(d, l, a, t, p, r, k, c)
    BY DEF Wire, WithClk
  <1>5. Wire(d, l, 1, t, p, r, k, c) = High(d, l, t, p, r, k, c)
    BY DEF Wire, High
  <1> QED BY <1>1, <1>2, <1>3, <1>4, <1>5

LEMMA EdgeOk ==
  ASSUME NEW M \in Nat, M < ResetBits, NEW p, PlanOk(p), M = Width + 1 + p.turn,
         NEW d \in {"in", "out"}, NEW l \in Levels, NEW t, TgtOk(t, M), NEW r, NEW k, NEW c
  PROVE  BusOk(Edge(High(d, l, t, p, r, k, c)), p, M)
  <1> DEFINE b == High(d, l, t, p, r, k, c)
             v == Line(b)
             x == NextTgt(t, v, p)
             w == NextTaken(t, v, k)
             f == Fought(c, d, t)
  <1>1. b.dir = d /\ b.level = l /\ b.tgt = t /\ b.plan = p
    BY DEF High
  <1>2. Edge(b) = High(d, l, x, p, r, w, f)
    BY AnyEdge
  <1> HIDE DEF b
  <1>3. v \in Levels
    BY <1>1 DEF Line, Drives, PlanOk
  <1> HIDE DEF v
  <1>4. TgtOk(x, M)
    BY <1>3, NextOk
  <1> HIDE DEF x, w, f
  <1>5. Edge(b) = Wire(d, l, 1, x, p, r, w, f) /\ 1 \in Levels
    BY <1>2, AnyWires DEF Levels
  <1>6. BusOk(Edge(b), p, M)
    BY <1>4, <1>5 DEF BusOk
  <1> QED BY <1>6 DEF b

\* What each move makes of a bus.
Moved(b, d, l, q, t, p, r, k, c) ==
    /\ \A v \in Levels : Move(b, v) = Edge(High(d, v, t, p, r, k, c))
    /\ Move(b, Pulse) = Edge(High(d, l, t, p, r, k, c))
    /\ \E a : Move(b, Sample) = Edge(High(d, l, t, p, a, k, c))
    /\ Move(b, DioOut) = Wire("out", l, q, t, p, r, k, c)
    /\ Move(b, DioIn) = Wire("in", l, q, t, p, r, k, c)
    /\ \A v \in Levels : Move(b, Dio(v)) = Wire(d, v, q, t, p, r, k, c)
    /\ Move(b, Tck(0)) = Wire(d, l, 0, t, p, r, k, c)
    /\ \/ Move(b, Tck(1)) = Wire(d, l, 1, t, p, r, k, c)
       \/ Move(b, Tck(1)) = Edge(High(d, l, t, p, r, k, c))

LEMMA AnyMove ==
  ASSUME NEW d, NEW l, NEW q \in Levels, NEW t, NEW p, NEW r, NEW k, NEW c
  PROVE  Moved(Wire(d, l, q, t, p, r, k, c), d, l, q, t, p, r, k, c)
  <1> DEFINE b == Wire(d, l, q, t, p, r, k, c)
  <1>1. /\ \A a : WithLevel(b, a) = Wire(d, a, q, t, p, r, k, c)
        /\ \A a : WithDir(b, a) = Wire(a, l, q, t, p, r, k, c)
        /\ \A a : WithRead(b, a) = Wire(d, l, q, t, p, a, k, c)
        /\ \A a : WithClk(b, a) = Wire(d, l, a, t, p, r, k, c)
    BY AnyWires
  <1>2. ASSUME NEW a PROVE WithClk(Wire(d, a, q, t, p, r, k, c), 1) = High(d, a, t, p, r, k, c)
    BY AnyWires
  <1>3. ASSUME NEW a PROVE WithClk(Wire(d, l, q, t, p, a, k, c), 1) = High(d, l, t, p, a, k, c)
    BY AnyWires
  <1>4. b.clk = q
    BY DEF Wire
  <1> HIDE DEF b
  <1> USE DEF Pulse, Sample, DioOut, DioIn, Dio, Tck, Levels, Clocked
  <1>5. ASSUME NEW m \in Levels PROVE Move(b, m) = Edge(High(d, m, t, p, r, k, c))
    <2>1. Move(b, m) = Edge(WithClk(WithLevel(b, m), 1))
      <3>1. CASE m = 0
        BY <3>1 DEF Move, WithClk, WithLevel
      <3>2. CASE m = 1
        BY <3>2 DEF Move, WithClk, WithLevel
      <3> QED BY <3>1, <3>2
    <2> QED BY <1>1, <1>2, <2>1
  <1>6. Move(b, Pulse) = Edge(High(d, l, t, p, r, k, c))
    <2>1. Move(b, Pulse) = Edge(WithClk(b, 1))
      BY DEF Move, WithClk
    <2> QED BY <1>2, <2>1 DEF b
  <1>7. \E a : Move(b, Sample) = Edge(High(d, l, t, p, a, k, c))
    <2> DEFINE a == Append(b.read, Line(b))
    <2>1. Move(b, Sample) = Edge(WithClk(WithRead(b, a), 1))
      BY DEF Move, WithClk, WithRead
    <2> HIDE DEF a
    <2> QED BY <1>1, <1>3, <2>1
  <1>8. Move(b, DioOut) = Wire("out", l, q, t, p, r, k, c)
    <2>1. Move(b, DioOut) = WithDir(b, "out")
      BY DEF Move, WithDir
    <2> QED BY <1>1, <2>1
  <1>9. Move(b, DioIn) = Wire("in", l, q, t, p, r, k, c)
    <2>1. Move(b, DioIn) = WithDir(b, "in")
      BY DEF Move, WithDir
    <2> QED BY <1>1, <2>1
  <1>10. ASSUME NEW v \in Levels PROVE Move(b, Dio(v)) = Wire(d, v, q, t, p, r, k, c)
    <2>1. CASE v = 0
      <3>1. Move(b, Dio(0)) = WithLevel(b, 0)
        BY DEF Move, WithLevel
      <3> QED BY <1>1, <2>1, <3>1
    <2>2. CASE v = 1
      <3>1. Move(b, Dio(1)) = WithLevel(b, 1)
        BY DEF Move, WithLevel
      <3> QED BY <1>1, <2>2, <3>1
    <2> QED BY <2>1, <2>2
  <1>11. Move(b, Tck(0)) = Wire(d, l, 0, t, p, r, k, c)
    <2>1. Move(b, Tck(0)) = WithClk(b, 0)
      BY DEF Move, WithClk
    <2> QED BY <1>1, <2>1
  <1>12. Move(b, Tck(1)) = Wire(d, l, 1, t, p, r, k, c) \/ Move(b, Tck(1)) = Edge(High(d, l, t, p, r, k, c))
    <2>1. CASE b.clk = 0
      <3>1. Move(b, Tck(1)) = Edge(WithClk(WithClk(b, 1), 1))
        BY <2>1 DEF Move, WithClk
      <3>2. WithClk(WithClk(b, 1), 1) = WithClk(b, 1)
        BY <1>1, AnyWires
      <3> QED BY <1>2, <3>1, <3>2 DEF b
    <2>2. CASE b.clk # 0
      <3>1. Move(b, Tck(1)) = WithClk(b, 1)
        BY <2>2 DEF Move, WithClk
      <3> QED BY <1>1, <3>1
    <2> QED BY <2>1, <2>2
  <1> HIDE DEF Pulse, Sample, DioOut, DioIn, Dio, Tck, Clocked
  <1>13. Moved(b, d, l, q, t, p, r, k, c)
    BY ONLY <1>5, <1>6, <1>7, <1>8, <1>9, <1>10, <1>11, <1>12 DEF Moved
  <1> QED BY <1>13 DEF b

LEMMA MoveOk ==
  ASSUME NEW M \in Nat, M < ResetBits, NEW p, PlanOk(p), M = Width + 1 + p.turn,
         NEW b, BusOk(b, p, M), NEW m \in 0..9
  PROVE  BusOk(Move(b, m), p, M)
  <1>1. PICK d, l, q, t, r, k, c :
           /\ d \in {"in", "out"} /\ l \in Levels /\ q \in Levels
           /\ b = Wire(d, l, q, t, p, r, k, c) /\ TgtOk(t, M)
    BY DEF BusOk
  <1> DEFINE W == Wire(d, l, q, t, p, r, k, c)
  <1>m. Moved(W, d, l, q, t, p, r, k, c)
    BY <1>1, AnyMove
  <1>w. b = W
    BY <1>1
  <1> HIDE DEF W
  <1>2. ASSUME NEW e \in {"in", "out"}, NEW v \in Levels, NEW y \in Levels,
               Move(b, m) = Wire(e, v, y, t, p, r, k, c)
        PROVE  BusOk(Move(b, m), p, M)
    BY <1>1, <1>2 DEF BusOk
  <1>3. ASSUME NEW v \in Levels, NEW a, Move(b, m) = Edge(High(d, v, t, p, a, k, c))
        PROVE  BusOk(Move(b, m), p, M)
    <2>1. BusOk(Edge(High(d, v, t, p, a, k, c)), p, M)
      BY <1>1, EdgeOk
    <2> QED BY <1>1, <1>3, <2>1
  <1>4. CASE m \in Levels
    <2>1. Move(b, m) = Edge(High(d, m, t, p, r, k, c))
      BY <1>w, <1>m, <1>4 DEF Moved
    <2> QED BY <1>3, <1>4, <2>1
  <1>5. CASE m = Pulse
    <2>1. Move(b, m) = Edge(High(d, l, t, p, r, k, c))
      BY <1>w, <1>m, <1>5 DEF Moved
    <2> QED BY <1>1, <1>3, <2>1
  <1>6. CASE m = Sample
    <2>1. \E a : Move(b, m) = Edge(High(d, l, t, p, a, k, c))
      BY <1>w, <1>m, <1>6 DEF Moved
    <2> QED BY <1>1, <1>3, <2>1
  <1>7. CASE m = DioOut
    <2>1. Move(b, m) = Wire("out", l, q, t, p, r, k, c)
      BY <1>w, <1>m, <1>7 DEF Moved
    <2> QED BY <1>1, <1>2, <2>1
  <1>8. CASE m = DioIn
    <2>1. Move(b, m) = Wire("in", l, q, t, p, r, k, c)
      BY <1>w, <1>m, <1>8 DEF Moved
    <2> QED BY <1>1, <1>2, <2>1
  <1>9. ASSUME NEW v \in Levels, m = Dio(v) PROVE BusOk(Move(b, m), p, M)
    <2>1. Move(b, m) = Wire(d, v, q, t, p, r, k, c)
      BY <1>w, <1>m, <1>9 DEF Moved
    <2> QED BY <1>1, <1>2, <2>1
  <1>10. CASE m = Tck(0)
    <2>1. Move(b, m) = Wire(d, l, 0, t, p, r, k, c) /\ 0 \in Levels
      BY <1>w, <1>m, <1>10 DEF Moved, Levels
    <2> QED BY <1>1, <1>2, <2>1
  <1>11. CASE m = Tck(1)
    <2>1. 1 \in Levels /\ \/ Move(b, m) = Wire(d, l, 1, t, p, r, k, c)
                          \/ Move(b, m) = Edge(High(d, l, t, p, r, k, c))
      BY <1>w, <1>m, <1>11 DEF Moved, Levels
    <2> QED BY <1>1, <1>2, <1>3, <2>1
  <1>12. \/ m \in Levels \/ m = Pulse \/ m = Sample \/ m = DioOut \/ m = DioIn
         \/ m = Dio(0) \/ m = Dio(1) \/ m = Tck(0) \/ m = Tck(1)
    BY DEF Levels, Pulse, Sample, DioOut, DioIn, Dio, Tck
  <1>13. 0 \in Levels /\ 1 \in Levels
    BY DEF Levels
  <1> QED BY <1>4, <1>5, <1>6, <1>7, <1>8, <1>9, <1>10, <1>11, <1>12, <1>13

LEMMA PlayOk ==
  ASSUME NEW M \in Nat, M < ResetBits, NEW p, PlanOk(p), M = Width + 1 + p.turn,
         NEW b, BusOk(b, p, M), NEW ms \in Seq(0..9)
  PROVE  BusOk(Play(b, ms), p, M)
  <1> DEFINE f == Path(b, ms)
             T == {n \in Nat : n <= Len(ms) => BusOk(f[n], p, M)}
  <1>1. /\ f[0] = b /\ \A j \in 1..Len(ms) : f[j] = Move(f[j - 1], ms[j])
        /\ Play(b, ms) = f[Len(ms)]
    BY PathIs
  <1> HIDE DEF f
  <1>2. Len(ms) \in Nat
    BY LenProperties
  <1>3. 0 \in T
    BY <1>1
  <1>4. ASSUME NEW n \in T PROVE n + 1 \in T
    <2> SUFFICES ASSUME n + 1 <= Len(ms) PROVE BusOk(f[n + 1], p, M)
      OBVIOUS
    <2>1. n + 1 \in 1..Len(ms) /\ (n + 1) - 1 = n /\ BusOk(f[n], p, M)
      BY <1>2
    <2>2. f[n + 1] = Move(f[n], ms[n + 1]) /\ ms[n + 1] \in 0..9
      BY <1>1, <2>1
    <2>3. BusOk(Move(f[n], ms[n + 1]), p, M)
      BY <2>1, <2>2, MoveOk
    <2> QED BY <2>2, <2>3
  <1>5. T \in SUBSET Nat
    OBVIOUS
  <1> HIDE DEF T
  <1>6. T = Nat
    BY ONLY <1>3, <1>4, <1>5, Induct
  <1> QED BY <1>1, <1>2, <1>6 DEF T
-----------------------------------------------------------------------------
(* A line reset. *)

\* A one now ends the request of which h was heard.
Pending(h) == Len(h) = 7 /\ WellFormed(Put(h, 1))

\* A target that has heard n ones, and will answer nothing while there are more.
Deaf(t, n) == \/ t = Reset(ResetBits)
              \/ n = 0 /\ \E o \in 0..(ResetBits - 1) : t = Idle(o)
              \/ \E o \in n..(ResetBits - 1) : t = Lost(o)
              \/ \E o \in n..(ResetBits - 1), h \in Seq(Levels) :
                    Len(h) \in 1..7 /\ ~Pending(h) /\ t = Hears(h, o)

\* The stop bit of a request is a zero.
LEMMA OnesAskNothing ==
  ASSUME NEW g \in Seq(Levels), Len(g) = 7, g[7] = 1
  PROVE  ~Pending(g)
  <1> DEFINE H == Put(g, 1)
             s == SubSeq(H, 2, 5)
  <1>1. 1 \in Levels
    BY DEF Levels
  <1>2. H \in Seq(Levels) /\ Len(H) = 8 /\ H[7] = 1
    <2>1. Len(g) + 1 = 8 /\ 7 \in 1..Len(g)
      OBVIOUS
    <2> QED BY <1>1, <2>1, LongerWord
  <1> HIDE DEF H
  <1>3. s \in [1..4 -> Levels]
    <2>1. s \in Seq(Levels) /\ Len(s) = 4
      <3>1. /\ SubSeq(H, 2, 5) \in Seq(Levels)
            /\ Len(SubSeq(H, 2, 5)) = IF 2 <= 5 THEN 5 - 2 + 1 ELSE 0
        <4>1. \A i \in 2..5 : H[i] \in Levels
          <5> TAKE i \in 2..5
          <5>1. i \in 1..8
            OBVIOUS
          <5>2. \A j \in 1..Len(H) : H[j] \in Levels
            <6>1. H \in [1..Len(H) -> Levels]
              BY <1>2, LenProperties
            <6> QED BY ONLY <6>1
          <5> QED BY <1>2, <5>1, <5>2
        <4> QED BY <4>1, SubSeqProperties
      <3> QED BY <3>1
    <2> HIDE DEF s
    <2>2. s \in [1..Len(s) -> Levels]
      BY <2>1, LenProperties
    <2> QED BY <2>1, <2>2
  <1> HIDE DEF s
  <1>4. Header(s)[7] = 0
    BY <1>3, HeaderIs
  <1>5. H # Header(s)
    BY <1>2, <1>4
  <1> QED BY <1>5, Zenon DEF Pending, WellFormed, H, s

LEMMA DeafOn ==
  ASSUME NEW n \in Nat, NEW t, Deaf(t, n), NEW p
  PROVE  Deaf(NextTgt(t, 1, p), n + 1)
  <1> DEFINE z == Counted(t, 1)
             x == NextTgt(t, 1, p)
             y == WithOnes(Listening(t, 1, p), z)
  <1>1. 1 \in Levels /\ ResetBits \in Nat /\ ResetBits > 0
    BY WireAssumption DEF Levels
  <1>2. ASSUME z = ResetBits PROVE Deaf(x, n + 1)
    <2>1. x = Reset(ResetBits)
      BY <1>2 DEF NextTgt
    <2> HIDE DEF x
    <2> QED BY <2>1 DEF Deaf
  <1>3. ASSUME z # ResetBits, t.state # "answer", NEW o \in Nat, t.ones = o, o < ResetBits, n <= o
        PROVE  z = o + 1 /\ z \in (n + 1)..(ResetBits - 1) /\ x = y
    <2>1. ~Drives(t)
      BY <1>3 DEF Drives
    <2>2. z = o + 1
      BY <1>3, <2>1 DEF Counted
    <2>3. x = y
      BY <1>3 DEF NextTgt
    <2> HIDE DEF z, x, y
    <2> QED BY <1>1, <1>3, <2>2, <2>3
  <1>4. ASSUME z # ResetBits, t = Reset(ResetBits) PROVE FALSE
    <2>1. t.ones = ResetBits /\ t.state = "reset"
      BY <1>4, TgtFields DEF Reset
    <2>2. ~Drives(t)
      BY <2>1 DEF Drives
    <2>3. Counted(t, 1) = ResetBits
      BY <1>1, <2>1, <2>2 DEF Counted
    <2> QED BY <1>4, <2>3
  <1>5. ASSUME z # ResetBits, n = 0, NEW o \in 0..(ResetBits - 1), t = Idle(o)
        PROVE  Deaf(x, n + 1)
    <2> DEFINE g == <<1>>
    <2>1. t.state # "answer" /\ t.ones = o
      BY <1>5, IdleFields
    <2>2. z \in (n + 1)..(ResetBits - 1) /\ x = y
      BY <1>1, <1>3, <1>5, <2>1
    <2>3. y = Hears(g, z)
      BY <1>1, <1>5, Listens
    <2>4. g \in Seq(Levels) /\ Len(g) = 1
      BY <1>1
    <2> HIDE DEF g, x, y, z
    <2>5. ~Pending(g) /\ Len(g) \in 1..7
      BY <2>4 DEF Pending
    <2> QED BY <2>2, <2>3, <2>4, <2>5 DEF Deaf
  <1>6. ASSUME z # ResetBits, NEW o \in n..(ResetBits - 1), t = Lost(o)
        PROVE  Deaf(x, n + 1)
    <2>1. t.state # "answer" /\ t.ones = o
      BY <1>6, TgtFields DEF Lost
    <2>2. z \in (n + 1)..(ResetBits - 1) /\ x = y
      BY <1>1, <1>3, <1>6, <2>1
    <2>3. y = Lost(z)
      BY <1>1, <1>6, Listens
    <2> HIDE DEF x, y, z
    <2> QED BY <2>2, <2>3 DEF Deaf
  <1>7. ASSUME z # ResetBits, NEW o \in n..(ResetBits - 1), NEW h \in Seq(Levels), Len(h) \in 1..7,
               ~Pending(h), t = Hears(h, o)
        PROVE  Deaf(x, n + 1)
    <2> DEFINE g == Put(h, 1)
    <2>1. t.state # "answer" /\ t.ones = o
      BY <1>7, TgtFields DEF Hears
    <2>2. z \in (n + 1)..(ResetBits - 1) /\ x = y
      BY <1>1, <1>3, <1>7, <2>1
    <2>3. y = IF Len(h) < 7 THEN Hears(g, z)
              ELSE IF WellFormed(g) THEN Rest(Ready(p, g), z) ELSE Lost(z)
      BY <1>1, <1>7, ListensOn
    <2>4. g \in Seq(Levels) /\ Len(g) = Len(h) + 1 /\ g[Len(h) + 1] = 1
      BY <1>1, LongerWord
    <2>5. ~(Len(h) < 7) => ~WellFormed(g)
      <3>1. ~(Len(h) < 7) => Len(h) = 7
        <4> DEFINE m == Len(h)
        <4>1. m \in 1..7
          BY <1>7
        <4> HIDE DEF m
        <4>2. ~(m < 7) => m = 7
          BY ONLY <4>1
        <4> QED BY <4>2 DEF m
      <3>2. Len(h) = 7 => ~WellFormed(g)
        BY <1>7 DEF Pending
      <3> QED BY <3>1, <3>2
    <2> HIDE DEF g, x, y, z
    <2>6. CASE Len(h) < 7
      <3>1. x = Hears(g, z) /\ Len(g) \in 1..7
        BY <1>7, <2>2, <2>3, <2>4, <2>6
      <3>2. ~Pending(g)
        <4>1. CASE Len(g) = 7
          <5>1. g[7] = 1
            BY <2>4, <4>1
          <5> QED BY <2>4, <4>1, <5>1, OnesAskNothing
        <4>2. CASE Len(g) # 7
          BY <4>2 DEF Pending
        <4> QED BY <4>1, <4>2
      <3> QED BY <2>2, <2>4, <3>1, <3>2 DEF Deaf
    <2>7. CASE ~(Len(h) < 7)
      <3>1. x = Lost(z)
        BY <2>2, <2>3, <2>5, <2>7
      <3> QED BY <2>2, <3>1 DEF Deaf
    <2> QED BY <2>6, <2>7
  <1> HIDE DEF x, z
  <1>8. Deaf(x, n + 1)
    <2>1. CASE t = Reset(ResetBits)
      BY <1>2, <1>4, <2>1
    <2>2. CASE n = 0 /\ \E o \in 0..(ResetBits - 1) : t = Idle(o)
      BY <1>2, <1>5, <2>2
    <2>3. CASE \E o \in n..(ResetBits - 1) : t = Lost(o)
      BY <1>2, <1>6, <2>3
    <2>4. CASE \E o \in n..(ResetBits - 1), h \in Seq(Levels) :
                  Len(h) \in 1..7 /\ ~Pending(h) /\ t = Hears(h, o)
      BY <1>2, <1>7, <2>4
    <2> QED BY <2>1, <2>2, <2>3, <2>4 DEF Deaf
  <1> QED BY <1>8 DEF x

\* The bus after n ones on a driven wire.
Deafened(b, p, n) == \E l, q, t, r, k, c : q \in Levels /\ b = Wire("out", l, q, t, p, r, k, c) /\ Deaf(t, n)

LEMMA OneMore ==
  ASSUME NEW p, NEW n \in Nat, NEW b, Deafened(b, p, n)
  PROVE  Deafened(Move(b, 1), p, n + 1)
  <1>1. PICK l, q, t, r, k, c : q \in Levels /\ b = Wire("out", l, q, t, p, r, k, c) /\ Deaf(t, n)
    BY DEF Deafened
  <1>2. 1 \in Levels
    BY DEF Levels
  <1>3. Move(b, 1) = Edge(High("out", 1, t, p, r, k, c))
    <2> DEFINE W == Wire("out", l, q, t, p, r, k, c)
    <2>1. Moved(W, "out", l, q, t, p, r, k, c)
      BY <1>1, AnyMove
    <2>2. b = W
      BY <1>1
    <2> HIDE DEF W
    <2> QED BY <1>2, <2>1, <2>2 DEF Moved
  <1> DEFINE e == High("out", 1, t, p, r, k, c)
             x == NextTgt(t, 1, p)
  <1>4. Line(e) = 1
    <2>1. e.dir = "out" /\ e.level = 1
      BY DEF High
    <2> HIDE DEF e
    <2> QED BY <2>1 DEF Line
  <1>5. Edge(e) = High("out", 1, NextTgt(t, Line(e), p), p, r, NextTaken(t, Line(e), k), Fought(c, "out", t))
    BY AnyEdge
  <1>6. Deaf(x, n + 1)
    BY <1>1, DeafOn
  <1> DEFINE w == NextTaken(t, Line(e), k)
             f == Fought(c, "out", t)
  <1>7. Edge(e) = High("out", 1, x, p, r, w, f)
    BY <1>4, <1>5
  <1> HIDE DEF e, x, w, f
  <1>8. Move(b, 1) = Wire("out", 1, 1, x, p, r, w, f)
    BY <1>3, <1>7, AnyWires DEF e
  <1> QED BY <1>2, <1>6, <1>8 DEF Deafened

LEMMA OnesRun ==
  ASSUME NEW p, NEW b, Deafened(b, p, 0), NEW n \in Nat
  PROVE  Deafened(Play(b, Times(1, n)), p, n)
  <1> DEFINE ms == Times(1, n)
             f == Path(b, ms)
             T == {j \in Nat : j <= n => Deafened(f[j], p, j)}
  <1>1. ms \in Seq(0..9) /\ Len(ms) = n /\ \A j \in 1..n : ms[j] = 1
    <2>1. 1 \in 0..9
      OBVIOUS
    <2> QED BY <2>1, TimesIs
  <1> HIDE DEF ms
  <1>2. /\ f[0] = b /\ \A j \in 1..n : f[j] = Move(f[j - 1], 1)
        /\ Play(b, ms) = f[n]
    <2>1. /\ f[0] = b /\ \A j \in 1..Len(ms) : f[j] = Move(f[j - 1], ms[j])
          /\ Play(b, ms) = f[Len(ms)]
      BY <1>1, PathIs
    <2> HIDE DEF f
    <2> QED BY <1>1, <2>1
  <1> HIDE DEF f
  <1>3. 0 \in T
    BY <1>2
  <1>4. ASSUME NEW j \in T PROVE j + 1 \in T
    <2> SUFFICES ASSUME j + 1 <= n PROVE Deafened(f[j + 1], p, j + 1)
      OBVIOUS
    <2>1. j \in Nat /\ j + 1 \in 1..n /\ (j + 1) - 1 = j /\ Deafened(f[j], p, j)
      OBVIOUS
    <2>2. f[j + 1] = Move(f[j], 1)
      BY <1>2, <2>1
    <2>3. Deafened(Move(f[j], 1), p, j + 1)
      BY <2>1, OneMore
    <2> QED BY <2>2, <2>3
  <1>5. T \in SUBSET Nat
    OBVIOUS
  <1> HIDE DEF T
  <1>6. T = Nat
    BY ONLY <1>3, <1>4, <1>5, Induct
  <1> QED BY <1>2, <1>6 DEF T, ms

\* A zero after the ones, and a zero after that.
LEMMA ZeroRun ==
  ASSUME NEW p, NEW b, NEW l, NEW q \in Levels, NEW t, NEW r, NEW k, NEW c,
         b = Wire("out", l, q, t, p, r, k, c),
         t = Reset(ResetBits) \/ t = Idle(0)
  PROVE  \E w, f : Move(b, 0) = Wire("out", 0, 1, Idle(0), p, r, w, f)
  <1>1. 0 \in Levels
    BY DEF Levels
  <1>2. Move(b, 0) = Edge(High("out", 0, t, p, r, k, c))
    <2> DEFINE W == Wire("out", l, q, t, p, r, k, c)
    <2>1. Moved(W, "out", l, q, t, p, r, k, c)
      BY AnyMove
    <2>2. b = W
      OBVIOUS
    <2> HIDE DEF W
    <2> QED BY <1>1, <2>1, <2>2 DEF Moved
  <1> DEFINE e == High("out", 0, t, p, r, k, c)
             x == NextTgt(t, 0, p)
             w == NextTaken(t, Line(e), k)
             f == Fought(c, "out", t)
  <1>3. Line(e) = 0
    <2>1. e.dir = "out" /\ e.level = 0
      BY DEF High
    <2> HIDE DEF e
    <2> QED BY <2>1 DEF Line
  <1>4. Edge(e) = High("out", 0, NextTgt(t, Line(e), p), p, r, NextTaken(t, Line(e), k), Fought(c, "out", t))
    BY AnyEdge
  <1>5. x = Idle(0)
    <2>1. t.state # "answer"
      BY IdleFields, TgtFields DEF Reset
    <2>2. x = WithOnes(Listening(t, 0, p), 0)
      BY <2>1, WireAssumption DEF NextTgt, Counted
    <2>3. WithOnes(Listening(t, 0, p), 0) = Idle(0)
      BY <1>1, Listens
    <2> QED BY <2>2, <2>3
  <1>6. Edge(e) = High("out", 0, x, p, r, w, f)
    BY <1>3, <1>4
  <1> HIDE DEF e, x, w, f
  <1>7. Move(b, 0) = Wire("out", 0, 1, x, p, r, w, f)
    BY <1>2, <1>6, AnyWires DEF e
  <1> QED BY <1>5, <1>7

LEMMA ResetRun ==
  ASSUME NEW p, NEW b, Deafened(b, p, 0)
  PROVE  LET g == Play(b, LineReset) IN g.dir = "out" /\ g.clk = 1 /\ g.tgt.state = "idle"
  <1> DEFINE ones == Times(1, ResetBits)
             zeros == Times(0, 2)
             u == Cat(ones, zeros)
             e == Play(b, ones)
             f == Path(e, zeros)
  <1>1. ResetBits \in Nat
    BY WireAssumption
  <1>2. ones \in Seq(0..9) /\ zeros \in Seq(0..9) /\ Len(zeros) = 2 /\ zeros[1] = 0 /\ zeros[2] = 0
    <2>1. 0 \in 0..9 /\ 1 \in 0..9 /\ 2 \in Nat
      OBVIOUS
    <2>2. ones \in Seq(0..9)
      BY <1>1, <2>1, TimesIs
    <2>3. zeros \in Seq(0..9) /\ Len(zeros) = 2 /\ \A i \in 1..2 : zeros[i] = 0
      BY <2>1, TimesIs
    <2> HIDE DEF zeros
    <2> QED BY <2>2, <2>3
  <1>3. LineReset = u
    BY Zenon DEF LineReset, Cat
  <1>4. Deafened(e, p, ResetBits)
    BY <1>1, OnesRun
  <1> HIDE DEF ones, zeros
  <1>5. Play(b, u) = Play(e, zeros)
    BY <1>2, Then
  <1>6. PICK l, q, t, r, k, c : q \in Levels /\ e = Wire("out", l, q, t, p, r, k, c) /\ t = Reset(ResetBits)
    <2> HIDE DEF e
    <2>1. PICK l, q, t, r, k, c : q \in Levels /\ e = Wire("out", l, q, t, p, r, k, c) /\ Deaf(t, ResetBits)
      BY <1>4 DEF Deafened
    <2>2. ResetBits..(ResetBits - 1) = {} /\ ResetBits # 0
      BY WireAssumption
    <2>3. t = Reset(ResetBits)
      BY <2>1, <2>2 DEF Deaf
    <2> QED BY <2>1, <2>3
  <1> HIDE DEF e
  <1>7. f[1] = Move(e, 0) /\ f[2] = Move(f[1], 0) /\ Play(e, zeros) = f[2]
    <2>1. /\ f[0] = e /\ \A j \in 1..Len(zeros) : f[j] = Move(f[j - 1], zeros[j])
          /\ Play(e, zeros) = f[Len(zeros)]
      <3>1. zeros \in Seq(0..9)
        BY <1>2
      <3> QED BY ONLY <3>1, PathIs
    <2> HIDE DEF f
    <2>2. 1 \in 1..Len(zeros) /\ 2 \in 1..Len(zeros) /\ 1 - 1 = 0 /\ 2 - 1 = 1
      BY <1>2
    <2> QED BY <1>2, <2>1, <2>2
  <1> HIDE DEF f
  <1>8. PICK w1, f1 : f[1] = Wire("out", 0, 1, Idle(0), p, r, w1, f1)
    BY <1>6, <1>7, ZeroRun
  <1>9. PICK w2, f2 : f[2] = Wire("out", 0, 1, Idle(0), p, r, w2, f2)
    <2>1. 1 \in Levels
      BY DEF Levels
    <2> QED BY <1>7, <1>8, <2>1, ZeroRun
  <1>10. Idle(0).state = "idle"
    BY IdleFields
  <1> DEFINE x == Idle(0)
  <1> HIDE DEF x
  <1>11. LET g == Wire("out", 0, 1, x, p, r, w2, f2) IN g.dir = "out" /\ g.clk = 1 /\ g.tgt = x
    BY DEF Wire
  <1>12. Play(b, u) = Wire("out", 0, 1, x, p, r, w2, f2)
    BY <1>5, <1>7, <1>9 DEF x
  <1> HIDE DEF u
  <1>13. Play(b, u).dir = "out" /\ Play(b, u).clk = 1 /\ Play(b, u).tgt = x
    BY <1>11, <1>12
  <1> QED BY <1>3, <1>10, <1>13 DEF x
-----------------------------------------------------------------------------
(* Every command leaves a bus and a target that there can be. *)

Settled == /\ dap_port \in {"disabled", "swd", "jtag"}
           /\ turnaround \in Nat \ {0} /\ data_phase \in BOOLEAN /\ idle_cycles \in Nat
           /\ moves \in 0..PinMoves /\ wcr \in Targets
Wired == /\ dir \in {"in", "out"} /\ level \in Levels /\ clk \in Levels
         /\ TgtOk(tgt, Width + 1 + wcr.turn)
SwdInv == Settled /\ Wired /\ StaysInStep /\ WordsCross

\* The longest part of an answer without a bit that is sent, and the plans there are.
LEMMA PlansOk ==
  ASSUME Settled, NEW p \in Plans
  PROVE  /\ PlanOk(p) /\ (p.noise = 1 => p.ack = OK)
         /\ p.turn = wcr.turn /\ p.data_phase = wcr.data_phase
         /\ wcr.turn \in Nat \ {0} /\ wcr.data_phase \in BOOLEAN
         /\ Short(wcr.turn)
         /\ Width + 1 + wcr.turn \in Nat /\ Width + 1 + wcr.turn < ResetBits
         /\ \A o \in 0..(Width + 1 + wcr.turn) : o + 6 < ResetBits
  <1>1. /\ p \in [ack : Acks, word : Words, noise : Levels, turn : {wcr.turn},
                  data_phase : {wcr.data_phase}, pull : Levels]
        /\ p.noise = 1 => p.ack = OK
    BY DEF Plans
  <1>2. wcr \in [turn : Nat \ {0}, data_phase : BOOLEAN] /\ Width + 7 + wcr.turn < ResetBits
    BY SwdAssumption, ResetAssumption DEF Settled
  <1>3. Words \subseteq [1..Width -> Levels]
    BY SwdAssumption
  <1>4. wcr.turn \in Nat \ {0} /\ wcr.data_phase \in BOOLEAN
    BY <1>2
  <1>5. p.turn = wcr.turn /\ p.data_phase = wcr.data_phase
    BY <1>1
  <1>6. PlanOk(p)
    BY <1>1, <1>3, <1>4, <1>5 DEF PlanOk
  <1> DEFINE n == wcr.turn
  <1>7. n \in Nat \ {0} /\ Width + 7 + n < ResetBits /\ Width \in Nat /\ ResetBits \in Nat
    BY <1>2, <1>4, WireAssumption
  <1> HIDE DEF n
  <1>8. /\ Short(n) /\ Width + 1 + n \in Nat /\ Width + 1 + n < ResetBits
        /\ \A o \in 0..(Width + 1 + n) : o + 6 < ResetBits
    BY ONLY <1>7 DEF Short
  <1> QED BY <1>1, <1>4, <1>5, <1>6, <1>8 DEF n

\* Whatever moves a command makes.
LEMMA Leave ==
  ASSUME Settled, Wired, NEW p \in Plans, NEW ms \in Seq(0..9)
  PROVE  BusOk(Play(Bus(p), ms), p, Width + 1 + wcr.turn)
  <1> DEFINE M == Width + 1 + wcr.turn
             e == <<>>
             b == Wire(dir, level, clk, tgt, p, e, e, Never)
  <1>1. PlanOk(p) /\ p.turn = wcr.turn /\ M \in Nat /\ M < ResetBits
    BY PlansOk
  <1>2. Bus(p) = b
    BY DEF Bus, Wire, Never
  <1>3. M = Width + 1 + p.turn
    BY <1>1
  <1>4. TgtOk(tgt, M) /\ dir \in {"in", "out"} /\ level \in Levels /\ clk \in Levels
    BY DEF Wired
  <1> HIDE DEF M, e
  <1>5. BusOk(b, p, M)
    BY <1>4 DEF BusOk
  <1> HIDE DEF b
  <1>6. BusOk(Play(b, ms), p, M)
    BY <1>1, <1>3, <1>5, PlayOk
  <1> QED BY <1>2, <1>6 DEF M

\* What the end of a command leaves, from the bus it leaves.
LEMMA WiredNext ==
  ASSUME Settled, NEW p, NEW b, BusOk(b, p, Width + 1 + wcr.turn), wcr' = wcr,
         dir' = b.dir, level' = b.level, clk' = b.clk, tgt' = b.tgt
  PROVE  Wired'
  <1> DEFINE M == Width + 1 + wcr.turn
  <1>1. PICK d, l, q, t, r, k, c :
           /\ d \in {"in", "out"} /\ l \in Levels /\ q \in Levels
           /\ b = Wire(d, l, q, t, p, r, k, c) /\ TgtOk(t, M)
    BY DEF BusOk
  <1>2. b.dir = d /\ b.level = l /\ b.clk = q /\ b.tgt = t
    BY <1>1 DEF Wire
  <1>3. (Width + 1 + wcr.turn)' = M
    OBVIOUS
  <1>4. TgtOk(tgt', M)
    BY <1>1, <1>2
  <1> QED BY <1>1, <1>2, <1>3, <1>4 DEF Wired
-----------------------------------------------------------------------------
(* What is noted of a command. *)

Note(kind, req, a, w, p, k, c) == [kind |-> kind, request |-> req, ack |-> a, word |-> w,
                                   plan |-> p, taken |-> k, clash |-> c]

LEMMA NoteIs ==
  ASSUME NEW kind, NEW req, NEW a, NEW w, NEW p, NEW k
  PROVE  LET n == Note(kind, req, a, w, p, k, Never)
         IN /\ n.kind = kind /\ n.request = req /\ n.ack = a /\ n.word = w
            /\ n.plan = p /\ n.taken = k /\ n.clash = Never
  BY DEF Note

LEMMA NotedTransfer ==
  ASSUME NEW b, NEW a, NEW w, NEW req, NEW p, Result(b, a, w, req, p),
         dir' = b.dir, clk' = b.clk, tgt' = b.tgt,
         swd_op' = Note("transfer", req, a, w, b.plan, b.taken, b.clash)
  PROVE  StaysInStep' /\ WordsCross'
  <1>1. /\ b.dir = "out" /\ b.clk = 1 /\ b.tgt.state = "idle" /\ b.clash = Never /\ b.plan = p
        /\ a = IF p.ack = OK /\ RnW(req) /\ p.noise = 1 THEN ERROR ELSE p.ack
        /\ a = OK /\ RnW(req) => w = p.word
        /\ b.taken = IF p.ack = OK /\ ~RnW(req) THEN Append(w, Parity(w)) ELSE <<>>
    BY DEF Result, Framed
  <1> DEFINE k == b.taken
             v == swd_op'
  <1> HIDE DEF k
  <1>2. swd_op' = Note("transfer", req, a, w, p, k, Never)
    BY <1>1 DEF k
  <1>3. /\ swd_op'.kind = "transfer" /\ swd_op'.request = req /\ swd_op'.ack = a /\ swd_op'.word = w
        /\ swd_op'.plan = p /\ swd_op'.taken = k /\ swd_op'.clash = Never
    BY <1>2, NoteIs
  <1>4. StaysInStep'
    BY <1>1, <1>3 DEF StaysInStep, Transferred, Sequenced, InStep, Never
  <1>5. WordsCross'
    <2>1. Transferred' /\ ~Sequenced'
      BY <1>3 DEF Transferred, Sequenced
    <2>2. k = IF p.ack = OK /\ ~RnW(req) THEN Append(w, Parity(w)) ELSE <<>>
      BY <1>1 DEF k
    <2> QED BY <1>1, <1>3, <2>1, <2>2 DEF WordsCross
  <1> QED BY <1>4, <1>5

LEMMA NotedSequence ==
  ASSUME NEW b, NEW a, NEW w, NEW req, NEW p, NEW k,
         p.ack = OK => /\ b.dir = "out" /\ b.clk = 1 /\ b.tgt.state = "idle" /\ b.clash = Never
                       /\ a = OK /\ w = p.word,
         b.plan = p,
         dir' = b.dir, clk' = b.clk, tgt' = b.tgt,
         swd_op' = Note("sequence", req, a, w, b.plan, b.taken, b.clash)
  PROVE  StaysInStep' /\ WordsCross'
  <1>1. /\ swd_op'.kind = "sequence" /\ swd_op'.ack = a /\ swd_op'.word = w /\ swd_op'.plan = p
    BY DEF Note
  <1>2. p.ack = OK => swd_op'.clash = Never
    <2> SUFFICES ASSUME p.ack = OK PROVE swd_op'.clash = Never
      OBVIOUS
    <2>1. swd_op' = Note("sequence", req, a, w, b.plan, b.taken, Never)
      OBVIOUS
    <2> QED BY <2>1, NoteIs
  <1>3. StaysInStep'
    BY <1>1, <1>2 DEF StaysInStep, Transferred, Sequenced, InStep, Never
  <1>4. WordsCross'
    <2>1. ~Transferred' /\ (Sequenced' => p.ack = OK)
      BY <1>1 DEF Transferred, Sequenced
    <2> QED BY <1>1, <2>1 DEF WordsCross
  <1> QED BY <1>3, <1>4

LEMMA NotedOther ==
  ASSUME swd_op'.kind \notin {"transfer", "sequence"},
         swd_op'.kind = "swj" /\ swd_op'.word = LineReset => InStep'
  PROVE  StaysInStep' /\ WordsCross'
  BY DEF StaysInStep, WordsCross, Transferred, Sequenced
-----------------------------------------------------------------------------
(* The moves of the commands. *)

LEMMA MovesAre ==
  /\ \A m \in 0..9 : <<m>> \in Seq(0..9)
  /\ \A m \in 0..9, n \in Nat : Times(m, n) \in Seq(0..9)
  /\ \A s \in Seq(0..9), u \in Seq(0..9) : s \o u \in Seq(0..9)
  /\ \A bits \in Seq(Levels) : bits \in Seq(0..9)
  <1>1. \A m \in 0..9 : <<m>> \in Seq(0..9)
    OBVIOUS
  <1>2. \A m \in 0..9, n \in Nat : Times(m, n) \in Seq(0..9)
    BY TimesIs
  <1>3. \A s \in Seq(0..9), u \in Seq(0..9) : s \o u \in Seq(0..9)
    BY ConcatProperties
  <1>4. \A bits \in Seq(Levels) : bits \in Seq(0..9)
    <2>1. Levels \subseteq 0..9
      BY DEF Levels
    <2> QED BY <2>1, SeqMonotonic
  <1> QED BY <1>1, <1>2, <1>3, <1>4

LEMMA PinMovesAre ==
  /\ Pulse \in 0..9 /\ Sample \in 0..9 /\ DioOut \in 0..9 /\ DioIn \in 0..9
  /\ \A v \in Levels : Dio(v) \in 0..9 /\ Tck(v) \in 0..9
  BY DEF Pulse, Sample, DioOut, DioIn, Dio, Tck, Levels

LEMMA TransferMoves ==
  ASSUME Settled, NEW req \in [1..4 -> Levels], NEW word \in [1..Width -> Levels], NEW ack
  PROVE  Ask(req) \in Seq(0..9) /\ SwdRest(req, word, ack) \in Seq(0..9)
  <1> DEFINE turn == Turnaround
             cells == Times(Sample, Width + 1)
             pulses == Times(Pulse, Width + 1)
             out == <<DioOut>>
             in == <<DioIn>>
             low == <<Dio(0)>>
             high == <<Dio(1)>>
             outlow == <<DioOut, Dio(0)>>
             idle == Times(Pulse, idle_cycles)
             bits == Append(word, Parity(word))
             acks == Times(Sample, 3)
             header == Header(req)
             MS == Seq(0..9)
  <1>1. turnaround \in Nat /\ Width + 1 \in Nat /\ idle_cycles \in Nat /\ 3 \in Nat
        /\ 0 \in Levels /\ 1 \in Levels
    BY WireAssumption DEF Settled, Levels
  <1>2. turn \in MS /\ cells \in MS /\ pulses \in MS /\ idle \in MS /\ acks \in MS
    BY <1>1, MovesAre, PinMovesAre DEF Turnaround
  <1>3. out \in MS /\ in \in MS /\ low \in MS /\ high \in MS
    BY <1>1, MovesAre, PinMovesAre
  <1>4. outlow \in MS
    <2> DEFINE x == DioOut
               y == Dio(0)
    <2>1. x \in 0..9 /\ y \in 0..9
      BY <1>1, PinMovesAre
    <2> HIDE DEF x, y
    <2>2. <<x, y>> \in Seq(0..9)
      BY <2>1
    <2> QED BY <2>2 DEF x, y
  <1>5. bits \in MS
    <2> DEFINE v == Parity(word)
    <2>1. v \in Levels
      BY ParityBit, WireAssumption
    <2> HIDE DEF v
    <2>2. Framed(word, v) \in Seq(Levels)
      BY <2>1, FramedIs
    <2> QED BY <2>2, MovesAre DEF Framed, v
  <1>6. header \in MS
    <2>1. header \in Seq(Levels)
      BY HeaderIs
    <2> HIDE DEF header
    <2> QED BY <2>1, MovesAre
  <1>7. Ask(req) = ((header \o in) \o turn) \o acks
    BY DEF Ask
  <1>8. Data(req, word) = IF RnW(req) THEN (cells \o turn) \o out ELSE (turn \o out) \o bits
    BY DEF Data
  <1>9. Refused(req) \in {turn \o out, (pulses \o turn) \o out, (turn \o outlow) \o pulses}
    <2>1. data_phase \in BOOLEAN
      BY DEF Settled
    <2> DEFINE x == turn \o out
               y == (pulses \o turn) \o out
               z == (turn \o outlow) \o pulses
    <2>2. Refused(req) = CASE ~data_phase -> x [] data_phase /\ RnW(req) -> y [] OTHER -> z
      BY DEF Refused
    <2> HIDE DEF x, y, z
    <2>3. Refused(req) = x \/ Refused(req) = y \/ Refused(req) = z
      BY <2>1, <2>2
    <2> QED BY <2>3 DEF x, y, z
  <1> DEFINE data == Data(req, word)
             refused == Refused(req)
             x1 == (data \o low) \o idle
             x3 == turn \o pulses
  <1>10. SwdRest(req, word, ack) \in {x1 \o high, refused \o high, x3 \o high}
    <2>1. SwdRest(req, word, ack) = (CASE ack = OK -> x1 [] ack \in {WAIT, FAULT} -> refused
                                       [] OTHER -> x3) \o high
      BY DEF SwdRest
    <2> HIDE DEF x1, refused, x3, high
    <2>2. OK \notin {WAIT, FAULT}
      BY AcksDiffer
    <2>3. (CASE ack = OK -> x1 [] ack \in {WAIT, FAULT} -> refused [] OTHER -> x3) \in {x1, refused, x3}
      BY <2>2
    <2> QED BY <2>1, <2>3
  <1> HIDE DEF turn, cells, pulses, out, in, low, high, outlow, idle, bits, acks, header, MS
  <1>11. \A s \in MS, u \in MS : s \o u \in MS
    BY MovesAre DEF MS
  <1>12. Ask(req) \in MS
    BY <1>2, <1>3, <1>6, <1>7, <1>11
  <1>13. data \in MS
    <2>1. (cells \o turn) \o out \in MS /\ (turn \o out) \o bits \in MS
      BY <1>2, <1>3, <1>5, <1>11
    <2> QED BY <1>8, <2>1
  <1>14. refused \in MS
    <2>1. turn \o out \in MS /\ (pulses \o turn) \o out \in MS /\ (turn \o outlow) \o pulses \in MS
      BY <1>2, <1>3, <1>4, <1>11
    <2> QED BY <1>9, <2>1
  <1> HIDE DEF data, refused
  <1>15. x1 \o high \in MS /\ refused \o high \in MS /\ x3 \o high \in MS
    BY <1>2, <1>3, <1>11, <1>13, <1>14
  <1>16. SwdRest(req, word, ack) \in MS
    BY <1>10, <1>15
  <1> QED BY <1>12, <1>16 DEF MS
-----------------------------------------------------------------------------
(* The commands, one by one. *)

\* The end of a command, with what is noted spelt out.
LEMMA LeavesIs ==
  ASSUME NEW b, NEW kind, NEW sound \in BOOLEAN, NEW req, NEW a, NEW w,
         Leaves(b, [kind |-> kind, sound |-> sound, request |-> req, ack |-> a, word |-> w])
  PROVE  /\ dir' = b.dir /\ level' = b.level /\ clk' = b.clk /\ tgt' = b.tgt
         /\ sound => swd_op' = Note(kind, req, a, w, b.plan, b.taken, b.clash)
         /\ ~sound => swd_op'.kind = "other"
  <1> DEFINE what == [kind |-> kind, sound |-> sound, request |-> req, ack |-> a, word |-> w]
  <1>1. what.kind = kind /\ what.request = req /\ what.ack = a /\ what.word = w
    OBVIOUS
  <1>2. what.sound = sound
    BY Zenon
  <1> HIDE DEF what
  <1>3. /\ dir' = b.dir /\ level' = b.level /\ clk' = b.clk /\ tgt' = b.tgt
        /\ swd_op' = IF what.sound
                     THEN [kind |-> what.kind, request |-> what.request, ack |-> what.ack,
                           word |-> what.word, plan |-> b.plan, taken |-> b.taken, clash |-> b.clash]
                     ELSE [kind |-> "other"]
    BY DEF Leaves, what
  <1>4. ASSUME sound PROVE swd_op' = Note(kind, req, a, w, b.plan, b.taken, b.clash)
    <2>1. what.sound
      BY <1>2, <1>4
    <2>2. swd_op' = Note(what.kind, what.request, what.ack, what.word, b.plan, b.taken, b.clash)
      BY <1>3, <2>1, Zenon DEF Note
    <2> QED BY <1>1, <2>2
  <1>5. ASSUME ~sound PROVE swd_op'.kind = "other"
    <2>1. ~what.sound
      BY <1>2, <1>5
    <2>2. swd_op' = [kind |-> "other"]
      BY <1>3, <2>1, Zenon
    <2> QED BY <2>2
  <1> QED BY <1>3, <1>4, <1>5

\* A command that notes nothing.
LEMMA SilentIs ==
  ASSUME NEW b, Leaves(b, Silent)
  PROVE  /\ dir' = b.dir /\ level' = b.level /\ clk' = b.clk /\ tgt' = b.tgt
         /\ StaysInStep' /\ WordsCross'
  <1>1. /\ dir' = b.dir /\ level' = b.level /\ clk' = b.clk /\ tgt' = b.tgt
        /\ swd_op'.kind = "other"
    BY LeavesIs DEF Silent
  <1> QED BY <1>1, NotedOther

LEMMA TransferKeeps ==
  ASSUME Settled, Wired, NEW req \in [1..4 -> Levels], NEW word \in Words, NEW plan \in Plans,
         Transfer(req, word, plan)
  PROVE  Settled' /\ Wired' /\ StaysInStep' /\ WordsCross'
  <1> DEFINE r == SwdOperation(req, word, plan)
             sound == InStep /\ Agreed
             c == Play(Bus(plan), Ask(req))
             d == Play(c, SwdRest(req, word, c.read))
             M == Width + 1 + wcr.turn
  <1>1. /\ Leaves(r.bus, [kind |-> "transfer", sound |-> sound, request |-> req,
                          ack |-> r.ack, word |-> r.word])
        /\ UNCHANGED <<dap_port, settings, wcr, moves>>
    BY DEF Transfer
  <1>2. word \in [1..Width -> Levels]
    BY SwdAssumption
  <1>3. /\ PlanOk(plan) /\ (plan.noise = 1 => plan.ack = OK)
        /\ plan.turn = wcr.turn /\ plan.data_phase = wcr.data_phase
        /\ Short(wcr.turn) /\ M \in Nat /\ M < ResetBits
        /\ \A o \in 0..M : o + 6 < ResetBits
    BY PlansOk
  <1>4. r.bus = d
    BY DEF SwdOperation
  <1>5. sound \in BOOLEAN
    BY DEF InStep, Agreed
  <1>6. Ask(req) \in Seq(0..9) /\ SwdRest(req, word, c.read) \in Seq(0..9)
    BY <1>2, TransferMoves
  <1>7. BusOk(c, plan, M)
    BY <1>6, Leave
  <1> HIDE DEF r, c, sound, M
  <1>8. BusOk(d, plan, M)
    <2>1. M = Width + 1 + plan.turn
      BY <1>3 DEF M
    <2> QED BY <1>3, <1>6, <1>7, <2>1, PlayOk
  <1> HIDE DEF d
  <1>9. /\ dir' = r.bus.dir /\ level' = r.bus.level /\ clk' = r.bus.clk /\ tgt' = r.bus.tgt
        /\ sound => swd_op' = Note("transfer", req, r.ack, r.word, r.bus.plan, r.bus.taken, r.bus.clash)
        /\ ~sound => swd_op'.kind = "other"
    BY <1>1, <1>5, LeavesIs
  <1>10. Settled'
    BY <1>1 DEF Settled, settings
  <1>11. Wired'
    <2>1. wcr' = wcr
      BY <1>1
    <2> QED BY <1>4, <1>8, <1>9, <2>1, WiredNext DEF M
  <1>12. StaysInStep' /\ WordsCross'
    <2>1. CASE sound
      <3>1. /\ dir = "out" /\ clk = 1 /\ tgt.state = "idle"
            /\ turnaround = wcr.turn /\ data_phase = wcr.data_phase
        BY <2>1 DEF sound, InStep, Agreed
      <3>2. PICK o \in 0..M : tgt = Idle(o)
        BY <1>3, <3>1, TgtIs DEF Wired, M
      <3>3. o \in Nat /\ o + 6 < ResetBits
        BY <1>3, <3>2
      <3>4. idle_cycles \in Nat /\ level \in Levels
        BY DEF Settled, Wired
      <3>5. Result(r.bus, r.ack, r.word, req, plan)
        BY <1>2, <1>3, <3>1, <3>2, <3>3, <3>4, TransferResult DEF r
      <3> QED BY <1>9, <2>1, <3>5, NotedTransfer
    <2>2. CASE ~sound
      BY <1>9, <2>2, NotedOther
    <2> QED BY <2>1, <2>2
  <1> QED BY <1>10, <1>11, <1>12

LEMMA SilentKeeps ==
  ASSUME Settled, Wired, NEW p \in Plans, NEW ms \in Seq(0..9), Leaves(Play(Bus(p), ms), Silent), wcr' = wcr
  PROVE  Wired' /\ StaysInStep' /\ WordsCross'
  <1> DEFINE b == Play(Bus(p), ms)
             M == Width + 1 + wcr.turn
  <1>1. BusOk(b, p, M)
    BY Leave
  <1> HIDE DEF b
  <1>2. /\ dir' = b.dir /\ level' = b.level /\ clk' = b.clk /\ tgt' = b.tgt
        /\ StaysInStep' /\ WordsCross'
    BY SilentIs DEF b
  <1>3. Wired'
    BY <1>1, <1>2, WiredNext
  <1> QED BY <1>2, <1>3

LEMMA SequencesAre == LineReset \in Seq(0..9) /\ Times(0, 2) \in Seq(0..9) /\ LineReset # Times(0, 2)
  <1>1. ResetBits \in Nat /\ ResetBits > 0 /\ 2 \in Nat /\ 0 \in 0..9 /\ 1 \in 0..9
    BY WireAssumption
  <1> DEFINE a == Times(1, ResetBits)
             z == Times(0, 2)
             u == Cat(a, z)
  <1>2. a \in Seq(0..9) /\ Len(a) = ResetBits
    BY <1>1, TimesIs
  <1>3. z \in Seq(0..9) /\ Len(z) = 2
    BY <1>1, TimesIs
  <1> HIDE DEF a, z
  <1>4. u \in Seq(0..9) /\ IsCat(u, a, z)
    BY <1>2, <1>3, CatIs
  <1>5. LineReset = u
    BY Zenon DEF LineReset, u, a, z, Cat
  <1> HIDE DEF u
  <1>6. u # z
    <2>1. Len(u) = ResetBits + 2
      BY <1>2, <1>3, <1>4 DEF IsCat
    <2>2. Len(u) # Len(z)
      BY <1>1, <1>3, <2>1
    <2> QED BY <2>2, Zenon
  <1> QED BY <1>3, <1>4, <1>5, <1>6 DEF z

LEMMA ByWires ==
  ASSUME NEW p, NEW b, NEW l, NEW q \in Levels, NEW t, NEW r, NEW k, NEW c,
         b = Wire("out", l, q, t, p, r, k, c), Deaf(t, 0)
  PROVE  Deafened(b, p, 0)
  BY DEF Deafened

\* A target that listens and has no request to answer will be reset.
LEMMA ListenerIsDeaf ==
  ASSUME Settled, Wired, NEW p \in Plans, dir = "out", tgt.state # "answer", ~RequestPending
  PROVE  Deafened(Bus(p), p, 0)
  <1> DEFINE M == Width + 1 + wcr.turn
  <1>1. M \in Nat /\ M < ResetBits
    BY PlansOk
  <1>2. TgtOk(tgt, M)
    BY DEF Wired
  <1> HIDE DEF M
  <1>3. ASSUME NEW o \in 0..M, tgt = Idle(o) PROVE Deaf(tgt, 0)
    <2>1. o \in 0..(ResetBits - 1)
      BY <1>1, WireAssumption
    <2> QED BY <1>3, <2>1 DEF Deaf
  <1>4. ASSUME NEW o \in 0..(ResetBits - 1), NEW h \in Seq(Levels), Len(h) \in 1..7, tgt = Hears(h, o)
        PROVE  Deaf(tgt, 0)
    <2>1. tgt.heard = h
      BY <1>4, TgtFields DEF Hears
    <2>2. ~Pending(h)
      BY <2>1 DEF RequestPending, Pending, Put
    <2> QED BY <1>4, <2>2 DEF Deaf
  <1>5. ASSUME NEW s, NEW o, tgt = Rest(s, o) PROVE FALSE
    BY <1>5, RestFields
  <1>6. Deaf(tgt, 0)
    <2>1. CASE \E o \in 0..M : tgt = Idle(o)
      BY <1>3, <2>1
    <2>2. CASE \E o \in 0..(ResetBits - 1), h \in Seq(Levels) : Len(h) \in 1..7 /\ tgt = Hears(h, o)
      BY <1>4, <2>2
    <2>3. CASE \E o \in 0..(ResetBits - 1) : tgt = Lost(o)
      BY <2>3 DEF Deaf
    <2>4. CASE tgt = Reset(ResetBits)
      BY <2>4 DEF Deaf
    <2> QED BY <1>2, <1>5, <2>1, <2>2, <2>3, <2>4 DEF TgtOk
  <1> DEFINE e == <<>>
  <1>7. Bus(p) = Wire("out", level, clk, tgt, p, e, e, Never)
    BY DEF Bus, Wire, Never
  <1>8. clk \in Levels
    BY DEF Wired
  <1> HIDE DEF e
  <1> DEFINE b == Bus(p)
             l == level
             q == clk
             t == tgt
  <1>9. b = Wire("out", l, q, t, p, e, e, Never) /\ q \in Levels /\ Deaf(t, 0)
    BY <1>6, <1>7, <1>8
  <1> HIDE DEF b, l, q, t
  <1>10. Deafened(b, p, 0)
    BY ONLY <1>9, ByWires
  <1> QED BY <1>10 DEF b

LEMMA SwjSequenceKeeps ==
  ASSUME Settled, Wired, NEW bits \in Sequences, NEW plan \in Quiet, SwjSequence(bits, plan)
  PROVE  Settled' /\ Wired' /\ StaysInStep' /\ WordsCross'
  <1> DEFINE b == Play(Bus(plan), bits)
             M == Width + 1 + wcr.turn
             sound == dir = "out" /\ tgt.state # "answer" /\ ~RequestPending
             e == <<>>
  <1>1. plan \in Plans
    BY DEF Quiet
  <1>2. bits \in Seq(0..9) /\ (bits = LineReset \/ bits = Times(0, 2))
    BY SequencesAre DEF Sequences
  <1>3. BusOk(b, plan, M)
    BY <1>1, <1>2, Leave
  <1>4. Swj(bits) = [kind |-> "swj", sound |-> sound, request |-> e, ack |-> e, word |-> bits]
    BY Zenon DEF Swj
  <1>5. Leaves(b, Swj(bits)) /\ UNCHANGED <<dap_port, settings, wcr, moves>>
    BY DEF SwjSequence
  <1>6. sound \in BOOLEAN
    BY DEF RequestPending
  <1>7. bits = LineReset /\ sound => b.dir = "out" /\ b.clk = 1 /\ b.tgt.state = "idle"
    <2> SUFFICES ASSUME bits = LineReset, sound PROVE b.dir = "out" /\ b.clk = 1 /\ b.tgt.state = "idle"
      OBVIOUS
    <2>1. Deafened(Bus(plan), plan, 0)
      BY <1>1, ListenerIsDeaf
    <2> QED BY <2>1, ResetRun
  <1> HIDE DEF b, sound, e
  <1>8. /\ dir' = b.dir /\ level' = b.level /\ clk' = b.clk /\ tgt' = b.tgt
        /\ sound => swd_op' = Note("swj", e, e, bits, b.plan, b.taken, b.clash)
        /\ ~sound => swd_op'.kind = "other"
    <2>1. Leaves(b, [kind |-> "swj", sound |-> sound, request |-> e, ack |-> e, word |-> bits])
      BY <1>4, <1>5
    <2> QED BY <1>6, <2>1, LeavesIs
  <1>9. Settled'
    BY <1>5 DEF Settled, settings
  <1>10. Wired'
    <2>1. wcr' = wcr
      BY <1>5
    <2> QED BY <1>3, <1>8, <2>1, WiredNext
  <1>11. StaysInStep' /\ WordsCross'
    <2>1. CASE sound
      <3>1. swd_op'.kind = "swj" /\ swd_op'.word = bits
        BY <1>8, <2>1 DEF Note
      <3>2. swd_op'.word = LineReset => InStep'
        BY <1>7, <1>8, <2>1, <3>1 DEF InStep
      <3> QED BY <3>1, <3>2, NotedOther
    <2>2. CASE ~sound
      BY <1>8, <2>2, NotedOther
    <2> QED BY <2>1, <2>2
  <1> QED BY <1>9, <1>10, <1>11

LEMMA SwdSequenceKeeps ==
  ASSUME Settled, Wired, NEW req \in [1..4 -> Levels], RnW(req), NEW plan \in Plans, SwdSequence(req, plan)
  PROVE  Settled' /\ Wired' /\ StaysInStep' /\ WordsCross'
  <1> DEFINE n == wcr.turn
             ms == ReadSequence(req, n)
             b == Play(Bus(plan), ms)
             M == Width + 1 + n
             sound == clk = 1 /\ tgt.state = "idle"
             a == SubSeq(b.read, n + 1, n + 3)
             w == SubSeq(b.read, n + 4, n + 3 + Width)
  <1>1. /\ PlanOk(plan) /\ plan.turn = n /\ n \in Nat \ {0} /\ Short(n) /\ M \in Nat /\ M < ResetBits
        /\ \A o \in 0..M : o + 6 < ResetBits
    BY PlansOk
  <1>2. Leaves(b, [kind |-> "sequence", sound |-> sound, request |-> req, ack |-> a, word |-> w])
        /\ UNCHANGED <<dap_port, settings, wcr, moves>>
    BY DEF SwdSequence, ReadSequence
  <1>3. ms \in Seq(0..9)
    <2> DEFINE x == <<DioOut>>
               y == <<DioIn>>
               H == Header(req)
               k == n + 3 + Width + 1 + n
               c == Times(Sample, k)
    <2>1. k \in Nat
      BY <1>1, WireAssumption
    <2>2. x \in Seq(0..9) /\ y \in Seq(0..9)
      BY MovesAre, PinMovesAre
    <2>3. H \in Seq(0..9)
      <3>1. H \in Seq(Levels)
        BY HeaderIs
      <3> HIDE DEF H
      <3> QED BY <3>1, MovesAre
    <2> HIDE DEF k
    <2>4. c \in Seq(0..9)
      BY <2>1, MovesAre, PinMovesAre
    <2>5. ms = (((x \o H) \o y) \o c) \o x
      BY DEF ReadSequence, k
    <2> HIDE DEF x, y, H, c, ms
    <2> DEFINE MS == Seq(0..9)
    <2>6. \A s \in MS, u \in MS : s \o u \in MS
      BY MovesAre
    <2>7. x \in MS /\ y \in MS /\ H \in MS /\ c \in MS
      BY <2>2, <2>3, <2>4
    <2> HIDE DEF MS
    <2>8. ms \in MS
      BY <2>5, <2>6, <2>7
    <2> QED BY <2>8 DEF MS
  <1>4. BusOk(b, plan, M)
    <2> HIDE DEF ms
    <2> QED BY <1>3, Leave
  <1>5. sound \in BOOLEAN
    OBVIOUS
  <1>6. sound /\ plan.ack = OK =>
           /\ b.dir = "out" /\ b.clk = 1 /\ b.tgt.state = "idle" /\ b.clash = Never /\ b.plan = plan
           /\ a = OK /\ w = plan.word
    <2> SUFFICES ASSUME sound, plan.ack = OK
                 PROVE  /\ b.dir = "out" /\ b.clk = 1 /\ b.tgt.state = "idle" /\ b.clash = Never /\ b.plan = plan
                        /\ a = OK /\ w = plan.word
      OBVIOUS
    <2>1. PICK o \in 0..M : tgt = Idle(o)
      BY <1>1, TgtIs DEF Wired
    <2>2. o \in Nat /\ o + 6 < ResetBits
      BY <1>1, <2>1
    <2>3. clk = 1 /\ dir \in {"in", "out"} /\ level \in Levels
      BY DEF Wired
    <2>4. n = plan.turn /\ Short(n) /\ PlanOk(plan)
      BY <1>1
    <2> HIDE DEF M, n
    <2> QED BY <2>1, <2>2, <2>3, <2>4, SequenceResult
  <1>7. b.plan = plan
    <2> HIDE DEF b
    <2>1. PICK d, l, q, t, r, k, c : b = Wire(d, l, q, t, plan, r, k, c)
      BY <1>4 DEF BusOk
    <2> QED BY <2>1 DEF Wire
  <1> HIDE DEF b, sound, a, w
  <1>8. /\ dir' = b.dir /\ level' = b.level /\ clk' = b.clk /\ tgt' = b.tgt
        /\ sound => swd_op' = Note("sequence", req, a, w, b.plan, b.taken, b.clash)
        /\ ~sound => swd_op'.kind = "other"
    BY <1>2, <1>5, LeavesIs
  <1>9. Settled'
    BY <1>2 DEF Settled, settings
  <1>10. Wired'
    <2>1. wcr' = wcr
      BY <1>2
    <2> QED BY <1>4, <1>8, <2>1, WiredNext
  <1>11. StaysInStep' /\ WordsCross'
    <2>1. CASE sound
      BY <1>6, <1>7, <1>8, <2>1, NotedSequence
    <2>2. CASE ~sound
      BY <1>8, <2>2, NotedOther
    <2> QED BY <2>1, <2>2
  <1> QED BY <1>9, <1>10, <1>11

LEMMA PinCommands ==
  ASSUME NEW selected, NEW v \in Levels
  PROVE  /\ (IF "SWCLK" \in selected THEN <<Tck(v)>> ELSE <<>>)
            \o (IF "SWDIO" \in selected THEN <<Dio(v)>> ELSE <<>>) \in Seq(0..9)
         /\ ConnectPins \in Seq(0..9) /\ PlatformInit \in Seq(0..9) /\ <<>> \in Seq(0..9)
  <1> DEFINE a == DioOut
             b == Dio(1)
             c == Tck(1)
             x == Tck(v)
             y == Dio(v)
             s == IF "SWCLK" \in selected THEN <<x>> ELSE <<>>
             u == IF "SWDIO" \in selected THEN <<y>> ELSE <<>>
  <1>1. a \in 0..9 /\ b \in 0..9 /\ c \in 0..9 /\ x \in 0..9 /\ y \in 0..9
    BY PinMovesAre DEF Levels
  <1> HIDE DEF a, b, c, x, y
  <1>2. <<a, b, c>> \in Seq(0..9) /\ <<c, b, a>> \in Seq(0..9) /\ <<>> \in Seq(0..9)
    BY <1>1
  <1>3. s \in Seq(0..9) /\ u \in Seq(0..9)
    <2>1. <<x>> \in Seq(0..9) /\ <<y>> \in Seq(0..9) /\ <<>> \in Seq(0..9)
      BY <1>1
    <2> QED BY <2>1
  <1> HIDE DEF s, u
  <1>4. s \o u \in Seq(0..9)
    BY <1>3, MovesAre
  <1> QED BY <1>2, <1>4, Zenon DEF s, u, x, y, a, b, c, ConnectPins, PlatformInit

LEMMA PinsKeep ==
  ASSUME Settled, Wired, NEW plan \in Quiet
  PROVE  /\ \A selected \in SUBSET {"SWCLK", "SWDIO"}, v \in Levels :
               SwjPins(selected, v, plan) => Settled' /\ Wired' /\ StaysInStep' /\ WordsCross'
         /\ \A p \in {"swd", "jtag", "disabled"} :
               Connect(p, plan) => Settled' /\ Wired' /\ StaysInStep' /\ WordsCross'
         /\ Disconnect(plan) \/ DapInit(plan) => Settled' /\ Wired' /\ StaysInStep' /\ WordsCross'
  <1>1. plan \in Plans
    BY DEF Quiet
  <1>2. ASSUME NEW ms \in Seq(0..9), Leaves(Play(Bus(plan), ms), Silent), wcr' = wcr
        PROVE  Wired' /\ StaysInStep' /\ WordsCross'
    BY <1>1, <1>2, SilentKeeps
  <1>3. ConnectPins \in Seq(0..9) /\ PlatformInit \in Seq(0..9) /\ <<>> \in Seq(0..9)
    <2>1. 0 \in Levels
      BY DEF Levels
    <2> QED BY <2>1, PinCommands
  <1>4. ASSUME NEW selected \in SUBSET {"SWCLK", "SWDIO"}, NEW v \in Levels, SwjPins(selected, v, plan)
        PROVE  Settled' /\ Wired' /\ StaysInStep' /\ WordsCross'
    <2> DEFINE ms == (IF "SWCLK" \in selected THEN <<Tck(v)>> ELSE <<>>)
                     \o (IF "SWDIO" \in selected THEN <<Dio(v)>> ELSE <<>>)
    <2>1. ms \in Seq(0..9)
      BY PinCommands
    <2>2. /\ Leaves(Play(Bus(plan), ms), Silent)
          /\ moves < PinMoves /\ moves' = moves + 1
          /\ UNCHANGED <<dap_port, settings, wcr>>
      BY <1>4 DEF SwjPins
    <2> HIDE DEF ms
    <2>3. Wired' /\ StaysInStep' /\ WordsCross'
      BY <1>2, <2>1, <2>2
    <2>4. Settled'
      BY <2>2, SwdAssumption DEF Settled, settings
    <2> QED BY <2>3, <2>4
  <1>5. ASSUME NEW p \in {"swd", "jtag", "disabled"}, Connect(p, plan)
        PROVE  Settled' /\ Wired' /\ StaysInStep' /\ WordsCross'
    <2> DEFINE ms == IF p = "disabled" THEN <<>> ELSE ConnectPins
    <2>1. ms \in Seq(0..9)
      BY <1>3
    <2>2. /\ Leaves(Play(Bus(plan), ms), Silent)
          /\ dap_port' = p /\ UNCHANGED <<settings, wcr, moves>>
      BY <1>5 DEF Connect
    <2> HIDE DEF ms
    <2>3. Wired' /\ StaysInStep' /\ WordsCross'
      BY <1>2, <2>1, <2>2
    <2>4. Settled'
      BY <2>2 DEF Settled, settings
    <2> QED BY <2>3, <2>4
  <1>6. ASSUME Disconnect(plan) PROVE Settled' /\ Wired' /\ StaysInStep' /\ WordsCross'
    <2>1. /\ Leaves(Play(Bus(plan), PlatformInit), Silent)
          /\ dap_port' = "disabled" /\ UNCHANGED <<settings, wcr, moves>>
      BY <1>6 DEF Disconnect
    <2>2. Wired' /\ StaysInStep' /\ WordsCross'
      BY <1>2, <1>3, <2>1
    <2>3. Settled'
      BY <2>1 DEF Settled, settings
    <2> QED BY <2>2, <2>3
  <1>7. ASSUME DapInit(plan) PROVE Settled' /\ Wired' /\ StaysInStep' /\ WordsCross'
    <2>1. /\ Leaves(Play(Bus(plan), PlatformInit), Silent)
          /\ dap_port' = "disabled" /\ turnaround' = 1 /\ data_phase' = FALSE /\ idle_cycles' = 0
          /\ UNCHANGED <<wcr, moves>>
      BY <1>7 DEF DapInit
    <2>2. Wired' /\ StaysInStep' /\ WordsCross'
      BY <1>2, <1>3, <2>1
    <2>3. data_phase' \in BOOLEAN
      BY <2>1, Zenon
    <2>4. /\ dap_port' \in {"disabled", "swd", "jtag"} /\ turnaround' \in Nat \ {0} /\ idle_cycles' \in Nat
          /\ moves' \in 0..PinMoves /\ wcr' \in Targets
      BY <2>1 DEF Settled
    <2>5. Settled'
      BY <2>3, <2>4, Zenon DEF Settled
    <2> QED BY <2>2, <2>5
  <1> QED BY <1>4, <1>5, <1>6, <1>7

LEMMA SettingsKeep ==
  ASSUME Settled, Wired, StaysInStep, WordsCross
  PROVE  /\ SwdConfigure(1, FALSE) \/ SwdConfigure(wcr.turn, wcr.data_phase)
              => Settled' /\ Wired' /\ StaysInStep' /\ WordsCross'
         /\ \A idle \in IdleCounts :
               TransferConfigure(idle) => Settled' /\ Wired' /\ StaysInStep' /\ WordsCross'
         /\ PowerCycle \/ Respond => Settled' /\ Wired' /\ StaysInStep' /\ WordsCross'
  <1>1. wcr.turn \in Nat \ {0} /\ wcr.data_phase \in BOOLEAN
    <2>1. wcr \in [turn : Nat \ {0}, data_phase : BOOLEAN]
      BY SwdAssumption DEF Settled
    <2> QED BY <2>1
  <1>2. ASSUME swd_op' = NoSwdOp PROVE StaysInStep' /\ WordsCross'
    <2>1. swd_op'.kind = "none"
      BY <1>2 DEF NoSwdOp
    <2> QED BY <2>1, NotedOther
  <1>3. ASSUME UNCHANGED <<pins, tgt, wcr>> PROVE Wired'
    BY <1>3 DEF Wired, pins
  <1>4. ASSUME NEW turn \in Nat \ {0}, NEW phase \in BOOLEAN, SwdConfigure(turn, phase)
        PROVE  Settled' /\ Wired' /\ StaysInStep' /\ WordsCross'
    <2>1. /\ swd_op = NoSwdOp /\ turnaround' = turn /\ data_phase' = phase
          /\ UNCHANGED <<dap_port, idle_cycles, pins, tgt, wcr, moves, swd_op>>
      BY <1>4 DEF SwdConfigure
    <2>2. Wired' /\ StaysInStep' /\ WordsCross'
      BY <1>2, <1>3, <2>1
    <2>3. Settled'
      BY <2>1 DEF Settled
    <2> QED BY <2>2, <2>3
  <1>5. ASSUME NEW idle \in IdleCounts, TransferConfigure(idle)
        PROVE  Settled' /\ Wired' /\ StaysInStep' /\ WordsCross'
    <2>1. /\ swd_op = NoSwdOp /\ idle_cycles' = idle
          /\ UNCHANGED <<dap_port, turnaround, data_phase, pins, tgt, wcr, moves, swd_op>>
      BY <1>5 DEF TransferConfigure
    <2>2. Wired' /\ StaysInStep' /\ WordsCross'
      BY <1>2, <1>3, <2>1
    <2>3. Settled'
      BY <2>1, SwdAssumption DEF Settled
    <2> QED BY <2>2, <2>3
  <1>6. ASSUME PowerCycle PROVE Settled' /\ Wired' /\ StaysInStep' /\ WordsCross'
    <2>1. /\ swd_op = NoSwdOp /\ tgt' = NoTarget
          /\ UNCHANGED <<dap_port, settings, pins, wcr, moves, swd_op>>
      BY <1>6 DEF PowerCycle
    <2>2. StaysInStep' /\ WordsCross'
      BY <1>2, <2>1
    <2>3. TgtOk(tgt', Width + 1 + wcr'.turn)
      <3>1. tgt' = Lost(0) /\ 0 \in 0..(ResetBits - 1)
        BY <2>1, NoTargetIs, WireAssumption DEF Lost
      <3> QED BY <3>1 DEF TgtOk
    <2>4. Wired'
      BY <2>1, <2>3 DEF Wired, pins
    <2>5. Settled'
      BY <2>1 DEF Settled, settings
    <2> QED BY <2>2, <2>4, <2>5
  <1>7. ASSUME Respond PROVE Settled' /\ Wired' /\ StaysInStep' /\ WordsCross'
    <2>1. swd_op' = NoSwdOp /\ UNCHANGED <<dap_port, settings, pins, tgt, wcr, moves>>
      BY <1>7 DEF Respond
    <2>2. Wired' /\ StaysInStep' /\ WordsCross'
      BY <1>2, <1>3, <2>1
    <2>3. Settled'
      BY <2>1 DEF Settled, settings
    <2> QED BY <2>2, <2>3
  <1>8. ASSUME SwdConfigure(1, FALSE) PROVE Settled' /\ Wired' /\ StaysInStep' /\ WordsCross'
    <2>1. 1 \in Nat \ {0} /\ FALSE \in BOOLEAN
      OBVIOUS
    <2> QED BY <1>4, <1>8, <2>1, Zenon
  <1>9. ASSUME SwdConfigure(wcr.turn, wcr.data_phase) PROVE Settled' /\ Wired' /\ StaysInStep' /\ WordsCross'
    BY <1>1, <1>4, <1>9, Zenon
  <1> QED BY ONLY <1>5, <1>6, <1>7, <1>8, <1>9, Zenon
-----------------------------------------------------------------------------
(* All of it. *)

LEMMA SwdInvInit == SwdInit => SwdInv
  <1> SUFFICES ASSUME SwdInit PROVE SwdInv
    OBVIOUS
  <1>1. Settled
    <2>1. data_phase \in BOOLEAN
      BY Zenon DEF SwdInit
    <2>2. /\ dap_port \in {"disabled", "swd", "jtag"} /\ turnaround \in Nat \ {0} /\ idle_cycles \in Nat
          /\ moves \in 0..PinMoves /\ wcr \in Targets
      BY SwdAssumption DEF SwdInit
    <2> QED BY <2>1, <2>2, Zenon DEF Settled
  <1>2. Wired
    <2>1. tgt = Lost(0) /\ 0 \in 0..(ResetBits - 1)
      BY NoTargetIs, WireAssumption DEF SwdInit, Lost
    <2>2. TgtOk(tgt, Width + 1 + wcr.turn)
      BY <2>1 DEF TgtOk
    <2> QED BY <2>2 DEF SwdInit, Wired, Levels
  <1>3. swd_op.kind = "none"
    BY DEF SwdInit, NoSwdOp
  <1>4. StaysInStep /\ WordsCross
    BY <1>3 DEF StaysInStep, WordsCross, Transferred, Sequenced
  <1> QED BY <1>1, <1>2, <1>4 DEF SwdInv

LEMMA SwdInvStep == SwdInv /\ [SwdNext]_swdVars => SwdInv'
  <1> SUFFICES ASSUME SwdInv, [SwdNext]_swdVars PROVE SwdInv'
    OBVIOUS
  <1> DEFINE Keeps == Settled' /\ Wired' /\ StaysInStep' /\ WordsCross'
  <1>1. Settled /\ Wired /\ StaysInStep /\ WordsCross
    BY DEF SwdInv
  <1>2. ASSUME NEW req \in SwdRequests, NEW word \in Words, NEW plan \in Plans, Transfer(req, word, plan)
        PROVE  Keeps
    <2>1. req \in [1..4 -> Levels]
      BY SwdAssumption
    <2> QED BY <1>1, <1>2, <2>1, TransferKeeps
  <1>3. ASSUME NEW word \in Words, NEW plan \in Plans, SwdWriteAbort(word, plan)
        PROVE  Keeps
    <2> DEFINE req == <<0, 0, 0, 0>>
    <2>1. req \in [1..4 -> Levels]
      BY DEF Levels
    <2>2. Transfer(req, word, plan)
      BY <1>3 DEF SwdWriteAbort
    <2> HIDE DEF req
    <2> QED BY <1>1, <2>1, <2>2, TransferKeeps
  <1>4. ASSUME NEW bits \in Sequences, NEW plan \in Quiet, SwjSequence(bits, plan)
        PROVE  Keeps
    BY <1>1, <1>4, SwjSequenceKeeps
  <1>5. ASSUME NEW req \in SwdRequests, NEW plan \in Plans, RnW(req), SwdSequence(req, plan)
        PROVE  Keeps
    <2>1. req \in [1..4 -> Levels]
      BY SwdAssumption
    <2> QED BY <1>1, <1>5, <2>1, SwdSequenceKeeps
  <1>6. ASSUME NEW selected \in SUBSET {"SWCLK", "SWDIO"}, NEW v \in Levels, NEW plan \in Quiet,
               SwjPins(selected, v, plan)
        PROVE  Keeps
    BY <1>1, <1>6, PinsKeep
  <1>7. ASSUME NEW p \in {"swd", "jtag", "disabled"}, NEW plan \in Quiet, Connect(p, plan)
        PROVE  Keeps
    BY <1>1, <1>7, PinsKeep
  <1>8. ASSUME NEW plan \in Quiet, Disconnect(plan) \/ DapInit(plan)
        PROVE  Keeps
    BY <1>1, <1>8, PinsKeep
  <1>9. ASSUME SwdConfigure(1, FALSE) \/ SwdConfigure(wcr.turn, wcr.data_phase)
        PROVE  Keeps
    BY <1>1, <1>9, SettingsKeep
  <1>10. ASSUME NEW idle \in IdleCounts, TransferConfigure(idle)
         PROVE  Keeps
    BY <1>1, <1>10, SettingsKeep
  <1>11. ASSUME PowerCycle \/ Respond
         PROVE  Keeps
    BY <1>1, <1>11, SettingsKeep
  <1>12. ASSUME UNCHANGED swdVars
         PROVE  Keeps
    <2>1. UNCHANGED <<dap_port, turnaround, data_phase, idle_cycles, dir, level, clk, tgt, wcr, moves, swd_op>>
      BY <1>12 DEF swdVars, settings, pins
    <2>2. Settled'
      BY <1>1, <2>1 DEF Settled
    <2>3. Wired'
      BY <1>1, <2>1 DEF Wired
    <2>4. StaysInStep'
      BY <1>1, <2>1 DEF StaysInStep, Transferred, Sequenced, InStep
    <2>5. WordsCross'
      BY <1>1, <2>1 DEF WordsCross, Transferred, Sequenced
    <2> QED BY <2>2, <2>3, <2>4, <2>5
  <1> HIDE DEF Keeps
  <1>13. Keeps
    BY <1>2, <1>3, <1>4, <1>5, <1>6, <1>7, <1>8, <1>9, <1>10, <1>11, <1>12, Zenon DEF SwdNext
  <1> QED BY <1>13 DEF Keeps, SwdInv

\* The inductive invariant: the properties, what the settings can be, and a target
\* that drives the wire again before what it hears can pass for a line reset.
LEMMA SwdInvariant == SwdSpec => []SwdInv
  BY SwdInvInit, SwdInvStep, PTL DEF SwdSpec

\* What the port, the settings, the pins and the target can be (dap.c:290-420,
\* 1185-1290).
THEOREM SwdTypes == SwdSpec => []SwdTypeOK
  <1>1. SwdInv => SwdTypeOK
    <2> SUFFICES ASSUME SwdInv PROVE SwdTypeOK
      OBVIOUS
    <2> DEFINE M == Width + 1 + wcr.turn
    <2>1. Settled /\ Wired
      BY DEF SwdInv
    <2>2. M \in Nat /\ M < ResetBits
      <3>1. wcr.turn \in Nat \ {0} /\ Width + 7 + wcr.turn < ResetBits
        BY <2>1, SwdAssumption, ResetAssumption DEF Settled
      <3> DEFINE n == wcr.turn
      <3>2. n \in Nat /\ Width \in Nat /\ ResetBits \in Nat /\ Width + 7 + n < ResetBits
        BY <3>1, WireAssumption
      <3> HIDE DEF n
      <3>3. Width + 1 + n \in Nat /\ Width + 1 + n < ResetBits
        BY ONLY <3>2
      <3> QED BY <3>3 DEF n
    <2>3. TgtOk(tgt, M)
      BY <2>1 DEF Wired
    <2> HIDE DEF M
    <2>4. /\ tgt.state \in {"lost", "reset", "idle", "header", "answer"}
          /\ tgt.state = "answer" <=> tgt.todo # <<>>
      BY <2>2, <2>3, TgtIs
    <2> QED BY <2>1, <2>4 DEF SwdTypeOK, Settled, Wired
  <1> QED BY <1>1, SwdInvariant, PTL

\* Whatever the host sends, the target hears or the power does: after a transfer that
\* began in step, the host's own sequence for a read that was answered OK, or a line
\* reset on a driven wire that ends no request, the wires are as the next command
\* expects them, and nobody has fought for SWDIO (dap.c:346-412, 1197-1209).
THEOREM ProbeStaysInStep == SwdSpec => []StaysInStep
  <1>1. SwdInv => StaysInStep
    BY DEF SwdInv
  <1> QED BY <1>1, SwdInvariant, PTL

\* The acknowledge, the word and the parity cross the wires unchanged and in the right
\* direction (dap.c:340-372).
THEOREM EveryWordCrosses == SwdSpec => []WordsCross
  <1>1. SwdInv => WordsCross
    BY DEF SwdInv
  <1> QED BY <1>1, SwdInvariant, PTL
-----------------------------------------------------------------------------
(* The packets of the host: DapTransport. *)

Packets == [number : Nat, cmd : Commands]

\* Requests on their way are those that come next, in order.
Consecutive == \A k \in 1..Len(onWay) :
    onWay[k].number = collected + k + (IF arrived \/ writing THEN 1 ELSE 0)

\* With the endpoints closed nothing is due and nothing is on its way.
ClosedIsIdle == ~open => /\ ~reading /\ ~arrived /\ ~writing
                         /\ onWay = <<>>

IInv == /\ TypeOK /\ HalfDuplex /\ AnswersInOrder
        /\ Consecutive /\ ClosedIsIdle

USE CountAssumption, RequestsAssumption

LEMMA InitIInv == Init => IInv
<1> SUFFICES ASSUME Init PROVE IInv
    OBVIOUS
<1>1. onWay \in Seq(Packets) /\ Len(onWay) = 0
    BY EmptySeq DEF Init
<1>2. TypeOK
  <2>1. request \in Packets
      BY DEF Init, Packets, Commands, NoRequest
  <2>2. response \in [number : Nat, cmd : Echoes, answer : Answers]
      BY DEF Init, Echoes, Answers, NoResponse
  <2>3. sent \in 0..MaxRequests /\ collected \in 0..sent /\ port \in Ports
      BY DEF Init, Ports
  <2> QED
      BY <1>1, <2>1, <2>2, <2>3 DEF Init, TypeOK, Packets
<1>3. HalfDuplex /\ AnswersInOrder /\ Consecutive /\ ClosedIsIdle
    BY <1>1 DEF Init, HalfDuplex, AnswersInOrder, Consecutive, ClosedIsIdle
<1> QED
    BY <1>2, <1>3 DEF IInv

LEMMA SubmitIInv ==
    ASSUME IInv, NEW c \in Commands, Submit(c)
    PROVE  IInv'
<1> USE DEF IInv, Submit, epVars
<1> DEFINE p == [number |-> sent + 1, cmd |-> c]
<1>0. onWay \in Seq(Packets) /\ p \in Packets /\ sent \in Nat /\ collected \in Nat
    BY DEF TypeOK, Packets
<1>1. /\ onWay' \in Seq(Packets)
      /\ Len(onWay') = Len(onWay) + 1
      /\ \A k \in 1..Len(onWay) : onWay'[k] = onWay[k]
      /\ onWay'[Len(onWay) + 1] = p
    BY <1>0, AppendProperties
<1>2. Len(onWay) \in Nat
    BY <1>0, LenProperties
<1>3. TypeOK'
  <2>1. sent' \in 0..MaxRequests /\ collected' \in 0..sent'
      BY <1>0 DEF TypeOK
  <2> QED
      BY <1>1, <2>1 DEF TypeOK, Packets
<1>4. HalfDuplex' /\ ClosedIsIdle'
    BY DEF HalfDuplex, ClosedIsIdle
<1>5. AnswersInOrder'
    BY <1>0, <1>1, <1>2 DEF AnswersInOrder
<1>6. Consecutive'
  <2> SUFFICES ASSUME NEW k \in 1..Len(onWay')
               PROVE  onWay'[k].number = collected + k + (IF arrived \/ writing THEN 1 ELSE 0)
      BY DEF Consecutive
  <2>1. CASE k \in 1..Len(onWay)
      BY <1>1, <2>1 DEF Consecutive
  <2>2. CASE k = Len(onWay) + 1
      BY <1>0, <1>1, <1>2, <2>2 DEF AnswersInOrder
  <2> QED
      BY <1>1, <1>2, <2>1, <2>2
<1> QED
    BY <1>3, <1>4, <1>5, <1>6

LEMMA DeliverIInv ==
    ASSUME IInv, Deliver
    PROVE  IInv'
<1> USE DEF IInv, Deliver
<1>0. onWay \in Seq(Packets) /\ onWay # <<>> /\ collected \in Nat
    BY DEF TypeOK, Packets
<1>1. /\ Head(onWay) \in Packets
      /\ Tail(onWay) \in Seq(Packets)
      /\ Len(Tail(onWay)) = Len(onWay) - 1
      /\ \A k \in 1..Len(Tail(onWay)) : Tail(onWay)[k] = onWay[k + 1]
      /\ Head(onWay) = onWay[1]
    BY <1>0, HeadTailProperties
<1>2. Len(onWay) \in Nat /\ Len(onWay) >= 1
    BY <1>0, LenProperties, EmptySeq
<1>3. TypeOK'
    BY <1>1 DEF TypeOK, Packets
<1>4. HalfDuplex' /\ ClosedIsIdle'
    BY DEF HalfDuplex, ClosedIsIdle
<1>5. ~arrived /\ ~writing
    BY DEF HalfDuplex
<1>6. AnswersInOrder'
  <2>1. onWay[1].number = collected + 1
      BY <1>0, <1>2, <1>5 DEF Consecutive
  <2> QED
      BY <1>0, <1>1, <1>2, <1>5, <2>1 DEF AnswersInOrder
<1>7. Consecutive'
  <2> SUFFICES ASSUME NEW k \in 1..Len(Tail(onWay))
               PROVE  Tail(onWay)[k].number = collected + k + 1
      BY <1>5 DEF Consecutive
  <2>1. k + 1 \in 1..Len(onWay)
      BY <1>1, <1>2
  <2>2. onWay[k + 1].number = collected + (k + 1)
      BY <2>1, <1>0, <1>5 DEF Consecutive
  <2> QED
      BY <1>0, <1>1, <2>2
<1> QED
    BY <1>3, <1>4, <1>6, <1>7

LEMMA NextIInv == IInv /\ [Next]_vars => IInv'
<1> SUFFICES ASSUME IInv, [Next]_vars PROVE IInv'
    OBVIOUS
<1> USE DEF IInv
<1>1. CASE \E c \in Commands : Submit(c)
    BY <1>1, SubmitIInv
<1>2. CASE Deliver
    BY <1>2, DeliverIInv
<1>3. CASE OutCallback
  <2> USE <1>3 DEF OutCallback, hostVars
  <2>1. response' \in [number : Nat, cmd : Echoes, answer : Answers]
      BY DEF TypeOK, ProcessRequest, Handler, Answers, Echoes
  <2>2. port' \in Ports
      BY DEF TypeOK, ProcessRequest, Ports
  <2>3. TypeOK'
      BY <2>1, <2>2 DEF TypeOK
  <2>4. HalfDuplex' /\ ClosedIsIdle'
      BY DEF HalfDuplex, ClosedIsIdle
  <2>5. AnswersInOrder'
      BY DEF AnswersInOrder, HalfDuplex, ProcessRequest
  <2>6. Consecutive'
      BY DEF Consecutive
  <2> QED
      BY <2>3, <2>4, <2>5, <2>6
<1>4. CASE InCallback
  <2> USE <1>4 DEF InCallback
  <2>1. collected' = collected + 1 /\ collected \in Nat /\ Len(onWay) \in Nat
      BY LenProperties DEF AnswersInOrder, TypeOK
  <2>2. ~arrived /\ ~reading
      BY DEF HalfDuplex
  <2>3. TypeOK'
    <3>1. collected' \in 0..sent' /\ sent' \in 0..MaxRequests
        BY <2>1, <2>2 DEF AnswersInOrder, TypeOK
    <3> QED
        BY <3>1 DEF TypeOK
  <2>4. HalfDuplex' /\ ClosedIsIdle'
      BY <2>2 DEF HalfDuplex, ClosedIsIdle
  <2>5. AnswersInOrder'
      BY <2>1, <2>2 DEF AnswersInOrder, TypeOK
  <2>6. Consecutive'
    <3> SUFFICES ASSUME NEW k \in 1..Len(onWay)
                 PROVE  onWay[k].number = collected + 1 + k
        BY <2>1, <2>2 DEF Consecutive
    <3> QED
        BY <2>1 DEF Consecutive
  <2> QED
      BY <2>3, <2>4, <2>5, <2>6
<1>5. CASE Configured
  <2> USE <1>5 DEF Configured, hostVars
  <2>1. TypeOK'
      BY DEF TypeOK, Ports
  <2>2. HalfDuplex' /\ AnswersInOrder' /\ Consecutive' /\ ClosedIsIdle'
      BY DEF HalfDuplex, AnswersInOrder, Consecutive, ClosedIsIdle
  <2> QED
      BY <2>1, <2>2
<1>6. CASE BusReset
  <2> USE <1>6 DEF BusReset
  <2>1. onWay' \in Seq(Packets) /\ Len(onWay') = 0
      BY EmptySeq
  <2>2. TypeOK'
    <3>1. collected' \in 0..sent' /\ sent' \in 0..MaxRequests
        BY DEF TypeOK
    <3> QED
        BY <2>1, <3>1 DEF TypeOK, Packets
  <2>3. HalfDuplex' /\ AnswersInOrder' /\ Consecutive' /\ ClosedIsIdle'
      BY <2>1 DEF HalfDuplex, AnswersInOrder, Consecutive, ClosedIsIdle, TypeOK
  <2> QED
      BY <2>2, <2>3
<1>7. CASE UNCHANGED vars
    BY <1>7 DEF vars, TypeOK, HalfDuplex, AnswersInOrder, Consecutive, ClosedIsIdle
<1> QED
    BY <1>1, <1>2, <1>3, <1>4, <1>5, <1>6, <1>7 DEF Next, Step

\* The inductive invariant holds in every state, for every number of packets.
THEOREM Invariance == Spec => []IInv
<1>1. Init => IInv
    BY InitIInv
<1>2. IInv /\ [Next]_vars => IInv'
    BY NextIInv
<1> QED
    BY <1>1, <1>2, PTL DEF Spec

\* Every state is of its type.
THEOREM TypeCorrect == Spec => []TypeOK
<1>1. IInv => TypeOK
    BY DEF IInv
<1> QED
    BY <1>1, Invariance, PTL

\* USB_Request and USB_Response never have two users, and something is always due.
THEOREM EndpointsTakeTurns == Spec => []HalfDuplex
<1>1. IInv => HalfDuplex
    BY DEF IInv
<1> QED
    BY <1>1, Invariance, PTL

\* Answers come in the order of the requests and none is lost, short of a reset.
THEOREM OrderOfAnswers == Spec => []AnswersInOrder
<1>1. IInv => AnswersInOrder
    BY DEF IInv
<1> QED
    BY <1>1, Invariance, PTL
=============================================================================
