-------------------------- MODULE CdcReceiveProofs --------------------------
(***************************************************************************)
(* Proofs about CdcReceive for every set of consumers, every packet size   *)
(* and every choice of read lengths, with dtr changes and bus resets; and  *)
(* about its readers.  AuxCdc: its port is the port of CdcReceive, the     *)
(* flow control loses nothing when the uart is the only reader and the     *)
(* host only sends, and no wake-up of the aux thread is lost.              *)
(* GetcharTimeout: the gdb server does not give up before its time.        *)
(***************************************************************************)
EXTENDS AuxCdc, GetcharTimeout, SequenceTheorems, TLAPS

\* The inductive invariant: each of its parts is inductive with TypeOK.
IInv == /\ TypeOK
        /\ InOrder
        /\ RearmNotForgotten

USE MpsAssumption, GetAssumption, MaxBytesAssumption, TogglesAssumption

LEMMA InitInv == Init => IInv
  <1> SUFFICES ASSUME Init PROVE IInv
    OBVIOUS
  <1> USE DEF Init
  <1>1. TypeOK
    <2>1. ring \in Seq(Nat) /\ Len(ring) = 0
      BY EmptySeq
    <2>2. pc \in [Consumers -> Locations]
      BY DEF Locations
    <2>3. Len(ring) <= Size
      BY <2>1 DEF Size
    <2> QED BY <2>1, <2>2, <2>3 DEF TypeOK
  <1>2. InOrder
    BY DEF InOrder
  <1>3. RearmNotForgotten
    BY DEF RearmNotForgotten
  <1> QED BY <1>1, <1>2, <1>3 DEF IInv

-----------------------------------------------------------------------------
\* What rt_ringbuffer_get leaves: the ring without its k oldest bytes.
LEMMA GetRing ==
    ASSUME NEW s \in Seq(Nat), NEW k \in Nat, k <= Len(s)
    PROVE  /\ SubSeq(s, k + 1, Len(s)) \in Seq(Nat)
           /\ Len(SubSeq(s, k + 1, Len(s))) = Len(s) - k
           /\ \A i \in 1..Len(s) - k : SubSeq(s, k + 1, Len(s))[i] = s[k + i]
  <1>1. Len(s) \in Nat
    BY LenProperties
  <1>2. \A i \in k + 1..Len(s) : s[i] \in Nat
    BY <1>1, ElementOfSeq
  <1>3. /\ SubSeq(s, k + 1, Len(s)) \in Seq(Nat)
        /\ Len(SubSeq(s, k + 1, Len(s))) =
             IF k + 1 <= Len(s) THEN Len(s) - (k + 1) + 1 ELSE 0
        /\ \A i \in 1..Len(s) - (k + 1) + 1 :
             SubSeq(s, k + 1, Len(s))[i] = s[(k + 1) + i - 1]
    BY <1>1, <1>2, SubSeqProperties
  <1>4. Len(SubSeq(s, k + 1, Len(s))) = Len(s) - k
    BY <1>1, <1>3
  <1>5. ASSUME NEW i \in 1..Len(s) - k
        PROVE  SubSeq(s, k + 1, Len(s))[i] = s[k + i]
    <2>1. i \in 1..Len(s) - (k + 1) + 1 /\ (k + 1) + i - 1 = k + i
      BY <1>1
    <2> QED BY <1>3, <2>1
  <1> QED BY <1>3, <1>4, <1>5

\* What rt_ringbuffer_put leaves: the ring and the first k of the new bytes.
LEMMA PutRing ==
    ASSUME NEW s \in Seq(Nat), NEW from \in Nat, NEW k \in Nat
    PROVE  /\ s \o Bytes(from, k) \in Seq(Nat)
           /\ Len(s \o Bytes(from, k)) = Len(s) + k
           /\ \A i \in 1..Len(s) : (s \o Bytes(from, k))[i] = s[i]
           /\ \A i \in 1..k : (s \o Bytes(from, k))[Len(s) + i] = from + i - 1
  <1>1. Len(s) \in Nat
    BY LenProperties
  <1>2. Bytes(from, k) \in Seq(Nat) /\ Len(Bytes(from, k)) = k
    <2>1. \A i \in 1..k : from + i - 1 \in Nat
      OBVIOUS
    <2> QED BY <2>1 DEF Bytes
  <1>3. /\ s \o Bytes(from, k) \in Seq(Nat)
        /\ Len(s \o Bytes(from, k)) = Len(s) + k
        /\ \A i \in 1..Len(s) + k : (s \o Bytes(from, k))[i] =
             IF i <= Len(s) THEN s[i] ELSE Bytes(from, k)[i - Len(s)]
    BY <1>2, ConcatProperties
  <1>4. \A i \in 1..Len(s) : i \in 1..Len(s) + k /\ i <= Len(s)
    BY <1>1
  <1>5. ASSUME NEW i \in 1..k
        PROVE  (s \o Bytes(from, k))[Len(s) + i] = from + i - 1
    <2>1. Len(s) + i \in 1..Len(s) + k /\ ~(Len(s) + i <= Len(s))
      BY <1>1
    <2>2. (Len(s) + i) - Len(s) = i
      BY <1>1
    <2> QED BY <1>3, <2>1, <2>2 DEF Bytes
  <1> QED BY <1>3, <1>4, <1>5

-----------------------------------------------------------------------------
LEMMA GetInv == ASSUME IInv, NEW c \in Consumers, NEW n \in GetLengths, Get(c, n)
                PROVE  IInv'
  <1> DEFINE k == IF n < Len(ring) THEN n ELSE Len(ring)
  <1>0. Len(ring) \in Nat /\ n \in Nat /\ \A i \in 1..Len(ring) : ring[i] \in Nat
    BY LenProperties, ElementOfSeq DEF IInv, TypeOK
  <1>1. k \in Nat /\ k <= Len(ring)
    BY <1>0
  <1>2. /\ pc[c] = "idle" /\ pc' = [pc EXCEPT ![c] = "test_busy"]
        /\ ring' = SubSeq(ring, k + 1, Len(ring))
        /\ last' = IF k = 0 THEN last ELSE ring[k]
        /\ UNCHANGED <<ep_open, armed, busy, sent, lost>>
    BY DEF Get, Goto, epVars
  <1> HIDE DEF k
  <1>3. /\ ring' \in Seq(Nat)
        /\ Len(ring') = Len(ring) - k
        /\ \A i \in 1..Len(ring) - k : ring'[i] = ring[k + i]
    BY <1>1, <1>2, GetRing DEF IInv, TypeOK
  <1>4. TypeOK'
    <2>1. pc' \in [Consumers -> Locations]
      BY <1>2 DEF IInv, TypeOK, Locations
    <2>2. last' \in Nat
      <3>1. k # 0 => k \in 1..Len(ring)
        BY <1>0, <1>1
      <3> QED BY <1>0, <1>2, <3>1 DEF IInv, TypeOK
    <2>3. Len(ring') <= Size
      BY <1>0, <1>1, <1>3 DEF IInv, TypeOK, Size
    <2> QED BY <1>2, <1>3, <2>1, <2>2, <2>3 DEF IInv, TypeOK, Size
  <1>5. InOrder'
    <2>1. \A i \in 1..Len(ring) - k : k + i \in 1..Len(ring)
      BY <1>0, <1>1
    <2>2. k # 0 => k \in 1..Len(ring)
      BY <1>0, <1>1
    <2>3. last' <= sent
      BY <1>2, <2>2 DEF IInv, InOrder
    <2>4. \A i \in 1..Len(ring) - k : last' < ring'[i] /\ ring'[i] <= sent
      <3> TAKE i \in 1..Len(ring) - k
      <3>1. k + i \in 1..Len(ring) /\ ring'[i] = ring[k + i] /\ k < k + i
        BY <1>0, <1>1, <1>3, <2>1
      <3>2. last < ring[k + i] /\ ring[k + i] <= sent
        BY <3>1 DEF IInv, InOrder
      <3>3. k # 0 => ring[k] < ring[k + i]
        BY <2>2, <3>1 DEF IInv, InOrder
      <3> QED BY <1>2, <3>1, <3>2, <3>3
    <2>5. \A i, j \in 1..Len(ring) - k : i < j => ring'[i] < ring'[j]
      <3> TAKE i, j \in 1..Len(ring) - k
      <3>1. i < j => k + i < k + j
        BY <1>0, <1>1
      <3>2. k + i < k + j => ring[k + i] < ring[k + j]
        BY <2>1 DEF IInv, InOrder
      <3> QED BY <1>3, <3>1, <3>2
    <2> QED BY <1>2, <1>3, <2>3, <2>4, <2>5 DEF InOrder
  <1>6. RearmNotForgotten'
    <2>1. pc'[c] = "test_busy"
      BY <1>2 DEF IInv, TypeOK
    <2> QED BY <2>1 DEF RearmNotForgotten, WillRearm
  <1> QED BY <1>4, <1>5, <1>6 DEF IInv

LEMMA RearmInv == ASSUME IInv, NEW c \in Consumers, Rearm(c) PROVE IInv'
  <1> USE DEF Goto, dataVars, epVars
  <1>1. TypeOK'
    BY DEF IInv, TypeOK, Locations, Size, Rearm, TestBusy, TestSpace, StartRead, SetBusy
  <1>2. InOrder'
    BY DEF IInv, InOrder, Rearm, TestBusy, TestSpace, StartRead, SetBusy
  <1>3. RearmNotForgotten'
    <2> USE DEF IInv, TypeOK, RearmNotForgotten, WillRearm, Space, Size
    <2>1. CASE TestBusy(c)
      BY <2>1 DEF TestBusy
    <2>2. CASE TestSpace(c)
      BY <2>2 DEF TestSpace
    <2>3. CASE StartRead(c)
      BY <2>3 DEF StartRead
    <2>4. CASE SetBusy(c)
      BY <2>4 DEF SetBusy
    <2> QED BY <2>1, <2>2, <2>3, <2>4 DEF Rearm
  <1> QED BY <1>1, <1>2, <1>3 DEF IInv

LEMMA BulkOutInv == ASSUME IInv, NEW n \in 0..MPS, BulkOut(n) PROVE IInv'
  <1> DEFINE k == IF n < Space THEN n ELSE Space
  <1>0. /\ Len(ring) \in Nat /\ Len(ring) <= Size /\ Size \in Nat
        /\ n \in Nat /\ sent \in Nat /\ last \in Nat
        /\ \A i \in 1..Len(ring) : ring[i] \in Nat
    BY LenProperties, ElementOfSeq DEF IInv, TypeOK, Size
  <1>1. k \in Nat /\ k <= n /\ Len(ring) + k <= Size
    BY <1>0 DEF Space
  <1>2. /\ ring' = ring \o Bytes(sent + 1, k)
        /\ sent' = sent + n
        /\ lost' = (lost \/ k < n)
        /\ armed' = (Space' >= MPS)
        /\ busy' = (Space' >= MPS)
        /\ UNCHANGED <<ep_open, pc, last>>
    BY DEF BulkOut, PutPacket
  <1> HIDE DEF k
  <1>3. /\ ring' \in Seq(Nat)
        /\ Len(ring') = Len(ring) + k
        /\ \A i \in 1..Len(ring) : ring'[i] = ring[i]
        /\ \A i \in 1..k : ring'[Len(ring) + i] = sent + i
    <2>1. sent + 1 \in Nat /\ ring \in Seq(Nat)
      BY <1>0 DEF IInv, TypeOK
    <2>2. /\ ring' \in Seq(Nat)
          /\ Len(ring') = Len(ring) + k
          /\ \A i \in 1..Len(ring) : ring'[i] = ring[i]
          /\ \A i \in 1..k : ring'[Len(ring) + i] = (sent + 1) + i - 1
      <3> DEFINE r == ring \o Bytes(sent + 1, k)
      <3>1. /\ r \in Seq(Nat)
            /\ Len(r) = Len(ring) + k
            /\ \A i \in 1..Len(ring) : r[i] = ring[i]
            /\ \A i \in 1..k : r[Len(ring) + i] = (sent + 1) + i - 1
        BY <1>1, <2>1, PutRing
      <3> QED BY <1>2, <3>1
    <2>3. \A i \in 1..k : (sent + 1) + i - 1 = sent + i
      BY <1>0
    <2> QED BY <2>2, <2>3
  <1>4. TypeOK'
    BY <1>0, <1>1, <1>2, <1>3 DEF IInv, TypeOK, Size
  <1>s. \A i \in 1..Len(ring) + k :
          \/ i \in 1..Len(ring)
          \/ i - Len(ring) \in 1..k /\ i = Len(ring) + (i - Len(ring))
    BY <1>0, <1>1
  <1>v. \A i \in 1..Len(ring) + k :
          \/ i \in 1..Len(ring) /\ ring'[i] = ring[i]
          \/ i - Len(ring) \in 1..k /\ ring'[i] = sent + (i - Len(ring))
    BY <1>3, <1>s
  <1>5. InOrder'
    <2>1. last' <= sent'
      BY <1>0, <1>2 DEF IInv, InOrder
    <2>2. \A i \in 1..Len(ring) + k : last' < ring'[i] /\ ring'[i] <= sent'
      <3> TAKE i \in 1..Len(ring) + k
      <3>1. CASE i \in 1..Len(ring) /\ ring'[i] = ring[i]
        <4>1. last < ring[i] /\ ring[i] <= sent /\ ring[i] \in Nat
          BY <1>0, <3>1 DEF IInv, InOrder
        <4> QED BY <1>0, <1>2, <3>1, <4>1
      <3>2. CASE i - Len(ring) \in 1..k /\ ring'[i] = sent + (i - Len(ring))
        <4>1. last <= sent
          BY DEF IInv, InOrder
        <4>2. last' = last /\ sent' = sent + n
          BY <1>2
        <4> DEFINE d == i - Len(ring)
        <4>3. d \in Nat /\ 1 <= d /\ d <= n
          BY <1>0, <1>1, <3>2
        <4>4. ring'[i] = sent + d
          BY <3>2
        <4> HIDE DEF d
        <4>5. last < sent + d /\ sent + d <= sent + n
          BY <1>0, <4>1, <4>3
        <4> QED BY <4>2, <4>4, <4>5
      <3> QED BY <1>v, <3>1, <3>2
    <2>3. \A i, j \in 1..Len(ring) + k : i < j => ring'[i] < ring'[j]
      <3> TAKE i, j \in 1..Len(ring) + k
      <3>1. CASE i \in 1..Len(ring) /\ j \in 1..Len(ring)
        BY <1>3, <3>1 DEF IInv, InOrder
      <3>2. CASE i \in 1..Len(ring) /\ j \notin 1..Len(ring)
        <4>1. ring'[i] <= sent /\ ring'[i] \in Nat
          BY <1>0, <1>3, <3>2 DEF IInv, InOrder
        <4>2. j - Len(ring) \in 1..k /\ ring'[j] = sent + (j - Len(ring))
          BY <1>v, <3>2
        <4> QED BY <1>0, <4>1, <4>2
      <3>3. CASE i \notin 1..Len(ring)
        <4>1. i - Len(ring) \in 1..k /\ ring'[i] = sent + (i - Len(ring))
          BY <1>v, <3>3
        <4>2. i < j => j - Len(ring) \in 1..k /\ ring'[j] = sent + (j - Len(ring))
          <5>1. i < j => j \notin 1..Len(ring)
            BY <1>0, <4>1
          <5> QED BY <1>v, <5>1
        <4> QED BY <1>0, <4>1, <4>2
      <3> QED BY <3>1, <3>2, <3>3
    <2> QED BY <1>3, <2>1, <2>2, <2>3 DEF InOrder
  <1>6. RearmNotForgotten'
    BY <1>2 DEF RearmNotForgotten
  <1> QED BY <1>4, <1>5, <1>6 DEF IInv

LEMMA HostInv == ASSUME IInv, SetDtr \/ Configured \/ BusReset PROVE IInv'
  <1>1. CASE SetDtr
    BY <1>1 DEF IInv, TypeOK, Size, InOrder, RearmNotForgotten, SetDtr, dataVars
  <1>2. CASE Configured
    BY <1>2 DEF IInv, TypeOK, Size, InOrder, RearmNotForgotten, Configured, dataVars
  <1>3. CASE BusReset
    <2>1. ring' \in Seq(Nat) /\ Len(ring') = 0
      BY <1>3, EmptySeq DEF BusReset
    <2>2. TypeOK'
      <3>1. Len(ring') <= Size'
        BY <2>1 DEF Size
      <3> QED BY <1>3, <2>1, <3>1 DEF IInv, TypeOK, BusReset
    <2>3. InOrder'
      BY <1>3, <2>1 DEF IInv, TypeOK, InOrder, BusReset
    <2>4. RearmNotForgotten'
      BY <1>3 DEF RearmNotForgotten, BusReset
    <2> QED BY <2>2, <2>3, <2>4 DEF IInv
  <1> QED BY <1>1, <1>2, <1>3

LEMMA StutterInv == ASSUME IInv, UNCHANGED vars PROVE IInv'
  BY DEF IInv, TypeOK, Size, InOrder, RearmNotForgotten, WillRearm, Space, vars

LEMMA StepInv == IInv /\ [Next]_vars => IInv'
  BY GetInv, RearmInv, BulkOutInv, HostInv, StutterInv DEF Next, Interrupt

\* The invariant holds in every behaviour of the port.
THEOREM Invariance == Spec => []IInv
  BY InitInv, StepInv, PTL DEF Spec

\* The variables keep their types and the ring never holds more than two packets.
THEOREM TypeCorrect == Spec => []TypeOK
  BY Invariance, PTL DEF IInv

\* Bytes are delivered in the order of the host, once, and never from before a
\* bus reset, by any number of reading threads.
THEOREM BytesInOrder == Spec => []InOrder
  BY Invariance, PTL DEF IInv

\* The decision to start the next read is never left to nobody.
THEOREM RearmIsNotForgotten == Spec => []RearmNotForgotten
  BY Invariance, PTL DEF IInv

LEMMA StepWedge ==
    ASSUME TypeOK, [Next]_vars, ~Wedged, Wedged'
    PROVE  \E c \in Consumers : pc[c] = "set_busy" /\ pc'[c] = "idle"
  <1> USE DEF Wedged, Goto, epVars, dataVars
  <1>1. ASSUME NEW c \in Consumers, SetBusy(c)
        PROVE  pc[c] = "set_busy" /\ pc'[c] = "idle"
    BY <1>1 DEF SetBusy, TypeOK
  <1>2. ASSUME NEW c \in Consumers, TestBusy(c) \/ TestSpace(c) \/ StartRead(c)
        PROVE  FALSE
    BY <1>2 DEF TestBusy, TestSpace, StartRead, TypeOK
  <1>3. ASSUME NEW c \in Consumers, NEW n \in GetLengths, Get(c, n) PROVE FALSE
    BY <1>3 DEF Get
  <1>4. ASSUME Interrupt PROVE FALSE
    BY <1>4 DEF Interrupt, BulkOut, SetDtr, Configured, BusReset
  <1>5. ASSUME UNCHANGED vars PROVE FALSE
    BY <1>5 DEF vars
  <1> QED BY <1>1, <1>2, <1>3, <1>4, <1>5 DEF Next, Rearm

\* Only the store of busy by a thread whose read is already over can leave the
\* port without a read while busy says there is one.
THEOREM OnlyTheLateStoreWedges == Spec => WedgedByLateStoreOnly
  <1>1. TypeOK /\ [Next]_vars =>
          [~Wedged /\ Wedged' =>
             \E c \in Consumers : pc[c] = "set_busy" /\ pc'[c] = "idle"]_vars
    BY StepWedge
  <1> QED BY <1>1, TypeCorrect, PTL DEF Spec, WedgedByLateStoreOnly
-----------------------------------------------------------------------------
\* The read of the gdb server.  Each of its steps is one of CdcReceive, so that the
\* invariant of CdcReceive says what happens to the ring.

\* The call has found nothing so far, and nothing but its own waiting stands between it
\* and its time.
Waiting == /\ \/ gdb \in {"test", "wait", "asleep", "awake", "get"}
              \/ gdb = "rearm" /\ ~len
           /\ ~stale /\ ~cleared

\* A packet that comes in after the test of the ring leaves the flag set.
NoSleepMissed == /\ gdb = "asleep" => ring = <<>>
                 /\ gdb = "wait" /\ ring # <<>> => woken

\* A wake-up during the call means a character for it; without one the slices counted
\* are those slept.
SlicesAreSlept ==
    Waiting => /\ woken => ring # <<>>
               /\ ring = <<>> => slept = IF gdb = "awake" THEN t + 1 ELSE t
               /\ gdb = "get" /\ ring = <<>> => t >= timeout_ticks

GivenUp == gdb \in {"none", "rearm_again"} /\ ~len /\ ~stale /\ ~cleared
               => slept >= timeout_ticks

GdbTypes == timeout_ticks \in Nat /\ t \in Nat /\ slept \in Nat

GdbInv == IInv /\ GdbTypes /\ NoSleepMissed /\ SlicesAreSlept /\ GivenUp

LEMMA GdbBegins == GdbInit => GdbInv
  <1> SUFFICES ASSUME GdbInit PROVE GdbInv
    OBVIOUS
  <1>1. IInv
    BY InitInv DEF GdbInit
  <1>2. GdbTypes /\ NoSleepMissed /\ SlicesAreSlept /\ GivenUp
    <2>1. /\ gdb = "none" /\ woken = FALSE /\ len = FALSE
          /\ timeout_ticks = 0 /\ t = 0 /\ slept = 0
      BY DEF GdbInit
    <2>2. GdbTypes /\ NoSleepMissed
      BY <2>1 DEF GdbTypes, NoSleepMissed
    <2>3. ~Waiting
      BY <2>1 DEF Waiting
    <2>4. GivenUp
      BY <2>1 DEF GivenUp
    <2> QED BY <2>2, <2>3, <2>4 DEF SlicesAreSlept
  <1> QED BY <1>1, <1>2 DEF GdbInv

\* The thread is a reader of the port.
LEMMA GdbStepIsStep == [GdbNext]_portVars => [Next]_vars
  <1> SUFFICES ASSUME [GdbNext]_portVars PROVE [Next]_vars
    OBVIOUS
  <1>1. GdbThread \in Consumers /\ 1 \in GetLengths
    BY GdbAssumption
  <1>2. CASE \E n \in Timeouts : GetChar(n)
    BY <1>1, <1>2 DEF GetChar, Next
  <1>3. CASE GetAgain
    BY <1>1, <1>3 DEF GetAgain, Next
  <1>4. CASE GdbRearm
    BY <1>1, <1>4 DEF GdbRearm, Next
  <1>5. CASE FirstLook \/ TestLoop \/ WqueueWait \/ SliceEnds \/ WaitReturns \/ SecondLook
    BY <1>5 DEF FirstLook, TestLoop, WqueueWait, SliceEnds, WaitReturns, SecondLook
  <1>6. CASE GdbInterrupt
    BY <1>6 DEF GdbInterrupt, Next, Interrupt
  <1>7. CASE UNCHANGED portVars
    BY <1>7 DEF portVars
  <1> QED BY <1>2, <1>3, <1>4, <1>5, <1>6, <1>7 DEF GdbNext, GdbThreadStep

\* rt_ringbuffer_get takes nothing from an empty ring.
LEMMA EmptyStaysEmpty ==
  ASSUME TypeOK, NEW c, Get(c, 1), ring = <<>>
  PROVE  ring' = <<>>
  <1>1. Len(ring) = 0
    OBVIOUS
  <1>2. ring' = SubSeq(ring, 1, 0)
    BY <1>1 DEF Get
  <1> QED BY <1>2, SubSeqEmpty

\* rt_ringbuffer_put of a packet that is not empty leaves a byte in the ring.
LEMMA PutLeavesBytes ==
  ASSUME TypeOK, NEW n \in 0..MPS, PutPacket(n)
  PROVE  /\ ring # <<>> \/ n > 0 => ring' # <<>>
         /\ n = 0 => ring' = ring
  <1> DEFINE k == IF n < Space THEN n ELSE Space
  <1>1. ring' = ring \o Bytes(sent + 1, k)
    BY DEF PutPacket
  <1>2. /\ k \in Nat /\ Len(ring) \in Nat /\ ring \in Seq(Nat) /\ sent + 1 \in Nat
        /\ n = 0 => k = 0
        /\ Len(ring) > 0 \/ n > 0 => Len(ring) + k > 0
    <2>1. /\ Len(ring) \in Nat /\ ring \in Seq(Nat) /\ sent \in Nat
          /\ Len(ring) <= 2 * MPS /\ n \in Nat /\ MPS \in Nat \ {0}
      BY LenProperties, MpsAssumption DEF TypeOK, Size
    <2>2. Space = 2 * MPS - Len(ring)
      BY DEF Space, Size
    <2> QED BY <2>1, <2>2
  <1> HIDE DEF k
  <1>3. ring' \in Seq(Nat) /\ Len(ring') = Len(ring) + k
    BY <1>1, <1>2, PutRing
  <1>4. ring # <<>> => Len(ring) > 0
    BY <1>2, EmptySeq
  <1>5. Len(ring') > 0 => ring' # <<>>
    BY EmptySeq
  <1>6. k = 0 => Bytes(sent + 1, k) = <<>>
    BY DEF Bytes
  <1>7. ring \o <<>> = ring
    BY <1>2, ConcatEmptySeq
  <1> QED BY <1>1, <1>2, <1>3, <1>4, <1>5, <1>6, <1>7

LEMMA ThreadInv ==
  ASSUME GdbInv, GdbThreadStep \/ \E n \in Timeouts : GetChar(n)
  PROVE  GdbTypes' /\ NoSleepMissed' /\ SlicesAreSlept' /\ GivenUp'
  <1> USE DEF GdbInv, GdbTypes, NoSleepMissed, SlicesAreSlept, Waiting, GivenUp, GdbGoto
  <1>1. CASE \E n \in Timeouts : GetChar(n)
    <2>1. PICK n \in Timeouts : GetChar(n)
      BY <1>1
    <2>2. n \in Nat
      BY TimeoutsAssumption
    <2>3. ring = <<>> => ring' = <<>>
      BY <2>1, EmptyStaysEmpty DEF GetChar, IInv
    <2> QED BY <2>1, <2>2, <2>3 DEF GetChar
  <1>2. CASE GdbRearm
    <2>1. UNCHANGED ring
      BY <1>2 DEF GdbRearm, Rearm, TestBusy, TestSpace, StartRead, SetBusy, dataVars
    <2> QED BY <1>2, <2>1 DEF GdbRearm, gdbVars
  <1>3. CASE FirstLook \/ TestLoop \/ WqueueWait \/ SliceEnds \/ WaitReturns \/ SecondLook
    <2>1. CASE FirstLook
      BY <2>1 DEF FirstLook, vars
    <2>2. CASE TestLoop
      BY <2>2 DEF TestLoop, vars
    <2>3. CASE WqueueWait
      BY <2>3 DEF WqueueWait, vars
    <2>4. CASE SliceEnds
      BY <2>4 DEF SliceEnds, vars
    <2>5. CASE WaitReturns
      <3>1. /\ gdb = "awake" /\ gdb' = "test" /\ woken' = FALSE /\ t' = t + 1
            /\ UNCHANGED <<ring, timeout_ticks, len, slept, stale, cleared>>
        BY <2>5 DEF WaitReturns, vars
      <3>2. GdbTypes'
        BY <3>1
      <3>3. NoSleepMissed' /\ GivenUp'
        BY <3>1
      <3>4. Waiting' => Waiting
        BY <3>1
      <3>5. Waiting => (ring = <<>> => slept = t + 1)
        BY <3>1
      <3>6. SlicesAreSlept'
        BY <3>1, <3>4, <3>5
      <3> QED BY <3>2, <3>3, <3>6
    <2>6. CASE SecondLook
      BY <2>6 DEF SecondLook, vars
    <2> QED BY <1>3, <2>1, <2>2, <2>3, <2>4, <2>5, <2>6
  <1>4. CASE GetAgain
    <2>1. ring = <<>> => ring' = <<>>
      BY <1>4, EmptyStaysEmpty DEF GetAgain, IInv
    <2>2. /\ gdb = "get" /\ gdb' = "rearm_again" /\ len' = (ring # <<>>)
          /\ UNCHANGED <<woken, timeout_ticks, t, slept, stale, cleared>>
      BY <1>4 DEF GetAgain
    <2>3. ~len' /\ ~stale' /\ ~cleared' => Waiting /\ ring = <<>>
      BY <2>2
    <2>4. Waiting /\ ring = <<>> => slept = t /\ t >= timeout_ticks
      BY <2>2
    <2>5. GivenUp'
      BY <2>2, <2>3, <2>4
    <2>6. GdbTypes' /\ NoSleepMissed'
      BY <2>2
    <2>7. ~Waiting'
      BY <2>2
    <2> QED BY <2>5, <2>6, <2>7
  <1> QED BY <1>1, <1>2, <1>3, <1>4 DEF GdbThreadStep

LEMMA InterruptInv ==
  ASSUME GdbInv, GdbInterrupt
  PROVE  GdbTypes' /\ NoSleepMissed' /\ SlicesAreSlept' /\ GivenUp'
  <1> USE DEF GdbInv, GdbTypes, NoSleepMissed, SlicesAreSlept, Waiting, GivenUp
  <1>1. ASSUME NEW n \in 0..MPS, BulkOut(n), Wake(n),
               UNCHANGED <<timeout_ticks, t, len, slept, stale, cleared>>
        PROVE  GdbTypes' /\ NoSleepMissed' /\ SlicesAreSlept' /\ GivenUp'
    <2>1. /\ ring # <<>> \/ n > 0 => ring' # <<>>
          /\ n = 0 => ring' = ring
      BY <1>1, PutLeavesBytes DEF BulkOut, IInv
    <2>2. CASE n > 0
      <3>1. /\ woken' = TRUE /\ ring' # <<>>
            /\ gdb' = IF gdb = "asleep" THEN "awake" ELSE gdb
        BY <2>1, <2>2, <1>1 DEF Wake
      <3> QED BY <1>1, <3>1
    <2>3. CASE n = 0
      <3>1. UNCHANGED <<woken, gdb, ring>>
        BY <2>1, <2>3, <1>1 DEF Wake
      <3> QED BY <1>1, <3>1
    <2> QED BY <2>2, <2>3
  <1>2. CASE (SetDtr \/ Configured) /\ UNCHANGED gdbVars
    <2>1. UNCHANGED <<ring, gdb, woken, timeout_ticks, t, len, slept, stale, cleared>>
      BY <1>2 DEF SetDtr, Configured, dataVars, gdbVars
    <2> QED BY <2>1
  <1>3. CASE /\ BusReset
             /\ cleared' = TRUE
             /\ UNCHANGED <<gdb, woken, timeout_ticks, t, len, slept, stale>>
    BY <1>3 DEF BusReset
  <1> QED BY <1>1, <1>2, <1>3 DEF GdbInterrupt

LEMMA GdbStep == GdbInv /\ [GdbNext]_portVars => GdbInv'
  <1> SUFFICES ASSUME GdbInv, [GdbNext]_portVars PROVE GdbInv'
    OBVIOUS
  <1>1. IInv'
    BY GdbStepIsStep, StepInv DEF GdbInv
  <1>2. CASE GdbNext
    BY <1>1, <1>2, ThreadInv, InterruptInv DEF GdbNext, GdbInv
  <1>3. CASE UNCHANGED portVars
    BY <1>1, <1>3 DEF GdbInv, GdbTypes, NoSleepMissed, SlicesAreSlept, Waiting, GivenUp,
                      portVars, vars, gdbVars
  <1> QED BY <1>2, <1>3

\* The gdb server is one of the readers of the port: what is proved of them, the order of
\* the bytes among it, holds of it (usb_cdc.c:277-308).
THEOREM GdbReadsThePort == GdbSpec => Spec
  BY GdbStepIsStep, PTL DEF GdbSpec, Spec, GdbInit

\* cdc0_getchar_timeout never sleeps over a character, and gives up before its time only
\* after a wake-up left from bytes read earlier or a bus reset (usb_cdc.c:237-249, 277-308).
THEOREM WaitsAreHonest == GdbSpec => []TimeoutIsEarned
  <1>1. GdbInv => TimeoutIsEarned
    BY DEF GdbInv, NoSleepMissed, GivenUp, TimeoutIsEarned
  <1> QED BY <1>1, GdbBegins, GdbStep, PTL DEF GdbSpec
-----------------------------------------------------------------------------
\* The aux thread.

USE ConsumersAssumption, LengthsAssumption

LEMMA AuxStepImplementsPort == [AuxNext]_allVars => [Next]_vars
  <1> SUFFICES ASSUME [AuxNext]_allVars PROVE [Next]_vars
    OBVIOUS
  <1> USE DEF Next
  <1>1. CASE AuxStep
    BY <1>1 DEF AuxStep, WaitForChar, TestRtt, TestEmpty, AuxGet, AuxRearm, AuxSend
  <1>2. CASE RttStep
    BY <1>2 DEF RttStep
  <1>3. CASE \E on \in BOOLEAN : SetRtt(on)
    BY <1>3 DEF SetRtt
  <1>4. CASE AuxInterrupt
    BY <1>4 DEF AuxInterrupt, Interrupt
  <1>5. CASE UNCHANGED allVars
    BY <1>5 DEF allVars
  <1> QED BY <1>1, <1>2, <1>3, <1>4, <1>5 DEF AuxNext

\* The port of the composition behaves as CdcReceive specifies, so whatever is
\* proved of CdcReceive holds of it.
THEOREM PortOfAux == AuxSpec => Spec
  <1>1. AuxInit => Init
    BY DEF AuxInit
  <1> QED BY <1>1, AuxStepImplementsPort, PTL DEF AuxSpec, Spec

\* Type correctness of the composition; only the chunk needs an argument: it comes
\* out of the ring.
LEMMA AuxTypeStep ==
    ASSUME IInv, IInv', AuxTypeOK, [AuxNext]_allVars PROVE AuxTypeOK'
  <1> USE DEF AuxTypeOK, AuxLocations, AuxGoto, vars, auxVars, rttVars
  <1>t. TypeOK /\ TypeOK'
    BY DEF IInv
  <1>s. sent \in Nat /\ sent' \in Nat /\ last' \in Nat
    BY <1>t DEF TypeOK
  <1>1. CASE WaitForChar \/ TestRtt \/ TestEmpty
    BY <1>t, <1>1 DEF WaitForChar, TestRtt, TestEmpty
  <1>2. CASE AuxGet
    BY <1>t, <1>s, <1>2 DEF AuxGet
  <1>3. CASE AuxSend
    BY <1>t, <1>3 DEF AuxSend
  <1>4. CASE AuxRearm \/ RttStep
    BY <1>t, <1>4 DEF AuxRearm, RttStep
  <1>5. CASE \E on \in BOOLEAN : SetRtt(on)
    BY <1>t, <1>s, <1>5 DEF SetRtt
  <1>6. CASE AuxInterrupt
    BY <1>t, <1>6 DEF AuxInterrupt, SendEvent
  <1>7. CASE UNCHANGED allVars
    BY <1>t, <1>7 DEF allVars
  <1> QED BY <1>1, <1>2, <1>3, <1>4, <1>5, <1>6, <1>7 DEF AuxNext, AuxStep

THEOREM AuxTypeCorrect == AuxSpec => []AuxTypeOK
  <1>1. AuxInit => IInv
    BY InitInv DEF AuxInit
  <1>2. AuxInit /\ IInv => AuxTypeOK
    <2> SUFFICES ASSUME AuxInit, IInv PROVE AuxTypeOK
      OBVIOUS
    <2>1. chunk \in Nat /\ uart_out \in Nat /\ rtt_since \in Nat
      BY DEF AuxInit
    <2>2. /\ event \in BOOLEAN /\ rtt_enabled \in BOOLEAN /\ disturbed \in BOOLEAN
          /\ aux \in AuxLocations
      BY DEF AuxInit, AuxLocations
    <2>3. TypeOK
      BY DEF IInv
    <2> QED BY <2>1, <2>2, <2>3 DEF AuxTypeOK
  <1>3. IInv /\ IInv' /\ AuxTypeOK /\ [AuxNext]_allVars => AuxTypeOK'
    BY AuxTypeStep
  <1>4. AuxSpec => []IInv
    BY PortOfAux, Invariance, PTL
  <1> QED BY <1>1, <1>2, <1>3, <1>4, PTL DEF AuxSpec

\* Both readers of the console input get its bytes in the order of the host.
THEOREM AuxBytesInOrder == AuxSpec => []InOrder
  BY PortOfAux, BytesInOrder, PTL

-----------------------------------------------------------------------------
LEMMA GetOnlyTakes ==
    ASSUME TypeOK, NEW c \in Consumers, NEW n \in GetLengths, Get(c, n), ring = <<>>
    PROVE  ring' = <<>>
  <1>1. Len(ring) = 0
    BY EmptySeq
  <1>2. n \in Nat
    OBVIOUS
  <1>3. ring' = SubSeq(ring, 1, 0)
    BY <1>1, <1>2 DEF Get
  <1> QED BY <1>3, SubSeqEmpty

LEMMA EmptyPacketPutsNothing ==
    ASSUME TypeOK, BulkOut(0) PROVE ring' = ring
  <1>1. Len(ring) \in Nat /\ Space \in Nat
    BY LenProperties DEF TypeOK, Space, Size
  <1>a. IF 0 < Space THEN TRUE ELSE Space = 0
    BY <1>1
  <1>b. ring' = ring \o Bytes(sent + 1, IF 0 < Space THEN 0 ELSE Space)
    BY DEF BulkOut, PutPacket
  <1>2. ring' = ring \o Bytes(sent + 1, 0)
    BY <1>a, <1>b
  <1>3. Bytes(sent + 1, 0) = <<>>
    BY DEF Bytes
  <1> QED BY <1>2, <1>3, ConcatEmptySeq DEF TypeOK

LEMMA RingBytesAreSent ==
    ASSUME TypeOK, InOrder, ring # <<>> PROVE sent # 0
  <1>1. Len(ring) \in Nat /\ Len(ring) # 0
    BY EmptySeq, LenProperties DEF TypeOK
  <1>2. last < ring[1] /\ ring[1] <= sent
    BY <1>1 DEF InOrder
  <1>3. ring[1] \in Nat /\ last \in Nat /\ sent \in Nat
    BY <1>1, ElementOfSeq DEF TypeOK
  <1> QED BY <1>2, <1>3

LEMMA AnnouncedStep ==
    ASSUME IInv, InputAnnounced, [AuxNext]_allVars PROVE InputAnnounced'
  <1> USE DEF InputAnnounced, RttWasOff, AuxGoto, vars, auxVars, rttVars
  <1>t. TypeOK
    BY DEF IInv
  <1>1. CASE WaitForChar \/ TestRtt \/ TestEmpty \/ AuxSend
    BY <1>1 DEF WaitForChar, TestRtt, TestEmpty, AuxSend
  <1>2. CASE AuxGet
    BY <1>2 DEF AuxGet
  <1>3. ASSUME NEW c \in Consumers, Rearm(c), UNCHANGED <<auxVars, rttVars>>
        PROVE  InputAnnounced'
    BY <1>3 DEF Rearm, TestBusy, TestSpace, StartRead, SetBusy, dataVars
  <1>4. CASE AuxInterrupt
    <2>1. aux' = aux /\ UNCHANGED <<rtt_enabled, rtt_since>>
      BY <1>4 DEF AuxInterrupt
    <2>2. ASSUME NEW n \in 0..MPS, BulkOut(n), SendEvent(n) PROVE InputAnnounced'
      <3>1. CASE n = 0
        <4>1. ring' = ring /\ (event => event')
          BY <1>t, <2>2, <3>1, EmptyPacketPutsNothing DEF SendEvent
        <4> QED BY <2>1, <4>1
      <3>2. CASE n > 0
        BY <2>1, <2>2, <3>2 DEF SendEvent
      <3>3. n = 0 \/ n > 0
        OBVIOUS
      <3> QED BY <3>1, <3>2, <3>3
    <2>3. CASE (SetDtr \/ BusReset \/ Configured) /\ UNCHANGED event
      BY <2>1, <2>3 DEF SetDtr, Configured, BusReset, dataVars
    <2> QED BY <1>4, <2>2, <2>3 DEF AuxInterrupt
  <1>5. ASSUME NEW on \in BOOLEAN, SetRtt(on) PROVE InputAnnounced'
    <2>1. rtt_since' = sent /\ rtt_enabled' = on /\ UNCHANGED <<ring, event, aux>>
      BY <1>5 DEF SetRtt
    <2>2. ring # <<>> => sent # 0
      BY <1>t, RingBytesAreSent DEF IInv
    <2> QED BY <2>1, <2>2
  <1>6. CASE RttStep
    <2>1. UNCHANGED <<auxVars, rttVars>>
      BY <1>6 DEF RttStep
    <2>2. CASE rtt_enabled
      BY <2>1, <2>2
    <2>3. CASE Rearm(RttThread)
      BY <1>3, <2>1, <2>3
    <2> QED BY <1>6, <2>2, <2>3 DEF RttStep
  <1>7. CASE UNCHANGED allVars
    BY <1>7 DEF allVars
  <1> QED BY <1>1, <1>2, <1>3, <1>4, <1>5, <1>6, <1>7
          DEF AuxNext, AuxStep, AuxRearm

\* Until rtt is switched on, every byte in the ring is announced.
THEOREM EventsAreNotLost == AuxSpec => []InputAnnounced
  <1>1. AuxInit => InputAnnounced
    BY DEF AuxInit, Init, InputAnnounced
  <1>2. IInv /\ InputAnnounced /\ [AuxNext]_allVars => InputAnnounced'
    BY AnnouncedStep
  <1>3. AuxSpec => []IInv
    BY PortOfAux, Invariance, PTL
  <1> QED BY <1>1, <1>2, <1>3, PTL DEF AuxSpec

-----------------------------------------------------------------------------
\* Why one reader and a host that only sends lose nothing: the endpoint is armed
\* only with room for a packet, and between the thread's tests and its start of
\* the read nobody else arms it.
FlowInv == /\ ~disturbed /\ ~lost
           /\ rtt_enabled = FALSE /\ pc[RttThread] = "idle"
           /\ armed => Space >= MPS
           /\ ~ep_open => /\ ~armed
                          /\ ring = <<>> /\ ~event /\ aux = "wait"
           /\ aux # "in_get" => pc[AuxThread] = "idle"
           /\ pc[AuxThread] \in {"test_space", "start_read"} => ~armed
           /\ pc[AuxThread] = "start_read" => Space >= MPS
           /\ pc[AuxThread] \in {"idle", "test_busy"} /\ ~busy => ~armed

LEMMA FlowInit == AuxInit => FlowInv
  BY DEF AuxInit, Init, FlowInv

LEMMA FlowAux ==
    ASSUME IInv, FlowInv, AuxStep PROVE FlowInv'
  <1> USE DEF AuxGoto, vars, auxVars, rttVars, epVars, dataVars
  <1>t. TypeOK
    BY DEF IInv
  <1>1. CASE WaitForChar \/ TestRtt \/ TestEmpty \/ AuxSend
    <2>1. UNCHANGED <<vars, rttVars>>
      BY <1>1 DEF WaitForChar, TestRtt, TestEmpty, AuxSend
    <2>2. ep_open
      BY <1>1 DEF FlowInv, WaitForChar, TestRtt, TestEmpty, AuxSend
    <2>3. pc[AuxThread] = "idle"
      BY <1>1 DEF FlowInv, WaitForChar, TestRtt, TestEmpty, AuxSend
    <2> QED BY <2>1, <2>2, <2>3 DEF FlowInv, Space, Size
  <1>2. CASE AuxGet
    <2>1. /\ Get(AuxThread, AuxLength) /\ aux' = "in_get"
          /\ ep_open /\ pc[AuxThread] = "idle"
          /\ UNCHANGED <<epVars, lost, rttVars>>
      BY <1>2 DEF AuxGet, Get, FlowInv
    <2>2. pc' = [pc EXCEPT ![AuxThread] = "test_busy"]
      BY <2>1 DEF Get, Goto
    <2>3. Space' >= Space
      <3>1. Len(ring) \in Nat /\ AuxLength \in Nat
        BY <1>t, LenProperties DEF TypeOK
      <3> DEFINE k == IF AuxLength < Len(ring) THEN AuxLength ELSE Len(ring)
      <3>2. k \in Nat /\ k <= Len(ring)
        BY <3>1
      <3>3. Len(ring') = Len(ring) - k
        <4>1. ring' = SubSeq(ring, k + 1, Len(ring))
          BY <2>1 DEF Get
        <4> HIDE DEF k
        <4> QED BY <1>t, <3>2, <4>1, GetRing DEF TypeOK
      <3> HIDE DEF k
      <3> QED BY <3>1, <3>2, <3>3 DEF Space, Size
    <2>4. Space \in Int /\ Space' \in Int
      BY <1>t, <2>1, GetInv, LenProperties DEF IInv, TypeOK, Space, Size
    <2> QED BY <1>t, <2>1, <2>2, <2>3, <2>4 DEF FlowInv, TypeOK
  <1>3. CASE AuxRearm
    <2>1. UNCHANGED <<dataVars, auxVars, rttVars, ep_open>> /\ Rearm(AuxThread)
      BY <1>3 DEF AuxRearm, Rearm, TestBusy, TestSpace, StartRead, SetBusy
    <2>2. pc[AuxThread] # "idle" /\ aux = "in_get" /\ ep_open
      BY <2>1 DEF Rearm, TestBusy, TestSpace, StartRead, SetBusy, Goto, FlowInv
    <2>3. CASE TestBusy(AuxThread)
      BY <1>t, <2>1, <2>2, <2>3 DEF TestBusy, Goto, FlowInv, TypeOK, Space, Size
    <2>4. CASE TestSpace(AuxThread)
      BY <1>t, <2>1, <2>2, <2>4 DEF TestSpace, Goto, FlowInv, TypeOK, Space, Size
    <2>5. CASE StartRead(AuxThread)
      BY <1>t, <2>1, <2>2, <2>5 DEF StartRead, Goto, FlowInv, TypeOK, Space, Size
    <2>6. CASE SetBusy(AuxThread)
      BY <1>t, <2>1, <2>2, <2>6 DEF SetBusy, Goto, FlowInv, TypeOK, Space, Size
    <2> QED BY <2>1, <2>3, <2>4, <2>5, <2>6 DEF Rearm
  <1> QED BY <1>1, <1>2, <1>3 DEF AuxStep

LEMMA FlowInterrupt ==
    ASSUME TypeOK, FlowInv, AuxInterrupt, ~disturbed' PROVE FlowInv'
  <1>0. UNCHANGED <<aux, rtt_enabled, rtt_since, disturbed>>
    BY DEF AuxInterrupt, FlowInv
  <1>1. ASSUME NEW n \in 0..MPS, BulkOut(n) PROVE FlowInv'
    <2>1. Len(ring) \in Nat /\ Space \in Int
      BY LenProperties DEF TypeOK, Space, Size
    <2>2. armed /\ ep_open /\ Space >= MPS
      BY <1>1 DEF BulkOut, FlowInv
    <2>3. ~(n < Space) => n = Space
      BY <2>1, <2>2
    <2>4. /\ ~lost' /\ armed' = (Space' >= MPS) /\ busy' = (Space' >= MPS)
          /\ UNCHANGED <<ep_open, pc>>
      <3>1. /\ lost' = (lost \/ (IF n < Space THEN n ELSE Space) < n)
            /\ armed' = (Space' >= MPS) /\ busy' = (Space' >= MPS)
            /\ UNCHANGED <<ep_open, pc>>
        BY <1>1 DEF BulkOut, PutPacket
      <3>2. ~((IF n < Space THEN n ELSE Space) < n)
        BY <2>1, <2>3
      <3> QED BY <3>1, <3>2 DEF FlowInv
    <2> QED BY <1>0, <2>2, <2>4 DEF FlowInv
  <1>2. ASSUME Configured, UNCHANGED event PROVE FlowInv'
    <2>1. Len(ring) = 0 /\ pc[AuxThread] = "idle"
      BY <1>2, EmptySeq DEF Configured, FlowInv
    <2>2. Space' >= MPS
      BY <1>2, <2>1 DEF Configured, dataVars, Space, Size
    <2> QED BY <1>0, <1>2, <2>1, <2>2 DEF Configured, dataVars, FlowInv
  <1> QED BY <1>1, <1>2 DEF AuxInterrupt

LEMMA FlowStep ==
    ASSUME IInv, disturbed \/ FlowInv, [AuxNext]_allVars
    PROVE  disturbed' \/ FlowInv'
  <1>d. disturbed => disturbed'
    BY DEF AuxNext, AuxStep, WaitForChar, TestRtt, TestEmpty, AuxGet, AuxRearm, AuxSend,
           RttStep, SetRtt, AuxInterrupt, allVars, rttVars
  <1> SUFFICES ASSUME FlowInv, ~disturbed' PROVE FlowInv'
    BY <1>d
  <1>1. CASE RttStep
    BY <1>1 DEF RttStep, FlowInv, Rearm, TestBusy, TestSpace, StartRead, SetBusy, Goto
  <1>2. CASE \E on \in BOOLEAN : SetRtt(on)
    BY <1>2 DEF SetRtt
  <1>3. CASE UNCHANGED allVars
    BY <1>3 DEF allVars, vars, auxVars, rttVars, FlowInv, Space, Size
  <1> QED BY <1>1, <1>2, <1>3, FlowAux, FlowInterrupt DEF AuxNext, IInv

\* No byte is dropped for lack of space until rtt is switched on or the host sets
\* dtr or resets the bus, for every packet size.
THEOREM FlowControl == AuxSpec => []NoLoss
  <1>1. AuxInit => FlowInv
    BY FlowInit
  <1>2. IInv /\ (disturbed \/ FlowInv) /\ [AuxNext]_allVars => (disturbed \/ FlowInv)'
    BY FlowStep
  <1>3. disturbed \/ FlowInv => NoLoss
    BY DEF FlowInv, NoLoss
  <1>4. AuxSpec => []IInv
    BY PortOfAux, Invariance, PTL
  <1> QED BY <1>1, <1>2, <1>3, <1>4, PTL DEF AuxSpec
=============================================================================
