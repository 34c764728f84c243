-------------------------- MODULE CdcTransmitProofs --------------------------
(***************************************************************************)
(* Proofs about CdcTransmit for every set of writers, every assignment of  *)
(* writers to ports, every packet size and every set of message lengths.   *)
(***************************************************************************)
EXTENDS CdcTransmit, SequenceTheorems, TLAPS

\* The inductive invariant.  TypeOK alone is not inductive: that the token count
\* stays at one needs at most one transfer in flight (BufferStable), which needs
\* one writer at a time (WritersExclude), which needs the hand-over of the
\* semaphore to go to a suspended thread (QueueIsWaiters).
IInv == /\ TypeOK
        /\ WritersExclude
        /\ QueueIsWaiters
        /\ BufferStable
        /\ TokenForWaiter
        /\ MessagesWhole

USE WriterAssumption, MpsAssumption, LengthAssumption

LEMMA InitInv == Init => IInv
  <1> SUFFICES ASSUME Init PROVE IInv
    OBVIOUS
  <1> USE DEF Init
  <1>1. TypeOK
    <2>1. in_ep \in [Ports -> Transfers \cup {Nothing}]
      OBVIOUS
    <2>2. ep_write_queue \in Seq(Writers)
      OBVIOUS
    <2>3. nbytes \in [Writers -> Nat]
      OBVIOUS
    <2>4. pc \in [Writers -> Locations]
      BY DEF Locations
    <2>5. dtr \in [Ports -> BOOLEAN] /\ host_partial \in [Ports -> BOOLEAN]
      OBVIOUS
    <2> QED BY <2>1, <2>2, <2>3, <2>4, <2>5 DEF TypeOK
  <1>2. WritersExclude /\ QueueIsWaiters
    BY DEF WritersExclude, QueueIsWaiters, Holds
  <1>3. BufferStable /\ TokenForWaiter /\ MessagesWhole
    BY DEF BufferStable, TokenForWaiter, MessagesWhole, InFlight
  <1> QED BY <1>1, <1>2, <1>3 DEF IInv

\* A transfer in flight has an owner and a length.
LEMMA InFlightType ==
    ASSUME TypeOK, NEW p \in Ports, InFlight(p)
    PROVE  /\ in_ep[p] \in Transfers
           /\ in_ep[p].writer \in Writers
           /\ in_ep[p].len \in Nat
  <1>1. in_ep[p] \in Transfers
    BY DEF TypeOK, InFlight
  <1> QED BY <1>1 DEF Transfers

LEMMA WriteInv == ASSUME IInv, NEW w \in Writers, Write(w) PROVE IInv'
  <1>1. TypeOK'
    BY DEF IInv, TypeOK, Write, Goto, deviceVars, semVars, Locations
  <1>2. WritersExclude'
    BY DEF IInv, TypeOK, Write, Goto, semVars, WritersExclude, Holds
  <1>3. QueueIsWaiters'
    BY DEF IInv, TypeOK, Write, Goto, semVars, QueueIsWaiters
  <1>4. BufferStable'
    BY InFlightType DEF IInv, TypeOK, Write, Goto, BufferStable, InFlight
  <1>5. TokenForWaiter' /\ MessagesWhole'
    BY DEF IInv, TypeOK, Write, Goto, semVars, TokenForWaiter, MessagesWhole, InFlight
  <1> QED BY <1>1, <1>2, <1>3, <1>4, <1>5 DEF IInv

LEMMA TakeEpInv == ASSUME IInv, NEW w \in Writers, TakeEp(w) PROVE IInv'
  <1> USE DEF IInv, TypeOK, TakeEp, Goto, deviceVars
  <1>1. TypeOK'
    <2>1. pc' \in [Writers -> Locations]
      BY DEF Locations
    <2>2. ep_write_queue' \in Seq(Writers)
      <3>1. Append(ep_write_queue, w) \in Seq(Writers)
        BY AppendProperties
      <3>2. ep_write_queue' = ep_write_queue \/ ep_write_queue' = Append(ep_write_queue, w)
        OBVIOUS
      <3> QED BY <3>1, <3>2
    <2>3. ep_write_sem' \in {0, 1}
      OBVIOUS
    <2> QED BY <2>1, <2>2, <2>3
  <1>2. WritersExclude'
    BY DEF WritersExclude, Holds
  <1>3. QueueIsWaiters'
    <2>1. CASE ep_write_sem > 0
      BY <2>1 DEF QueueIsWaiters
    <2>2. CASE ep_write_sem = 0
      <3> DEFINE n == Len(ep_write_queue)
      <3>1. \A i \in 1..n : ep_write_queue[i] # w
        BY DEF QueueIsWaiters
      <3>2. /\ Len(ep_write_queue') = n + 1
            /\ ep_write_queue'[n + 1] = w
            /\ \A i \in 1..n : ep_write_queue'[i] = ep_write_queue[i]
        <4>1. ep_write_queue' = Append(ep_write_queue, w)
          BY <2>2
        <4> QED BY <4>1, AppendProperties
      <3>n. n \in Nat /\ \A i \in 1..n : ep_write_queue[i] \in Writers
        BY ElementOfSeq, LenProperties
      <3>p. pc' = [pc EXCEPT ![w] = "wait_ep"] /\ ep_write_sem' = 0
        BY <2>2
      <3>s. \A i \in 1..n + 1 : i = n + 1 \/ i \in 1..n
        BY <3>n
      <3> HIDE DEF n
      <3>3. \A i \in 1..n + 1 : pc'[ep_write_queue'[i]] = "wait_ep"
        <4> TAKE i \in 1..n + 1
        <4>1. CASE i = n + 1
          BY <3>2, <3>p, <4>1
        <4>2. CASE i \in 1..n
          <5>1. pc[ep_write_queue[i]] = "wait_ep"
            BY <4>2 DEF QueueIsWaiters, n
          <5> QED BY <3>1, <3>2, <3>n, <3>p, <4>2, <5>1 DEF n
        <4> QED BY <3>s, <4>1, <4>2
      <3>4. ASSUME NEW v \in Writers, pc'[v] = "wait_ep"
            PROVE  \E i \in 1..n + 1 : ep_write_queue'[i] = v
        <4>0. n + 1 \in 1..n + 1 /\ \A i \in 1..n : i \in 1..n + 1
          BY <3>n
        <4>1. CASE v = w
          BY <3>2, <4>0, <4>1
        <4>2. CASE v # w
          <5>1. PICK i \in 1..n : ep_write_queue[i] = v
            BY <3>p, <3>4, <4>2 DEF QueueIsWaiters, n
          <5> QED BY <3>2, <4>0, <5>1
        <4> QED BY <4>1, <4>2
      <3>5. \A i, j \in 1..n + 1 : ep_write_queue'[i] = ep_write_queue'[j] => i = j
        <4>1. \A i, j \in 1..n : ep_write_queue[i] = ep_write_queue[j] => i = j
          BY DEF QueueIsWaiters, n
        <4> QED BY <3>1, <3>2, <3>s, <4>1 DEF n
      <3> QED BY <3>2, <3>3, <3>4, <3>5, <3>p DEF QueueIsWaiters
    <2> QED BY <2>1, <2>2
  <1>4. BufferStable'
    BY InFlightType DEF BufferStable, InFlight
  <1>5. TokenForWaiter' /\ MessagesWhole'
    BY DEF TokenForWaiter, MessagesWhole, InFlight
  <1> QED BY <1>1, <1>2, <1>3, <1>4, <1>5

LEMMA BeginTransferInv == ASSUME IInv, NEW w \in Writers, BeginTransfer(w) PROVE IInv'
  <1> USE DEF IInv, TypeOK, BeginTransfer, StartWrite, Goto, deviceVars, semVars
  <1>0. \A p \in Ports : ~InFlight(p)
    BY InFlightType DEF BufferStable, WritersExclude, Holds
  <1>1. TypeOK'
    BY DEF Locations, Transfers, Ports
  <1>2. WritersExclude'
    BY DEF WritersExclude, Holds
  <1>3. QueueIsWaiters'
    BY DEF QueueIsWaiters
  <1>4. BufferStable'
    BY <1>0 DEF BufferStable, InFlight, Ports
  <1>5. TokenForWaiter'
    BY DEF TokenForWaiter, WritersExclude, Holds
  <1>6. MessagesWhole'
    BY <1>0 DEF MessagesWhole
  <1> QED BY <1>1, <1>2, <1>3, <1>4, <1>5, <1>6

LEMMA TakeTxInv == ASSUME IInv, NEW w \in Writers, TakeTx(w) PROVE IInv'
  <1> USE DEF IInv, TypeOK, TakeTx, Goto, deviceVars
  <1>0. \A p \in Ports : ~InFlight(p)
    BY DEF TokenForWaiter
  <1>1. TypeOK'
    BY DEF Locations
  <1>2. WritersExclude'
    BY DEF WritersExclude, Holds
  <1>3. QueueIsWaiters'
    BY DEF QueueIsWaiters
  <1>4. BufferStable'
    BY <1>0 DEF BufferStable, InFlight
  <1>5. TokenForWaiter' /\ MessagesWhole'
    BY DEF TokenForWaiter, MessagesWhole, InFlight
  <1> QED BY <1>1, <1>2, <1>3, <1>4, <1>5

LEMMA ReleaseEpInv == ASSUME IInv, NEW w \in Writers, ReleaseEp(w) PROVE IInv'
  <1> USE DEF IInv, TypeOK, ReleaseEp, deviceVars
  <1>0. ep_write_sem = 0 /\ \A v \in Writers \ {w} : ~Holds(v)
    BY DEF WritersExclude, Holds
  <1>1. \A p \in Ports : ~InFlight(p)
    <2> SUFFICES ASSUME NEW p \in Ports, InFlight(p) PROVE FALSE
      OBVIOUS
    <2> DEFINE v == in_ep[p].writer
    <2>1. v \in Writers /\ pc[v] = "take_tx"
      BY InFlightType DEF BufferStable
    <2>2. v # w /\ Holds(v)
      BY <2>1 DEF Holds
    <2> QED BY <1>0, <2>1, <2>2
  <1>2. cdc_tx_busy_sem = 0
    BY <1>0 DEF TokenForWaiter, Holds
  <1>3. BufferStable' /\ TokenForWaiter' /\ MessagesWhole'
    BY <1>1, <1>2 DEF BufferStable, TokenForWaiter, MessagesWhole, InFlight
  <1>4. CASE ep_write_queue = <<>>
    <2>1. TypeOK'
      <3>1. pc' \in [Writers -> Locations]
        BY <1>4 DEF Locations
      <3> QED BY <1>0, <1>4, <3>1
    <2>2. WritersExclude'
      BY <1>0, <1>4 DEF WritersExclude, Holds
    <2>3. QueueIsWaiters'
      BY <1>0, <1>4 DEF QueueIsWaiters
    <2> QED BY <1>3, <2>1, <2>2, <2>3
  <1>5. CASE ep_write_queue # <<>>
    <2>1. /\ Head(ep_write_queue) \in Writers
          /\ Head(ep_write_queue) = ep_write_queue[1]
          /\ Len(ep_write_queue) > 0
      BY <1>5
    <2>2. pc[Head(ep_write_queue)] = "wait_ep"
      BY <2>1 DEF QueueIsWaiters
    <2>3. TypeOK'
      <3>1. pc' \in [Writers -> Locations]
        BY <1>5, <2>1 DEF Locations
      <3>2. ep_write_queue' \in Seq(Writers)
        <4>1. Tail(ep_write_queue) \in Seq(Writers)
          BY <1>5, HeadTailProperties
        <4> QED BY <1>5, <4>1
      <3> QED BY <1>5, <3>1, <3>2
    <2>4. WritersExclude'
      BY <1>0, <1>5, <2>1, <2>2 DEF WritersExclude, Holds
    <2>5. QueueIsWaiters'
      <3> DEFINE n == Len(ep_write_queue)
      <3>0. n \in Nat /\ n > 0 /\ ep_write_queue' = Tail(ep_write_queue)
        BY <1>5, <2>1, LenProperties
      <3>1. /\ Len(ep_write_queue') = n - 1
            /\ \A i \in 1..n - 1 : ep_write_queue'[i] = ep_write_queue[i + 1]
        BY <1>5, <3>0, HeadTailProperties
      <3>2. \A i \in 1..n - 1 : pc'[ep_write_queue'[i]] = "wait_ep"
        <4> TAKE i \in 1..n - 1
        <4>1. i + 1 \in 1..n /\ 1 \in 1..n /\ i + 1 # 1
          BY <3>0
        <4>2. /\ pc[ep_write_queue[i + 1]] = "wait_ep"
              /\ ep_write_queue[i + 1] # ep_write_queue[1]
              /\ ep_write_queue[i + 1] \in Writers
          BY <4>1 DEF QueueIsWaiters
        <4> QED BY <1>5, <2>1, <3>1, <4>2
      <3>3. ASSUME NEW v \in Writers, pc'[v] = "wait_ep"
            PROVE  \E i \in 1..n - 1 : ep_write_queue'[i] = v
        <4>1. PICK i \in 1..n : ep_write_queue[i] = v
          BY <1>5, <2>1, <3>3 DEF QueueIsWaiters
        <4>2. i # 1
          BY <1>5, <2>1, <3>3, <4>1
        <4>3. i - 1 \in 1..n - 1 /\ (i - 1) + 1 = i
          BY <3>0, <4>1, <4>2
        <4>4. ep_write_queue'[i - 1] = v
          BY <3>1, <4>1, <4>3
        <4> QED BY <4>3, <4>4
      <3>4. \A i, j \in 1..n - 1 :
              ep_write_queue'[i] = ep_write_queue'[j] => i = j
        <4> TAKE i, j \in 1..n - 1
        <4>1. i + 1 \in 1..n /\ j + 1 \in 1..n
          BY <3>0
        <4>2. ep_write_queue[i + 1] = ep_write_queue[j + 1] => i + 1 = j + 1
          BY <4>1 DEF QueueIsWaiters
        <4> QED BY <3>1, <4>2
      <3>5. ep_write_sem' = 0
        BY <1>0, <1>5
      <3> HIDE DEF n
      <3> QED BY <3>1, <3>2, <3>3, <3>4, <3>5 DEF QueueIsWaiters
    <2> QED BY <1>3, <2>3, <2>4, <2>5
  <1> QED BY <1>4, <1>5

LEMMA BulkInInv == ASSUME IInv, NEW p \in Ports, BulkIn(p) PROVE IInv'
  <1> USE DEF IInv, TypeOK, BulkIn, NeedsZlp, deviceVars
  <1>1. in_ep[p] \in Transfers
    BY InFlightType
  <1>2. \A q \in Ports : InFlight(q) => q = p
    BY InFlightType DEF BufferStable, WritersExclude, Holds
  <1>3. cdc_tx_busy_sem = 0
    BY DEF TokenForWaiter
  <1>4. pc[in_ep[p].writer] = "take_tx" /\ in_ep[p].writer \in Writers
    BY InFlightType DEF BufferStable
  <1>5. WritersExclude'
    BY DEF WritersExclude, Holds
  <1>6. QueueIsWaiters'
    BY DEF QueueIsWaiters
  <1>7. CASE EndsFull(in_ep[p].len)
    <2>1. in_ep' = [in_ep EXCEPT ![p] = [writer |-> in_ep[p].writer, len |-> 0]]
      BY <1>1, <1>7 DEF Transfers
    <2>2. TypeOK'
      BY <1>1, <1>7, <2>1 DEF Transfers, EndsFull
    <2>3. BufferStable'
      BY <1>2, <1>4, <1>7, <2>1 DEF BufferStable, InFlight
    <2>4. TokenForWaiter'
      BY <1>3, <1>7 DEF TokenForWaiter
    <2>5. MessagesWhole'
      BY <1>2, <1>7, <2>1 DEF MessagesWhole, InFlight, Nothing
    <2> QED BY <1>5, <1>6, <2>2, <2>3, <2>4, <2>5
  <1>8. CASE ~EndsFull(in_ep[p].len)
    <2>1. \A q \in Ports : in_ep'[q] = Nothing
      BY <1>2, <1>8 DEF InFlight
    <2>2. TypeOK'
      <3>1. in_ep' \in [Ports -> Transfers \cup {Nothing}]
        BY <1>8
      <3>2. cdc_tx_busy_sem' \in {0, 1}
        BY <1>3, <1>8
      <3>3. host_partial' \in [Ports -> BOOLEAN]
        BY DEF EndsFull
      <3> QED BY <3>1, <3>2, <3>3
    <2>3. BufferStable'
      BY <2>1 DEF BufferStable, InFlight
    <2>4. TokenForWaiter'
      BY <1>4, <2>1 DEF TokenForWaiter, InFlight
    <2>5. MessagesWhole'
      BY <1>2, <1>8 DEF MessagesWhole
    <2> QED BY <1>5, <1>6, <2>2, <2>3, <2>4, <2>5
  <1> QED BY <1>7, <1>8

LEMMA BusResetInv == ASSUME IInv, BusReset PROVE IInv'
  <1> USE DEF IInv, BusReset, semVars
  <1>1. TypeOK'
    BY DEF TypeOK
  <1>2. WritersExclude' /\ QueueIsWaiters'
    BY DEF WritersExclude, QueueIsWaiters, Holds
  <1>3. BufferStable' /\ TokenForWaiter' /\ MessagesWhole'
    BY DEF BufferStable, TokenForWaiter, MessagesWhole, InFlight
  <1> QED BY <1>1, <1>2, <1>3

LEMMA ConfiguredInv == ASSUME IInv, Configured PROVE IInv'
  BY DEF IInv, Configured, semVars, TypeOK, WritersExclude, QueueIsWaiters, Holds,
         BufferStable, TokenForWaiter, MessagesWhole, InFlight

LEMMA SetDtrInv ==
    ASSUME IInv, NEW p \in Ports, NEW on \in BOOLEAN, SetDtr(p, on)
    PROVE  IInv'
  BY DEF IInv, SetDtr, semVars, TypeOK, WritersExclude, QueueIsWaiters, Holds,
         BufferStable, TokenForWaiter, MessagesWhole, InFlight

LEMMA StutterInv == ASSUME IInv, UNCHANGED vars PROVE IInv'
  BY DEF IInv, TypeOK, WritersExclude, QueueIsWaiters, BufferStable, TokenForWaiter,
         MessagesWhole, Holds, InFlight, vars, deviceVars, semVars

LEMMA StepInv == IInv /\ [Next]_vars => IInv'
  BY WriteInv, TakeEpInv, BeginTransferInv, TakeTxInv, ReleaseEpInv, BulkInInv,
     BusResetInv, ConfiguredInv, SetDtrInv, StutterInv DEF Next, Running

\* In every behaviour, whatever the host does and however the threads are
\* scheduled, the invariant holds.
THEOREM Invariance == Spec => []IInv
  BY InitInv, StepInv, PTL DEF Spec

\* The variables of usb_cdc.c keep their types; neither semaphore exceeds one.
THEOREM TypeCorrect == Spec => []TypeOK
  BY Invariance, PTL DEF IInv

\* The two ports never transmit at the same time.
THEOREM MutualExclusion == Spec => []WritersExclude
  BY Invariance, PTL DEF IInv

\* No write returns while the controller may still read its buffer.
THEOREM BuffersAreStable == Spec => []BufferStable
  BY Invariance, PTL DEF IInv

\* No write is ended by the completion of another one.
THEOREM TokensAreForTheWaiter == Spec => []TokenForWaiter
  BY Invariance, PTL DEF IInv

\* The zero-length packet always follows a message that ends with a full packet.
THEOREM MessagesAreWhole == Spec => []MessagesWhole
  BY Invariance, PTL DEF IInv
-----------------------------------------------------------------------------
\* The refinement of SerialOut.  Only the thread that holds ep_write_sem has a
\* message under way, so a step changes the stage of at most one message.
OutStage == [w \in Writers |-> Stage(w)]

LEMMA StageOfOutsiders ==
    ASSUME NEW v \in Writers, TypeOK, ~Holds(v)
    PROVE  /\ pc[v] = "idle" => Stage(v) = "idle"
           /\ pc[v] \in {"take_ep", "wait_ep"} => Stage(v) = "waiting"
           /\ Stage(v) \in {"idle", "waiting"}
  BY DEF Stage, Holds, TypeOK, Locations

LEMMA StageOfHolder ==
    ASSUME NEW v \in Writers
    PROVE  /\ pc[v] = "start_write" => Stage(v) = "waiting"
           /\ pc[v] = "release_ep" => Stage(v) = "sent"
           /\ pc[v] = "take_tx" /\ cdc_tx_busy_sem > 0 => Stage(v) = "sent"
           /\ pc[v] = "take_tx" /\ cdc_tx_busy_sem = 0 =>
                Stage(v) = IF InFlight(Port[v]) THEN "sending" ELSE "lost"
  BY DEF Stage

LEMMA NothingIsNoTransfer == Nothing \notin Transfers
  <1>1. \A t \in Transfers : "writer" \in DOMAIN t
    BY DEF Transfers
  <1>2. "writer" \notin DOMAIN Nothing
    BY DEF Nothing
  <1> QED BY <1>1, <1>2

LEMMA InitRefines == Init => Out!Init
  BY DEF Init, Out!Init, Stage

\* The stages after a step that moves writer w from one stage to another.
LEMMA OneStageMoves ==
    ASSUME NEW w \in Writers, NEW to, Stage(w)' = to,
           \A v \in Writers \ {w} : Stage(v)' = Stage(v)
    PROVE  OutStage' = [OutStage EXCEPT ![w] = to]
  BY DEF OutStage

LEMMA WriteRefines ==
    ASSUME IInv, NEW w \in Writers, Write(w) PROVE Out!Call(w)
  <1>1. Stage(w) = "idle" /\ Stage(w)' = "waiting"
    BY DEF Write, Goto, Stage, IInv, TypeOK
  <1>2. \A v \in Writers \ {w} : Stage(v)' = Stage(v)
    BY DEF Write, Goto, Stage, IInv, TypeOK, InFlight, semVars
  <1>3. OutStage' = [OutStage EXCEPT ![w] = "waiting"]
    BY <1>1, <1>2, OneStageMoves
  <1> QED BY <1>1, <1>3 DEF Out!Call, Out!Move, OutStage

LEMMA TakeEpRefines ==
    ASSUME IInv, NEW w \in Writers, TakeEp(w) PROVE OutStage' = OutStage
  <1>1. \A v \in Writers : Stage(v)' = Stage(v)
    <2> TAKE v \in Writers
    <2>1. CASE v = w
      BY <2>1 DEF TakeEp, Goto, Stage, IInv, TypeOK
    <2>2. CASE v # w
      <3>1. pc'[v] = pc[v]
        BY <2>2 DEF TakeEp, Goto, IInv, TypeOK
      <3> QED BY <3>1 DEF TakeEp, Stage, InFlight
    <2> QED BY <2>1, <2>2
  <1> QED BY <1>1 DEF OutStage

LEMMA BeginTransferRefines ==
    ASSUME IInv, NEW w \in Writers, BeginTransfer(w)
    PROVE  Out!Begin(w) \/ Out!Refuse(w)
  <1>1. /\ pc[w] = "start_write"
        /\ pc' = [pc EXCEPT ![w] = "take_tx"]
        /\ cdc_tx_busy_sem' = cdc_tx_busy_sem
    BY DEF BeginTransfer, Goto, semVars
  <1>2. \A v \in Writers \ {w} : ~Holds(v)
    BY <1>1 DEF IInv, WritersExclude, Holds
  <1>3. cdc_tx_busy_sem = 0 /\ \A p \in Ports : ~InFlight(p)
    <2>1. \A v \in Writers : pc[v] # "take_tx"
      BY <1>1, <1>2 DEF Holds
    <2> QED BY <2>1, InFlightType DEF IInv, BufferStable, TokenForWaiter, TypeOK
  <1>4. Stage(w) = "waiting" /\ Stage(w)' \in {"sending", "lost"}
    BY <1>1, <1>3 DEF Stage, IInv, TypeOK
  <1>5. \A v \in Writers \ {w} : Stage(v)' = Stage(v)
    BY <1>1, <1>2 DEF Stage, Holds, IInv, TypeOK, Locations
  <1>6. \A v \in Writers : Stage(v) \in {"idle", "waiting"}
    BY <1>2, <1>4, StageOfOutsiders DEF IInv
  <1>7. Out!ChannelFree
    BY <1>6 DEF Out!ChannelFree
  <1>8. OutStage' = [OutStage EXCEPT ![w] = Stage(w)']
    BY <1>5, OneStageMoves
  <1> QED BY <1>4, <1>7, <1>8 DEF Out!Begin, Out!Refuse, Out!Move, OutStage

LEMMA TakeTxRefines ==
    ASSUME IInv, NEW w \in Writers, TakeTx(w) PROVE OutStage' = OutStage
  <1>1. /\ pc[w] = "take_tx" /\ cdc_tx_busy_sem > 0
        /\ pc' = [pc EXCEPT ![w] = "release_ep"]
    BY DEF TakeTx, Goto
  <1>2. \A v \in Writers \ {w} : ~Holds(v)
    BY <1>1 DEF IInv, WritersExclude, Holds
  <1>3. Stage(w)' = Stage(w)
    BY <1>1 DEF Stage, IInv, TypeOK
  <1>4. \A v \in Writers \ {w} : Stage(v)' = Stage(v)
    BY <1>1, <1>2 DEF Stage, Holds, IInv, TypeOK, Locations
  <1> QED BY <1>3, <1>4 DEF OutStage

LEMMA ReleaseEpRefines ==
    ASSUME IInv, NEW w \in Writers, ReleaseEp(w) PROVE Out!Return(w)
  <1>1. pc[w] = "release_ep" /\ Stage(w) = "sent"
    BY DEF ReleaseEp, Stage
  <1>2. \A v \in Writers \ {w} : ~Holds(v)
    BY <1>1 DEF IInv, WritersExclude, Holds
  <1>3. Stage(w)' = "idle" /\ \A v \in Writers \ {w} : Stage(v)' = Stage(v)
    <2>1. CASE ep_write_queue = <<>>
      <3>1. pc' = [pc EXCEPT ![w] = "idle"]
        BY <2>1 DEF ReleaseEp
      <3> QED BY <1>2, <3>1 DEF Stage, Holds, IInv, TypeOK, Locations
    <2>2. CASE ep_write_queue # <<>>
      <3>0. Head(ep_write_queue) \in Writers
        BY <2>2, HeadTailProperties DEF IInv, TypeOK
      <3>h. PICK h \in Writers : h = Head(ep_write_queue)
        BY <3>0
      <3>1. h = ep_write_queue[1] /\ 1 \in 1..Len(ep_write_queue)
        BY <2>2, <3>h, LenProperties, EmptySeq DEF IInv, TypeOK
      <3>2. pc[h] = "wait_ep"
        BY <3>1 DEF IInv, QueueIsWaiters
      <3>3. pc' = [pc EXCEPT ![w] = "idle", ![h] = "start_write"]
        BY <2>2, <3>h DEF ReleaseEp
      <3>4. pc'[w] = "idle" /\ pc'[h] = "start_write"
        BY <1>1, <3>1, <3>2, <3>3 DEF IInv, TypeOK
      <3>5. \A v \in Writers \ {w, h} : pc'[v] = pc[v]
        BY <3>3 DEF IInv, TypeOK
      <3>6. Stage(h)' = Stage(h)
        BY <3>2, <3>4 DEF Stage
      <3>7. \A v \in Writers \ {w, h} : Stage(v)' = Stage(v)
        BY <1>2, <3>5 DEF Stage, Holds, IInv, TypeOK, Locations
      <3> QED BY <3>4, <3>6, <3>7 DEF Stage
    <2> QED BY <2>1, <2>2
  <1>4. OutStage' = [OutStage EXCEPT ![w] = "idle"]
    BY <1>3, OneStageMoves
  <1> QED BY <1>1, <1>4 DEF Out!Return, Out!Move, OutStage

LEMMA BulkInRefines ==
    ASSUME IInv, NEW p \in Ports, BulkIn(p)
    PROVE  OutStage' = OutStage \/ \E w \in Writers : Out!Deliver(w)
  <1>0. in_ep[p].writer \in Writers
    BY InFlightType DEF BulkIn, IInv
  <1>w. PICK w \in Writers : w = in_ep[p].writer
    BY <1>0
  <1>1. /\ InFlight(p) /\ in_ep[p] \in Transfers
        /\ pc[w] = "take_tx" /\ Port[w] = p
    BY <1>w, InFlightType DEF BulkIn, IInv, BufferStable
  <1>2. cdc_tx_busy_sem = 0 /\ pc' = pc
    BY <1>1 DEF BulkIn, IInv, TokenForWaiter, TypeOK
  <1>3. \A v \in Writers \ {w} : ~Holds(v)
    BY <1>1 DEF IInv, WritersExclude, Holds
  <1>4. Stage(w) = "sending"
    BY <1>1, <1>2 DEF Stage
  <1>5. \A v \in Writers \ {w} : Stage(v)' = Stage(v)
    BY <1>1, <1>2, <1>3 DEF Stage, Holds, IInv, TypeOK, Locations
  <1>6. CASE EndsFull(in_ep[p].len)
    <2>1. cdc_tx_busy_sem' = 0 /\ in_ep' = [in_ep EXCEPT ![p].len = 0]
      BY <1>2, <1>6 DEF BulkIn, NeedsZlp
    <2>2. in_ep'[p] # Nothing
      <3>1. in_ep'[p] = [in_ep[p] EXCEPT !.len = 0]
        BY <2>1 DEF IInv, TypeOK
      <3>2. in_ep'[p] \in Transfers
        BY <1>1, <3>1 DEF Transfers
      <3> QED BY <3>2, NothingIsNoTransfer
    <2>3. Stage(w)' = "sending"
      BY <1>1, <1>2, <2>1, <2>2 DEF Stage, InFlight
    <2> QED BY <1>4, <1>5, <2>3 DEF OutStage
  <1>7. CASE ~EndsFull(in_ep[p].len)
    <2>1. cdc_tx_busy_sem' = 1
      BY <1>2, <1>7 DEF BulkIn, NeedsZlp
    <2>2. Stage(w)' = "sent"
      BY <1>1, <1>2, <2>1 DEF Stage
    <2>3. OutStage' = [OutStage EXCEPT ![w] = "sent"]
      BY <1>1, <1>5, <2>2, OneStageMoves
    <2> QED BY <1>1, <1>4, <2>3 DEF Out!Deliver, Out!Move, OutStage
  <1> QED BY <1>6, <1>7

LEMMA BusResetRefines ==
    ASSUME IInv, BusReset
    PROVE  OutStage' = OutStage \/ \E w \in Writers : Out!Discard(w)
  <1>1. /\ pc' = pc /\ cdc_tx_busy_sem' = cdc_tx_busy_sem
        /\ \A p \in Ports : in_ep'[p] = Nothing
    BY DEF BusReset, semVars
  <1>2. CASE \E w \in Writers : Stage(w) = "sending"
    <2>1. PICK w \in Writers : Stage(w) = "sending"
      BY <1>2
    <2>2. pc[w] = "take_tx" /\ cdc_tx_busy_sem = 0
      BY <2>1 DEF Stage
    <2>3. \A v \in Writers \ {w} : ~Holds(v)
      BY <2>2 DEF IInv, WritersExclude, Holds
    <2>4. Stage(w)' = "lost"
      BY <1>1, <2>2, WriterAssumption DEF Stage, InFlight
    <2>5. \A v \in Writers \ {w} : Stage(v)' = Stage(v)
      BY <1>1, <2>3 DEF Stage, Holds, IInv, TypeOK, Locations
    <2>6. OutStage' = [OutStage EXCEPT ![w] = "lost"]
      BY <2>4, <2>5, OneStageMoves
    <2> QED BY <2>1, <2>6 DEF Out!Discard, Out!Move, OutStage
  <1>3. CASE \A w \in Writers : Stage(w) # "sending"
    <2>1. \A w \in Writers : Stage(w)' = Stage(w)
      BY <1>1, <1>3 DEF Stage, InFlight
    <2> QED BY <2>1 DEF OutStage
  <1> QED BY <1>2, <1>3

LEMMA RestRefines ==
    ASSUME \/ Configured
           \/ \E p \in Ports, on \in BOOLEAN : SetDtr(p, on)
           \/ UNCHANGED vars
    PROVE  OutStage' = OutStage
  BY DEF OutStage, Stage, InFlight, Configured, SetDtr, vars, semVars

LEMMA StepRefines == IInv /\ [Next]_vars => [Out!Next]_OutStage
  <1> SUFFICES ASSUME IInv, [Next]_vars PROVE [Out!Next]_OutStage
    OBVIOUS
  <1>1. ASSUME NEW w \in Writers, Write(w) \/ Running(w) PROVE [Out!Next]_OutStage
    BY <1>1, WriteRefines, TakeEpRefines, BeginTransferRefines, TakeTxRefines,
       ReleaseEpRefines DEF Running, Out!Next
  <1>2. ASSUME NEW p \in Ports, BulkIn(p) PROVE [Out!Next]_OutStage
    BY <1>2, BulkInRefines DEF Out!Next
  <1>3. ASSUME BusReset PROVE [Out!Next]_OutStage
    BY <1>3, BusResetRefines DEF Out!Next
  <1> QED BY <1>1, <1>2, <1>3, RestRefines DEF Next

\* The pair of semaphores, the two ports and the interrupt callbacks implement
\* one-message-at-a-time sending, with bus resets at any time.
THEOREM Refinement == Spec => ImplementsSerialOut
  <1>1. Init => Out!Init
    BY InitRefines
  <1>2. IInv /\ [Next]_vars => [Out!Next]_OutStage
    BY StepRefines
  <1> QED BY <1>1, <1>2, Invariance, PTL DEF Spec, ImplementsSerialOut, Out!Spec, OutStage
=============================================================================
