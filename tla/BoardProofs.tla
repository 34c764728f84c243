----------------------------- MODULE BoardProofs -----------------------------
(***************************************************************************)
(* What is proved of the components of MC_Board, each by itself.           *)
(***************************************************************************)
EXTENDS AuxUart, CanLogger, SdCard, Clock, Backlight, SpiDma, SequenceTheorems, TLAPS

-----------------------------------------------------------------------------
\* The uart.

SpeedInv == opens \in Nat /\ SpeedIsTheHosts

\* The close of cdc1_set_speed never takes the count of opens below zero.
LEMMA ClosedIsNat == opens \in Nat => Closed \in Nat
  BY DEF Closed

LEMMA SpeedInit == UartInit => SpeedInv
  BY DEF UartInit, SpeedInv, SpeedIsTheHosts

\* A cdc1_set_speed that comes to its end leaves the uart open, configured, and with
\* its callback, whatever aux_uart_init has done so far.
LEMMA SpeedStep == SpeedInv /\ [UartNext]_uartVars => SpeedInv'
  <1> SUFFICES ASSUME SpeedInv, [UartNext]_uartVars PROVE SpeedInv'
    OBVIOUS
  <1> USE DEF SpeedInv, SpeedIsTheHosts
  <1>1. CASE UartBoot
    BY <1>1 DEF UartBoot, FindUart, InitQueue, InitOpen, StartThread, codingVars
  <1>2. ASSUME NEW c \in Codings, SetLineCoding(c) PROVE SpeedInv'
    <2>1. coding' = c /\ Closed \in Nat
      BY <1>2, ClosedIsNat DEF SetLineCoding
    <2>2. SetSpeed(c.rate)
      BY <1>2 DEF SetLineCoding
    <2>3. opens' \in Nat
      BY <2>1, <2>2 DEF SetSpeed
    <2>4. ~set_failed' => /\ config' = [rate |-> c.rate, format |-> EightN1]
                          /\ opens' = Closed + 1 /\ indicates'
      BY <2>2 DEF SetSpeed
    <2> QED BY <2>1, <2>3, <2>4
  <1>3. CASE UartInput
    BY <1>3 DEF UartInput, codingVars
  <1>4. CASE UartThread
    BY <1>4 DEF UartThread, TakeMessage, ReadUart, WriteHost, codingVars
  <1>5. CASE UNCHANGED uartVars
    BY <1>5 DEF uartVars, codingVars
  <1> QED BY <1>1, <1>2, <1>3, <1>4, <1>5 DEF UartNext

\* The uart is open at the rate of the stored line coding, in 8N1 whatever its format,
\* unless the last cdc1_set_speed failed (usb_cdc.c:88-94, aux_uart.c:76-119).
THEOREM SpeedFollowsTheHost == UartSpec => []SpeedIsTheHosts
  <1>1. SpeedInv => SpeedIsTheHosts
    BY DEF SpeedInv
  <1> QED BY SpeedInit, SpeedStep, <1>1, PTL DEF UartSpec

LEMMA UartTypeInit == UartInit => UartTypeOK
  <1> SUFFICES ASSUME UartInit PROVE UartTypeOK
    OBVIOUS
  <1>1. /\ <<>> \in Seq(Nat) /\ <<>> \in Seq(0..FifoSize)
        /\ Len(<<>>) <= FifoSize /\ Len(<<>>) <= QueueSize
    BY UartSizesAssumption
  <1>2. /\ {coding, config} \subseteq Codings \cup {NoCoding}
        /\ {serial, indicates, set_failed, mq_ready, unannounced, uart_lost} \subseteq BOOLEAN
        /\ opens \in Nat
    BY DEF UartInit
  <1>3. /\ uart_at \in {"find", "mq", "open", "indicate", "recv", "read", "write", "off"}
        /\ {received, msg_size, rx_last, to_host} \subseteq Nat
    BY DEF UartInit
  <1> QED BY <1>1, <1>2, <1>3 DEF UartInit, UartTypeOK

\* What is left of the driver's bytes when some have been read.
LEMMA RestOfBytes ==
  ASSUME NEW s \in Seq(Nat), NEW n \in 0..Len(s)
  PROVE  SubSeq(s, n + 1, Len(s)) \in Seq(Nat) /\ Len(SubSeq(s, n + 1, Len(s))) <= Len(s)
  <1>1. Len(s) \in Nat /\ n + 1 \in Int /\ \A i \in n + 1..Len(s) : s[i] \in Nat
    OBVIOUS
  <1> QED BY <1>1, SubSeqProperties

LEMMA UartTypeStep == UartTypeOK /\ [UartNext]_uartVars => UartTypeOK'
  <1> SUFFICES ASSUME UartTypeOK, [UartNext]_uartVars PROVE UartTypeOK'
    OBVIOUS
  <1> USE DEF UartTypeOK
  <1>1. CASE UartBoot
    <2>1. UNCHANGED <<fifo, rx_mq, received, coding, config, msg_size, rx_last, to_host>>
      BY <1>1 DEF UartBoot, FindUart, InitQueue, InitOpen, StartThread, codingVars, rxVars
    <2>2. {serial', indicates', set_failed', mq_ready', unannounced', uart_lost'} \subseteq BOOLEAN
      BY <1>1 DEF UartBoot, FindUart, InitQueue, InitOpen, StartThread, codingVars, rxVars
    <2>3. opens' \in Nat
      BY <1>1 DEF UartBoot, FindUart, InitQueue, InitOpen, StartThread, codingVars
    <2>4. uart_at' \in {"mq", "open", "indicate", "recv", "off"}
      BY <1>1 DEF UartBoot, FindUart, InitQueue, InitOpen, StartThread, UartGoto
    <2> QED BY <2>1, <2>2, <2>3, <2>4
  <1>2. ASSUME NEW c \in Codings, SetLineCoding(c) PROVE UartTypeOK'
    <2>1. SetSpeed(c.rate) /\ coding' = c
          /\ UNCHANGED <<received, mq_ready, rx_mq, unannounced, threadVars>>
      BY <1>2 DEF SetLineCoding
    <2>2. opens' \in Nat
      BY <2>1, ClosedIsNat DEF SetSpeed
    <2>3. {coding', config'} \subseteq Codings \cup {NoCoding}
      <3>1. [rate |-> c.rate, format |-> EightN1] \in Codings
        BY <1>2, CodingAssumption DEF Codings
      <3> QED BY <2>1, <3>1 DEF SetSpeed
    <2>4. {serial', indicates', set_failed', uart_lost'} \subseteq BOOLEAN
      BY <2>1 DEF SetSpeed
    <2>5. fifo' \in Seq(Nat) /\ Len(fifo') <= FifoSize
      <3>1. fifo' = <<>> \/ fifo' = fifo
        BY <2>1 DEF SetSpeed
      <3>2. <<>> \in Seq(Nat) /\ Len(<<>>) <= FifoSize
        BY UartSizesAssumption
      <3> QED BY <3>1, <3>2
    <2> QED BY <2>1, <2>2, <2>3, <2>4, <2>5 DEF threadVars
  <1>3. CASE UartInput
    <2>1. received' \in Nat
      BY <1>3 DEF UartInput
    <2>2. fifo' \in Seq(Nat) /\ Len(fifo') \in 0..FifoSize
      <3>1. CASE Len(fifo) < FifoSize
        <4>1. fifo' = Append(fifo, received')
          BY <1>3, <3>1 DEF UartInput
        <4>2. fifo' \in Seq(Nat) /\ Len(fifo') = Len(fifo) + 1
          BY <4>1, <2>1
        <4> QED BY <4>2, <3>1, UartSizesAssumption
      <3>2. CASE ~(Len(fifo) < FifoSize)
        <4>1. fifo' = fifo
          BY <1>3, <3>2 DEF UartInput
        <4> QED BY <4>1, UartSizesAssumption
      <3> QED BY <3>1, <3>2
    <2>3. rx_mq' \in Seq(0..FifoSize) /\ Len(rx_mq') <= QueueSize
      <3>1. CASE indicates /\ mq_ready /\ Len(rx_mq) < QueueSize
        <4>1. rx_mq' = Append(rx_mq, Len(fifo'))
          BY <1>3, <3>1 DEF UartInput
        <4>2. rx_mq' \in Seq(0..FifoSize) /\ Len(rx_mq') = Len(rx_mq) + 1
          BY <4>1, <2>2
        <4> QED BY <4>2, <3>1, UartSizesAssumption
      <3>2. CASE ~(indicates /\ mq_ready /\ Len(rx_mq) < QueueSize)
        BY <1>3, <3>2 DEF UartInput
      <3> QED BY <3>1, <3>2
    <2>4. {unannounced', uart_lost'} \subseteq BOOLEAN
      BY <1>3 DEF UartInput
    <2> QED BY <1>3, <2>1, <2>2, <2>3, <2>4 DEF UartInput, codingVars, threadVars
  <1>4. CASE TakeMessage
    <2>1. Head(rx_mq) \in 0..FifoSize /\ Tail(rx_mq) \in Seq(0..FifoSize)
          /\ Len(Tail(rx_mq)) = Len(rx_mq) - 1 /\ Len(rx_mq) \in Nat
      <3>1. rx_mq # <<>> /\ rx_mq \in Seq(0..FifoSize)
        BY <1>4 DEF TakeMessage
      <3>2. /\ Head(rx_mq) \in 0..FifoSize /\ Tail(rx_mq) \in Seq(0..FifoSize)
            /\ Len(Tail(rx_mq)) = Len(rx_mq) - 1
        <4> HIDE DEF UartTypeOK
        <4> QED BY ONLY <3>1, HeadTailProperties, Zenon
      <3> QED BY <3>1, <3>2, LenProperties
    <2>2. rx_mq' \in Seq(0..FifoSize) /\ Len(rx_mq') <= QueueSize /\ msg_size' \in Nat
      BY <1>4, <2>1, UartSizesAssumption DEF TakeMessage
    <2> QED BY <1>4, <2>2 DEF TakeMessage, UartGoto, codingVars
  <1>5. CASE ReadUart
    <2> DEFINE n == IF msg_size < Len(fifo) THEN msg_size ELSE Len(fifo)
    <2>1. n \in 0..Len(fifo)
      OBVIOUS
    <2>2. rx_last' = (IF n = 0 THEN 0 ELSE fifo[n]) /\ fifo' = SubSeq(fifo, n + 1, Len(fifo))
      BY <1>5 DEF ReadUart
    <2>3. rx_last' \in Nat
      <3>1. CASE n = 0
        BY <2>2, <3>1
      <3>2. CASE n # 0
        <4>1. n \in 1..Len(fifo) /\ fifo \in Seq(Nat)
          BY <2>1, <3>2
        <4>2. fifo[n] \in Nat
          BY ONLY <4>1
        <4> QED BY <2>2, <3>2, <4>2
      <3> QED BY <3>1, <3>2
    <2>4. fifo' \in Seq(Nat) /\ Len(fifo') <= Len(fifo)
      <3>1. fifo \in Seq(Nat) /\ fifo' = SubSeq(fifo, n + 1, Len(fifo))
        BY <2>2
      <3> HIDE DEF n
      <3> QED BY ONLY <2>1, <3>1, RestOfBytes
    <2>5. Len(fifo') <= FifoSize
      BY <2>4, UartSizesAssumption
    <2>6. uart_at' = "write"
          /\ UNCHANGED <<codingVars, received, mq_ready, rx_mq, unannounced, uart_lost,
                         msg_size, to_host>>
      BY <1>5 DEF ReadUart, UartGoto
    <2> QED BY <2>3, <2>4, <2>5, <2>6 DEF codingVars
  <1>6. CASE WriteHost
    BY <1>6 DEF WriteHost, UartGoto, codingVars, rxVars
  <1>7. CASE UNCHANGED uartVars
    BY <1>7 DEF uartVars, codingVars, rxVars, threadVars
  <1> QED BY <1>1, <1>2, <1>3, <1>4, <1>5, <1>6, <1>7 DEF UartNext, UartThread

\* The driver and the message queue keep within their sizes, whatever the target sends
\* (aux_uart.c:29-43).
THEOREM UartTypeCorrect == UartSpec => []UartTypeOK
  BY UartTypeInit, UartTypeStep, PTL DEF UartSpec
-----------------------------------------------------------------------------
\* The SD card.

\* A thread that unmounts is the only one at work.
NoClash == \A m, n \in Mounters :
               job[m] \in Unmounting /\ job[n] \in Unmounting \cup Mounting => m = n

\* What a thread finds at each of its places if there is no clash.
Found(m) ==
    /\ job[m] \in {"init", "mount", "set"} => sd_on
    /\ job[m] = "set" => sd_fs /\ ~unmount_failed
    /\ job[m] = "unmount" => sdcard_mounted /\ sd_fs /\ sd_on /\ ~unmount_failed
    /\ job[m] = "power_off" => sdcard_mounted /\ sd_on /\ (sd_fs <=> unmount_failed)

SomeoneCutsPower == \E m \in Mounters : job[m] = "power_off"

\* What MountedHasPower says of a state without a clash.
Left == /\ sdcard_mounted => sd_on /\ (sd_fs \/ SomeoneCutsPower)
        /\ sd_fs => sd_on \/ unmount_failed
        /\ unmount_failed => sd_fs /\ (sdcard_mounted => SomeoneCutsPower)

Unclashed == NoClash /\ (\A m \in Mounters : Found(m)) /\ Left

SdInv == SdTypeOK /\ (~clashed => Unclashed)

LEMMA SdBegins == SdInit => SdInv
  <1> SUFFICES ASSUME SdInit PROVE SdInv
    OBVIOUS
  <1>1. SdTypeOK
    <2>1. edges \in 0..MaxEdges
      BY EdgesAssumption DEF SdInit
    <2>2. /\ job \in [Mounters -> {"none", "detect"} \cup Mounting \cup Unmounting]
          /\ {card, sdcard_change_tim, in_timer, sdcard_mounted, sd_on, sd_fs,
              sd_failed, unmount_failed, overlapped, clashed} \subseteq BOOLEAN
      BY DEF SdInit
    <2> QED BY <2>1, <2>2 DEF SdTypeOK
  <1>2. Unclashed
    BY DEF SdInit, Unclashed, NoClash, Found, Left, Mounting, Unmounting
  <1> QED BY <1>1, <1>2 DEF SdInv

LEMMA SdTypeStep == SdTypeOK /\ [SdNext]_sdVars => SdTypeOK'
  <1> SUFFICES ASSUME SdTypeOK, [SdNext]_sdVars PROVE SdTypeOK'
    OBVIOUS
  <1> USE DEF SdTypeOK, histVars
  <1>1. CASE Edge
    BY <1>1, EdgesAssumption DEF Edge, mountVars
  <1>2. CASE TimerExpires
    BY <1>2 DEF TimerExpires, pinVars, mountVars
  <1>3. CASE TimerStop
    BY <1>3 DEF TimerStop, pinVars, mountVars
  <1>4. ASSUME NEW m \in Mounters, Mounter(m) PROVE SdTypeOK'
    <2> USE DEF SdGoto, pinVars, timerVars, mountVars, Mounting, Unmounting
    <2>1. CASE Detect(m)
      <3>1. job' \in [Mounters -> {"none", "detect"} \cup Mounting \cup Unmounting]
        BY <2>1 DEF Detect
      <3>2. clashed' \in BOOLEAN
        BY <2>1 DEF Detect
      <3> QED BY <2>1, <3>1, <3>2 DEF Detect
    <2>2. CASE Mount(m)
      BY <2>2 DEF Mount, PowerOn, MountFails, InitCard, DfsMount, SetMounted
    <2>3. CASE Unmount(m)
      BY <2>3 DEF Unmount, DfsUnmount
    <2> QED BY <1>4, <2>1, <2>2, <2>3 DEF Mounter
  <1>5. CASE UNCHANGED sdVars
    BY <1>5 DEF sdVars, pinVars, timerVars, mountVars
  <1> QED BY <1>1, <1>2, <1>3, <1>4, <1>5 DEF SdNext

\* A thread that looks at the pin and begins to unmount is alone, or the clash is noted.
LEMMA DetectKeepsUnclashed ==
  ASSUME SdTypeOK, Unclashed, NEW m \in Mounters, Detect(m), ~clashed'
  PROVE  Unclashed'
  <1>1. job[m] = "detect" /\ UNCHANGED <<sdcard_mounted, sd_on, sd_fs, unmount_failed>>
    BY DEF Detect, SdGoto, mountVars
  <1>2. /\ job'[m] \in {"none", "power_on", "unmount"}
        /\ job'[m] = "unmount" => sdcard_mounted
        /\ \A n \in Mounters : n # m => job'[n] = job[n]
    BY DEF Detect, SdGoto, SdTypeOK
  <1>3. NoClash'
    BY DEF Detect, NoClash
  <1>4. SomeoneCutsPower' <=> SomeoneCutsPower
    BY <1>1, <1>2 DEF SomeoneCutsPower
  <1>5. Left'
    BY <1>1, <1>4 DEF Unclashed, Left
  <1>6. ASSUME NEW n \in Mounters PROVE Found(n)'
    <2>1. CASE n # m
      BY <1>1, <1>2, <2>1 DEF Unclashed, Found
    <2>2. CASE n = m /\ job'[m] = "unmount"
      <3>1. ~SomeoneCutsPower'
        BY <1>3, <2>2 DEF NoClash, SomeoneCutsPower, Unmounting
      <3>2. Left /\ sdcard_mounted
        BY <1>2, <2>2 DEF Unclashed
      <3> QED BY <1>1, <1>4, <2>2, <3>1, <3>2 DEF Left, Found
    <2>3. CASE n = m /\ job'[m] # "unmount"
      BY <1>2, <2>3 DEF Found
    <2> QED BY <2>1, <2>2, <2>3
  <1> QED BY <1>3, <1>5, <1>6 DEF Unclashed

\* A thread that mounts takes nothing from the others that mount, and no thread unmounts.
LEMMA MountKeepsUnclashed ==
  ASSUME SdTypeOK, Unclashed, NEW m \in Mounters, Mount(m)
  PROVE  Unclashed'
  <1> DEFINE Others == \A n \in Mounters : n # m => job'[n] = job[n]
  <1>1. job[m] \in Mounting /\ job'[m] \notin Unmounting /\ Others
    BY DEF Mount, PowerOn, MountFails, InitCard, DfsMount, SetMounted, SdGoto, SdTypeOK,
           Mounting, Unmounting
  <1>2. \A n \in Mounters : job[n] \notin Unmounting
    BY <1>1 DEF Unclashed, NoClash, Mounting, Unmounting
  <1>3. \A n \in Mounters : job'[n] \notin Unmounting
    BY <1>1, <1>2
  <1>4. NoClash' /\ ~SomeoneCutsPower /\ ~SomeoneCutsPower'
    BY <1>2, <1>3 DEF NoClash, SomeoneCutsPower, Unmounting
  <1>5. Left' /\ Found(m)' /\ (\A n \in Mounters : n # m => Found(n)')
    <2>1. Found(m) /\ Left /\ (\A n \in Mounters : Found(n))
      BY DEF Unclashed
    <2> USE <1>1, <1>4, <2>1 DEF Left, Found, SdGoto, SdTypeOK
    <2>2. CASE PowerOn(m)
      BY <2>2 DEF PowerOn, histVars
    <2>3. CASE InitCard(m)
      BY <2>3 DEF InitCard, histVars, mountVars
    <2>4. CASE DfsMount(m)
      BY <2>4 DEF DfsMount, histVars
    <2>5. CASE SetMounted(m)
      BY <2>5 DEF SetMounted, histVars
    <2>6. CASE MountFails(m)
      BY <2>6 DEF MountFails, mountVars
    <2> QED BY <2>2, <2>3, <2>4, <2>5, <2>6 DEF Mount
  <1> QED BY <1>4, <1>5 DEF Unclashed

\* A thread that unmounts is alone at work, and cuts the power of a file system only if
\* dfs_unmount has failed.
LEMMA UnmountKeepsUnclashed ==
  ASSUME SdTypeOK, Unclashed, NEW m \in Mounters, Unmount(m)
  PROVE  Unclashed'
  <1>1. /\ job[m] \in Unmounting
        /\ job'[m] \in {"power_off", "none"}
        /\ \A n \in Mounters : n # m => job'[n] = job[n]
    BY DEF Unmount, SdGoto, SdTypeOK, Unmounting
  <1>2. \A n \in Mounters : n # m => job'[n] \notin Unmounting \cup Mounting
    BY <1>1 DEF Unclashed, NoClash
  <1>3. NoClash'
    BY <1>2 DEF NoClash
  <1>4. \A n \in Mounters : n # m => Found(n)'
    BY <1>2 DEF Found, Mounting, Unmounting
  <1>5. SomeoneCutsPower' <=> job'[m] = "power_off"
    BY <1>2 DEF SomeoneCutsPower, Unmounting
  <1>6. Found(m)' /\ Left'
    <2>1. Found(m) /\ Left
      BY DEF Unclashed
    <2>2. CASE job[m] = "unmount"
      <3>1. job'[m] = "power_off" /\ DfsUnmount /\ UNCHANGED <<sdcard_mounted, sd_on>>
        BY <2>2 DEF Unmount, SdGoto, SdTypeOK
      <3>2. sd_fs /\ sd_on /\ sdcard_mounted /\ ~unmount_failed
        BY <2>1, <2>2 DEF Found
      <3>3. (sd_fs' = FALSE /\ ~unmount_failed') \/ (sd_fs' /\ unmount_failed')
        BY <3>1, <3>2 DEF DfsUnmount
      <3>4. job'[m] = "power_off" /\ sdcard_mounted' /\ sd_on' /\ SomeoneCutsPower'
        BY <1>5, <3>1, <3>2
      <3> QED BY <3>3, <3>4 DEF Found, Left
    <2>3. CASE job[m] = "power_off"
      <3>1. /\ job'[m] = "none" /\ ~sdcard_mounted'
            /\ UNCHANGED <<sd_fs, unmount_failed>>
        BY <2>3 DEF Unmount, SdGoto, SdTypeOK, histVars
      <3> QED BY <1>5, <2>1, <2>3, <3>1 DEF Found, Left
    <2> QED BY <1>1, <2>2, <2>3 DEF Unmounting
  <1> QED BY <1>3, <1>4, <1>6 DEF Unclashed

LEMMA SdStep == SdInv /\ [SdNext]_sdVars => SdInv'
  <1> SUFFICES ASSUME SdInv, [SdNext]_sdVars, ~clashed' PROVE Unclashed'
    BY SdTypeStep DEF SdInv
  <1>1. ASSUME ~clashed PROVE SdTypeOK /\ Unclashed
    BY <1>1 DEF SdInv
  <1>2. CASE TimerExpires
    <2>1. ~clashed /\ UNCHANGED <<sdcard_mounted, sd_on, sd_fs, unmount_failed>>
      BY <1>2 DEF TimerExpires, mountVars
    <2>2. \A n \in Mounters : job'[n] = job[n] \/ (job[n] = "none" /\ job'[n] = "detect")
      <3>1. CASE UNCHANGED job
        BY <3>1
      <3>2. ASSUME NEW k \in Mounters, job[k] = "none", job' = [job EXCEPT ![k] = "detect"]
            PROVE  \A n \in Mounters : job'[n] = job[n] \/ (job[n] = "none" /\ job'[n] = "detect")
        BY <1>1, <2>1, <3>2 DEF SdTypeOK
      <3> QED BY <1>2, <3>1, <3>2 DEF TimerExpires
    <2>3. NoClash'
      BY <1>1, <2>1, <2>2 DEF Unclashed, NoClash, Mounting, Unmounting
    <2>4. ASSUME NEW n \in Mounters PROVE Found(n)'
      BY <1>1, <2>1, <2>2 DEF Unclashed, Found
    <2>5. SomeoneCutsPower' <=> SomeoneCutsPower
      BY <2>2 DEF SomeoneCutsPower
    <2>6. Left'
      BY <1>1, <2>1, <2>5 DEF Unclashed, Left
    <2> QED BY <2>3, <2>4, <2>6 DEF Unclashed
  <1>3. CASE Edge \/ TimerStop \/ UNCHANGED sdVars
    BY <1>1, <1>3 DEF Unclashed, NoClash, Found, Left, SomeoneCutsPower, Edge, TimerStop,
                      sdVars, mountVars, histVars
  <1>4. ASSUME NEW m \in Mounters, Mounter(m) PROVE Unclashed'
    <2>1. ~clashed
      BY <1>4 DEF Mounter, Mount, Detect, PowerOn, MountFails, InitCard, DfsMount,
                  SetMounted, Unmount, histVars
    <2> QED BY <1>1, <1>4, <2>1, DetectKeepsUnclashed, MountKeepsUnclashed,
               UnmountKeepsUnclashed DEF Mounter
  <1> QED BY <1>2, <1>3, <1>4 DEF SdNext

\* As long as no other thread is at work during an unmount: the user interface is told of
\* a card only while the slot has power, and the file system has power until a dfs_unmount
\* fails; from then on it stays mounted, and no card is told of again (sdcard.c:25-85).
\* Any number of threads may be mounting at the same time.
THEOREM MountedCardHasPower == SdSpec => []MountedHasPower
  <1>1. SdInv => MountedHasPower
    BY DEF SdInv, Unclashed, Left, SomeoneCutsPower, MountedHasPower
  <1> QED BY SdBegins, SdStep, <1>1, PTL DEF SdSpec

\* The variables of the card reader keep their types, with any number of mounters
\* (sdcard.c:28-107).
THEOREM SdTypeCorrect == SdSpec => []SdTypeOK
  <1>1. SdInv => SdTypeOK
    BY DEF SdInv
  <1> QED BY SdBegins, SdStep, <1>1, PTL DEF SdSpec
-----------------------------------------------------------------------------
\* The CAN logger.

Lines == {Ascii(m) : m \in Frames \cup {Zeros}}

CanTypeOK == /\ bus \in Seq(Frames) /\ box \in Seq(Frames) /\ Len(box) <= BoxSize
             /\ can_rx_sem \in Nat /\ early \in Nat
             /\ overrun \in BOOLEAN /\ rx_indicate \in BOOLEAN
             /\ boot \in {"open", "thread", "indicate", "done", "failed"}
             /\ can_at \in {"none", "take", "read", "write"}
             /\ boot \in {"open", "thread"} => can_at = "none"
             /\ rx_msg \in Frames \cup {Zeros}
             /\ log \in Seq(Lines)

\* How many messages the thread has taken out of the driver.
Taken == IF can_at = "write" THEN Len(log) + 1 ELSE Len(log)

\* The messages are in the log, with the thread, and in the driver, in this order.
Conserved == /\ Len(bus) = Taken + Len(box)
             /\ \A i \in 1..Len(box) : box[i] = bus[Taken + i]
             /\ can_at = "write" => rx_msg = bus[Taken]
             /\ \A i \in 1..Len(log) : log[i] = Ascii(bus[i])

\* The driver holds a message for each count of the semaphore and the one a thread has
\* taken, and the early ones beside.
Counts == IF can_at = "read" THEN Len(box) = can_rx_sem + early + 1
                             ELSE Len(box) = can_rx_sem + early

CanInv == CanTypeOK /\ (~overrun => Conserved /\ Counts)

LEMMA CanBegins == CanInit => CanInv
  <1> SUFFICES ASSUME CanInit PROVE CanInv
    OBVIOUS
  <1>1. CanTypeOK
    <2>1. /\ <<>> \in Seq(Frames) /\ <<>> \in Seq(Lines)
          /\ Len(<<>>) <= BoxSize
      BY CanAssumption
    <2> QED BY <2>1 DEF CanInit, CanTypeOK
  <1>2. Conserved /\ Counts
    BY DEF CanInit, Conserved, Counts, Taken
  <1> QED BY <1>1, <1>2 DEF CanInv

LEMMA CanTypeStep == CanTypeOK /\ [CanNext]_canVars => CanTypeOK'
  <1> SUFFICES ASSUME CanTypeOK, [CanNext]_canVars PROVE CanTypeOK'
    OBVIOUS
  <1> USE CanAssumption DEF CanTypeOK
  <1>1. CASE CanBoot
    BY <1>1 DEF CanBoot, OpenCan, StartCanThread, RegisterHandler, Boot, driverVars
  <1>2. ASSUME NEW m \in Frames, CanReceive(m) PROVE CanTypeOK'
    <2>1. bus' \in Seq(Frames)
      BY <1>2 DEF CanReceive
    <2>2. box' \in Seq(Frames) /\ Len(box') <= BoxSize
      <3>1. CASE Len(box) < BoxSize
        BY <1>2, <3>1 DEF CanReceive
      <3>2. CASE ~(Len(box) < BoxSize)
        <4>1. Tail(box) \in Seq(Frames) /\ Len(Tail(box)) = Len(box) - 1
          BY <3>2
        <4>2. box' = Append(Tail(box), m)
          BY <1>2, <3>2 DEF CanReceive
        <4>3. box' \in Seq(Frames) /\ Len(box') = Len(Tail(box)) + 1
          BY <4>1, <4>2
        <4> QED BY <4>1, <4>3
      <3> QED BY <3>1, <3>2
    <2>3. early' \in Nat /\ can_rx_sem' \in Nat
      BY <1>2 DEF CanReceive
    <2>4. overrun' \in BOOLEAN
      BY <1>2 DEF CanReceive
    <2> QED BY <1>2, <2>1, <2>2, <2>3, <2>4 DEF CanReceive, initVars
  <1>3. CASE TakeSem
    BY <1>3 DEF TakeSem, CanGoto, initVars, driverVars
  <1>4. CASE ReadCan
    <2>1. CASE box = <<>>
      BY <1>4, <2>1 DEF ReadCan, CanGoto, initVars
    <2>2. CASE box # <<>>
      <3>1. /\ Head(box) \in Frames /\ Tail(box) \in Seq(Frames)
            /\ Len(Tail(box)) = Len(box) - 1
        BY <2>2
      <3> QED BY <1>4, <2>2, <3>1 DEF ReadCan, CanGoto, initVars
    <2> QED BY <2>1, <2>2
  <1>5. CASE WriteCan
    <2>1. Ascii(rx_msg) \in Lines
      BY DEF Lines
    <2> QED BY <1>5, <2>1 DEF WriteCan, CanGoto, initVars, driverVars
  <1>6. CASE UNCHANGED canVars
    BY <1>6 DEF canVars, initVars, driverVars
  <1> QED BY <1>1, <1>2, <1>3, <1>4, <1>5, <1>6 DEF CanNext, CanThread

LEMMA CanStep == CanInv /\ [CanNext]_canVars => CanInv'
  <1> SUFFICES ASSUME CanInv, [CanNext]_canVars, ~overrun' PROVE Conserved' /\ Counts'
    BY CanTypeStep DEF CanInv
  <1>0. CanTypeOK /\ Len(bus) \in Nat /\ Len(box) \in Nat /\ Len(log) \in Nat
    BY DEF CanInv, CanTypeOK
  <1>1. CASE CanBoot
    <2>1. /\ UNCHANGED <<driverVars, can_rx_sem, rx_msg, log>>
          /\ can_at' = can_at \/ can_at' \in {"none", "take"}
      BY <1>1 DEF CanBoot, OpenCan, StartCanThread, RegisterHandler
    <2>2. Conserved /\ Counts
      BY <2>1 DEF CanInv, driverVars
    <2>3. can_at' = can_at \/ can_at \notin {"read", "write"}
      BY <1>1, <1>0 DEF CanBoot, OpenCan, StartCanThread, RegisterHandler, Boot, CanTypeOK
    <2> QED BY <2>1, <2>2, <2>3 DEF Conserved, Counts, Taken, driverVars
  <1>2. ASSUME NEW m \in Frames, CanReceive(m) PROVE Conserved' /\ Counts'
    <2>1. /\ Len(box) < BoxSize /\ ~overrun
          /\ bus' = Append(bus, m) /\ box' = Append(box, m)
          /\ UNCHANGED <<can_at, rx_msg, log>>
      <3>1. ~overrun /\ Len(box) # BoxSize
        BY <1>2 DEF CanReceive
      <3>2. Len(box) < BoxSize
        BY <3>1, <1>0, CanAssumption DEF CanTypeOK
      <3> QED BY <1>2, <3>1, <3>2 DEF CanReceive
    <2>2. Conserved /\ Counts
      BY <2>1 DEF CanInv
    <2>3. Taken' = Taken /\ Taken \in Nat
      BY <2>1, <1>0 DEF Taken
    <2>4. Len(bus') = Len(bus) + 1 /\ Len(box') = Len(box) + 1
      BY <2>1, <1>0 DEF CanTypeOK
    <2>5. /\ \A i \in 1..Len(bus) : bus'[i] = bus[i]
          /\ bus'[Len(bus) + 1] = m
          /\ \A i \in 1..Len(box) : box'[i] = box[i]
          /\ box'[Len(box) + 1] = m
      BY <2>1, <1>0 DEF CanTypeOK
    <2>6. \A i \in 1..Len(box') : box'[i] = bus'[Taken + i]
      <3> SUFFICES ASSUME NEW i \in 1..Len(box') PROVE box'[i] = bus'[Taken + i]
        OBVIOUS
      <3>1. CASE i <= Len(box)
        BY <3>1, <2>2, <2>3, <2>4, <2>5, <1>0 DEF Conserved
      <3>2. CASE i = Len(box) + 1
        BY <3>2, <2>2, <2>3, <2>4, <2>5, <1>0 DEF Conserved
      <3> QED BY <3>1, <3>2, <2>4, <1>0
    <2>7. Conserved'
      <3>1. Len(bus') = Taken' + Len(box')
        BY <2>2, <2>3, <2>4, <1>0 DEF Conserved
      <3>2. can_at' = "write" => rx_msg' = bus'[Taken']
        BY <2>1, <2>2, <2>3, <2>5, <1>0 DEF Conserved, Taken
      <3>3. \A i \in 1..Len(log') : log'[i] = Ascii(bus'[i])
        <4>1. Len(log) <= Len(bus)
          BY <2>2, <1>0 DEF Conserved, Taken
        <4> QED BY <4>1, <2>1, <2>2, <2>5, <1>0 DEF Conserved
      <3> QED BY <3>1, <3>2, <3>3, <2>3, <2>6 DEF Conserved
    <2>8. Counts'
      <3>1. \/ early' = early + 1 /\ can_rx_sem' = can_rx_sem
            \/ early' = early /\ can_rx_sem' = can_rx_sem + 1
        BY <1>2 DEF CanReceive
      <3> QED BY <3>1, <2>1, <2>2, <2>4, <1>0 DEF Counts, CanTypeOK
    <2> QED BY <2>7, <2>8
  <1>3. CASE TakeSem
    <2>1. /\ can_at = "take" /\ can_at' = "read" /\ can_rx_sem' = can_rx_sem - 1
          /\ UNCHANGED <<bus, box, early, overrun, rx_msg, log>>
      BY <1>3 DEF TakeSem, CanGoto, driverVars
    <2> QED BY <2>1, <1>0 DEF CanInv, Conserved, Counts, Taken, CanTypeOK
  <1>4. CASE ReadCan
    <2>1. /\ can_at = "read" /\ can_at' = "write"
          /\ UNCHANGED <<bus, early, overrun, can_rx_sem, log>>
      BY <1>4 DEF ReadCan, CanGoto
    <2>2. Conserved /\ Counts
      BY <2>1 DEF CanInv
    <2>3. box # <<>> /\ Len(box) >= 1
      BY <2>1, <2>2, <1>0 DEF Counts, CanTypeOK
    <2>4. rx_msg' = box[1] /\ box' = Tail(box)
      BY <1>4, <2>3, <1>0 DEF ReadCan, CanTypeOK
    <2>5. Len(box') = Len(box) - 1 /\ \A i \in 1..Len(box') : box'[i] = box[i + 1]
      BY <2>3, <2>4, <1>0 DEF CanTypeOK
    <2>6. Taken = Len(log) /\ Taken' = Len(log) + 1
      BY <2>1 DEF Taken
    <2>7. Len(bus') = Taken' + Len(box')
      BY <2>1, <2>2, <2>5, <2>6, <1>0 DEF Conserved
    <2>8. \A i \in 1..Len(box') : box'[i] = bus'[Taken' + i]
      <3> SUFFICES ASSUME NEW i \in 1..Len(box') PROVE box'[i] = bus'[Taken' + i]
        OBVIOUS
      <3>1. i + 1 \in 1..Len(box) /\ box'[i] = box[i + 1]
        BY <2>3, <2>5, <1>0
      <3>2. box[i + 1] = bus[Taken + (i + 1)]
        BY <3>1, <2>2 DEF Conserved
      <3>3. Taken + (i + 1) = Taken' + i
        BY <2>6, <1>0
      <3> QED BY <3>1, <3>2, <3>3, <2>1
    <2>9. rx_msg' = bus'[Taken']
      BY <2>1, <2>2, <2>3, <2>4, <2>6, <1>0 DEF Conserved
    <2>10. Counts'
      BY <2>1, <2>2, <2>5, <1>0 DEF Counts, CanTypeOK
    <2> QED BY <2>1, <2>2, <2>7, <2>8, <2>9, <2>10 DEF Conserved
  <1>5. CASE WriteCan
    <2>1. /\ can_at = "write" /\ can_at' = "take" /\ log' = Append(log, Ascii(rx_msg))
          /\ UNCHANGED <<bus, box, early, overrun, can_rx_sem, rx_msg>>
      BY <1>5 DEF WriteCan, CanGoto, driverVars
    <2>2. Conserved /\ Counts
      BY <2>1 DEF CanInv
    <2>3. Taken = Len(log) + 1 /\ Taken' = Len(log')
      BY <2>1 DEF Taken
    <2>4. Len(log') = Len(log) + 1
      BY <2>1, <1>0 DEF CanTypeOK
    <2>5. /\ \A i \in 1..Len(log) : log'[i] = log[i]
          /\ log'[Len(log) + 1] = Ascii(rx_msg)
      BY <2>1, <1>0 DEF CanTypeOK
    <2>6. rx_msg = bus[Len(log) + 1]
      BY <2>1, <2>2, <2>3 DEF Conserved
    <2>7. \A i \in 1..Len(log') : log'[i] = Ascii(bus'[i])
      BY <2>1, <2>2, <2>4, <2>5, <2>6, <1>0 DEF Conserved
    <2> QED BY <2>1, <2>2, <2>3, <2>4, <2>7, <1>0 DEF Conserved, Counts
  <1>6. CASE UNCHANGED canVars
    BY <1>6 DEF canVars, driverVars, initVars, CanInv, Conserved, Counts, Taken
  <1> QED BY <1>1, <1>2, <1>3, <1>4, <1>5, <1>6 DEF CanNext, CanThread

\* If the lines of can2ascii can be read back (canbus.c:38-105), the log is what was on
\* the bus, in order, each message once, and lags by the early messages alone
\* (canbus.c:107-127, canbus.c:216), for any size of the driver's box.
THEOREM LogInOrder == (\A m \in Frames : Parsed(Ascii(m)) = OnTheBus(m))
                          => (CanSpec => []LogIsTheBus)
  <1> SUFFICES ASSUME \A m \in Frames : Parsed(Ascii(m)) = OnTheBus(m)
               PROVE  CanSpec => []LogIsTheBus
    OBVIOUS
  <1>1. CanInv => LogIsTheBus
    <2> SUFFICES ASSUME CanInv, ~overrun
                 PROVE  /\ Len(log) <= Len(bus)
                        /\ \A i \in 1..Len(log) : Parsed(log[i]) = OnTheBus(bus[i])
                        /\ can_at = "take" /\ can_rx_sem = 0 => Len(log) = Len(bus) - early
      BY DEF LogIsTheBus
    <2>1. Conserved /\ Counts /\ CanTypeOK
      BY DEF CanInv
    <2>2. Len(log) <= Len(bus)
      BY <2>1 DEF Conserved, Taken, CanTypeOK
    <2>3. \A i \in 1..Len(log) : bus[i] \in Frames /\ log[i] = Ascii(bus[i])
      BY <2>1, <2>2 DEF Conserved, CanTypeOK
    <2>4. can_at = "take" /\ can_rx_sem = 0 => Len(log) = Len(bus) - early
      <3> SUFFICES ASSUME can_at = "take", can_rx_sem = 0 PROVE Len(log) = Len(bus) - early
        OBVIOUS
      <3>1. Len(bus) = Len(log) + Len(box)
        BY <2>1 DEF Conserved, Taken
      <3>2. Len(box) = early
        BY <2>1 DEF Counts, CanTypeOK
      <3>3. Len(log) \in Nat /\ early \in Nat
        BY <2>1 DEF CanTypeOK
      <3> QED BY <3>1, <3>2, <3>3
    <2> QED BY <2>2, <2>3, <2>4
  <1> QED BY CanBegins, CanStep, <1>1, PTL DEF CanSpec
-----------------------------------------------------------------------------
\* The backlight.

LEMMA ModSmall == ASSUME NEW w \in Nat \ {0}, NEW a \in Nat, a < w PROVE a % w = a
  OBVIOUS

LEMMA Monotone == ASSUME NEW p \in Nat, NEW a \in Nat, NEW b \in Nat, a <= b
                  PROVE  p * a \in Nat /\ p * b \in Nat /\ p * a <= p * b
  OBVIOUS

LEMMA DivIsNat == ASSUME NEW d \in Nat \ {0}, NEW a \in Nat PROVE a \div d \in Nat
  OBVIOUS

LEMMA DivBelow == ASSUME NEW d \in Nat \ {0}, NEW a \in Nat, NEW p \in Nat, a <= p * d
                  PROVE  a \div d <= p
  OBVIOUS

LEMMA LightConstants == /\ AdcRange \in Nat \ {0} /\ Period \in Nat /\ Wrap \in Nat \ {0}
                        /\ 8 * AdcRange <= Wrap /\ Period * AdcRange <= Wrap
  BY AdcAssumption, PeriodAssumption, WidthAssumption

\* No step of the filter leaves 32 bits (backlight.c:102-105).
LEMMA FilterInRange ==
  ASSUME NEW b \in Light, NEW s \in Light
  PROVE  Filtered(b, s) = (7 * b + s) \div 8
  <1>1. /\ b \in Nat /\ s \in Nat /\ b <= AdcRange - 1 /\ s <= AdcRange - 1
        /\ AdcRange \in Nat \ {0} /\ Wrap \in Nat \ {0} /\ 8 * AdcRange <= Wrap
    BY LightConstants DEF Light
  <1>2. 8 * b \in Nat /\ 8 * b < Wrap
    BY <1>1
  <1>3. (8 * b) % Wrap = 8 * b
    BY <1>1, <1>2, ModSmall
  <1>4. (8 * b) - b + s = 7 * b + s /\ 7 * b + s \in Nat /\ 7 * b + s < Wrap
    BY <1>1
  <1>5. (7 * b + s) % Wrap = 7 * b + s
    BY <1>1, <1>4, ModSmall
  <1> QED BY <1>3, <1>4, <1>5 DEF Filtered

\* The truncating shift brings the brightness nearer to the sensor at every step and
\* never past it, and stops at most 7 below it (backlight.c:102-105): the measure behind
\* LedFollowsLight.
THEOREM FilterApproaches ==
  ASSUME NEW b \in Light, NEW s \in Light
  PROVE  /\ b > s => s <= Filtered(b, s) /\ Filtered(b, s) < b
         /\ s - b >= 8 => b < Filtered(b, s) /\ Filtered(b, s) <= s
         /\ s - b \in 0..7 => Filtered(b, s) = b
  <1>1. Filtered(b, s) = (7 * b + s) \div 8
    BY FilterInRange
  <1>2. b \in Int /\ s \in Int
    BY LightConstants DEF Light
  <1> QED BY <1>1, <1>2

\* The product with the period stays in 32 bits, and the duty cycle in the period.
LEMMA DutyInRange ==
  ASSUME NEW b \in Light
  PROVE  DutyCycle(b) \in 0..Period /\ DutyCycle(b) = (Period * b) \div AdcRange
  <1>1. /\ b \in Nat /\ b <= AdcRange - 1 /\ AdcRange \in Nat \ {0}
        /\ Period \in Nat /\ Wrap \in Nat \ {0} /\ Period * AdcRange <= Wrap
    BY LightConstants DEF Light
  <1>2. Period * b \in Nat /\ Period * (AdcRange - 1) \in Nat /\ Period * b <= Period * (AdcRange - 1)
    BY <1>1, Monotone
  <1>3. Period * (AdcRange - 1) = (Period * AdcRange) - Period /\ Period * AdcRange \in Nat
    BY <1>1
  <1>4. Period * b < Wrap
    <2>1. CASE Period = 0
      BY <2>1, <1>1
    <2>2. CASE Period > 0
      BY <2>2, <1>1, <1>2, <1>3
    <2> QED BY <2>1, <2>2, <1>1
  <1>5. (Period * b) % Wrap = Period * b
    BY <1>1, <1>2, <1>4, ModSmall
  <1>6. (Period * b) \div AdcRange \in Nat
    BY <1>1, <1>2, DivIsNat
  <1>7. DutyCycle(b) \in 0..Period
    BY <1>1, <1>5, <1>6 DEF DutyCycle
  <1>8. (Period * b) \div AdcRange <= Period
    BY <1>1, <1>2, <1>3, DivBelow
  <1> QED BY <1>1, <1>5, <1>6, <1>7, <1>8 DEF DutyCycle

LEMMA LightBegins == LightInit => LightTypeOK
  <1> SUFFICES ASSUME LightInit PROVE LightTypeOK
    OBVIOUS
  <1>1. 0 \in Light /\ 0 \in 0..Period
    BY LightConstants DEF Light
  <1> QED BY <1>1 DEF LightInit, LightTypeOK

LEMMA LightStep == LightTypeOK /\ [LightNext]_lightVars => LightTypeOK'
  <1> SUFFICES ASSUME LightTypeOK, [LightNext]_lightVars PROVE LightTypeOK'
    OBVIOUS
  <1> USE DEF LightTypeOK
  <1>1. CASE LightChanges \/ Activity \/ CreateDisplay
    BY <1>1 DEF LightChanges, Activity, CreateDisplay
  <1>2. CASE FindAdc \/ FindPwm \/ WaitDisplay
    BY <1>2, LightConstants DEF FindAdc, FindPwm, WaitDisplay, AdcGoto
  <1>3. CASE Update
    <2>1. brightness' \in Light
      <3>1. brightness' = Filtered(brightness, light) /\ brightness \in Light /\ light \in Light
        BY <1>3 DEF Update
      <3>2. Filtered(brightness, light) = (7 * brightness + light) \div 8
        BY <3>1, FilterInRange
      <3> QED BY <3>1, <3>2, LightConstants DEF Light
    <2>2. DutyCycle(brightness') \in 0..Period
      BY <2>1, DutyInRange
    <2> QED BY <1>3, <2>1, <2>2, LightConstants DEF Update, AdcGoto
  <1>4. CASE UNCHANGED lightVars
    BY <1>4 DEF lightVars
  <1> QED BY <1>1, <1>2, <1>3, <1>4 DEF LightNext, AdcThread

\* The brightness stays in the range of the converter and the duty cycle in the period,
\* for every width of the converter for which the products fit the words they are
\* computed in (backlight.c:97-120).
THEOREM LightInRange == LightSpec => []LightTypeOK
  BY LightBegins, LightStep, PTL DEF LightSpec
-----------------------------------------------------------------------------
\* The real-time clock.

\* bin_to_bcd gives the digits that the DS3231 has, and bcd_to_bin gets the number back
\* from them, for all the numbers of two digits (ds3231_util.c:37-44).
THEOREM BcdRoundTrip ==
  ASSUME NEW v \in 0..99
  PROVE  /\ BinToBcd(v) = Digits(v) /\ BcdToBin(Digits(v)) = v /\ Decimal(Digits(v)) = v
         /\ v <= 12 => Digits(v) % 128 = Digits(v)
  BY DEF BinToBcd, Digits, Decimal, BcdToBin

\* The days of the months before month m.
Table == [m \in 1..12 |->
            CASE m = 1 -> 0 [] m = 2 -> 31 [] m = 3 -> 59 [] m = 4 -> 90 [] m = 5 -> 120
              [] m = 6 -> 151 [] m = 7 -> 181 [] m = 8 -> 212 [] m = 9 -> 243
              [] m = 10 -> 273 [] m = 11 -> 304 [] OTHER -> 334]

\* The loop of day_of_week, unrolled.
LEMMA DaysBeforeTable == \A m \in 1..12 : DaysBefore[m] = Table[m]
  <1> DEFINE Sums(g) == g = [m \in 1..12 |-> IF m = 1 THEN 0 ELSE g[m - 1] + days_in_month[m - 1]]
  <1>1. Sums(Table)
    <2>1. \A m \in 1..12 : Table[m] = IF m = 1 THEN 0 ELSE Table[m - 1] + days_in_month[m - 1]
      BY DEF Table, days_in_month
    <2> QED BY <2>1 DEF Table
  <1>2. DaysBefore = CHOOSE g : Sums(g)
    BY DEF DaysBefore
  <1>3. Sums(DaysBefore)
    BY <1>1, <1>2
  <1>4. DaysBefore[1] = 0 /\ \A m \in 2..12 : DaysBefore[m] = DaysBefore[m - 1] + days_in_month[m - 1]
    BY <1>3
  <1>5. /\ DaysBefore[2] = 31 /\ DaysBefore[3] = 59 /\ DaysBefore[4] = 90 /\ DaysBefore[5] = 120
        /\ DaysBefore[6] = 151 /\ DaysBefore[7] = 181 /\ DaysBefore[8] = 212 /\ DaysBefore[9] = 243
        /\ DaysBefore[10] = 273 /\ DaysBefore[11] = 304 /\ DaysBefore[12] = 334
    BY <1>4 DEF days_in_month
  <1> QED BY <1>4, <1>5 DEF Table

\* What a year and a month add to Zeller's sum.
YearPart(y, m) == LET yy == IF m < 3 THEN y - 1 ELSE y
                  IN yy + (yy \div 4) - (yy \div 100) + (yy \div 400)
MonthPart(m) == LET mm == IF m < 3 THEN m + 12 ELSE m IN (13 * (mm + 1)) \div 5

Years == 2000..2099
Months == 1..12

Sum(y, m) == MonthPart(m) + YearPart(y, m)

SumsUp(y, m) == /\ Sum(y, m) \in Int
                /\ \A d \in Nat : Zeller(y, m, d) = (d + Sum(y, m)) % 7

LEMMA ZellerSum == \A y \in Years, m \in Months : SumsUp(y, m)
  <1> SUFFICES ASSUME NEW y \in Years, NEW m \in Months PROVE SumsUp(y, m)
    OBVIOUS
  <1> QED BY DEF SumsUp, Sum, Zeller, MonthPart, YearPart, Years, Months

LEMMA Sevens ==
  ASSUME NEW a \in Int
  PROVE  (a + 28) % 7 = a % 7 /\ (a + 56) % 7 = a % 7 /\ (a + 1) % 7 = ((a % 7) + 1) % 7
  OBVIOUS

\* A month is four or eight weeks and what Zeller's sum grows by.
LEMMA MonthPasses ==
  ASSUME NEW y \in Years, NEW m \in 1..11
  PROVE  \E q \in {28, 56} : Sum(y, m + 1) + q = Sum(y, m) + LastDay(y, m)
  <1>1. CASE m # 2
    <2>1. YearPart(y, m + 1) = YearPart(y, m)
      BY <1>1 DEF YearPart
    <2>2. MonthPart(m + 1) + 28 = MonthPart(m) + LastDay(y, m)
      BY <1>1 DEF MonthPart, LastDay
    <2>3. MonthPart(m + 1) \in Int /\ MonthPart(m) \in Int /\ YearPart(y, m) \in Int /\ LastDay(y, m) \in Int
      BY DEF MonthPart, YearPart, LastDay, Years
    <2> QED BY <2>1, <2>2, <2>3 DEF Sum
  <1>2. CASE m = 2
    <2>1. MonthPart(3) = 10 /\ MonthPart(2) = 39
      BY DEF MonthPart
    <2>2. YearPart(y, 3) = YearPart(y, 2) + LastDay(y, 2) - 27
      BY DEF YearPart, LastDay, Years
    <2>3. YearPart(y, 2) \in Int /\ LastDay(y, 2) \in Int
      BY DEF YearPart, LastDay, Years
    <2> QED BY <1>2, <2>1, <2>2, <2>3 DEF Sum
  <1> QED BY <1>1, <1>2

LEMMA YearPasses ==
  ASSUME NEW y \in 2000..2098
  PROVE  Sum(y + 1, 1) + 28 = Sum(y, 12) + 31
  <1>1. MonthPart(1) = 36 /\ MonthPart(12) = 33
    BY DEF MonthPart
  <1>2. YearPart(y + 1, 1) = YearPart(y, 12) /\ YearPart(y, 12) \in Int
    BY DEF YearPart
  <1> QED BY <1>1, <1>2 DEF Sum

InCentury(date) == date[1] <= 2099
ZellerOf(date) == Zeller(date[1], date[2], date[3])

\* After a midnight it is the next day of the week.
LEMMA NextWeekday ==
  ASSUME NEW y, NEW m, NEW d, <<y, m, d>> \in Dates, InCentury(NextDay(<<y, m, d>>))
  PROVE  /\ NextDay(<<y, m, d>>) \in Dates
         /\ ZellerOf(NextDay(<<y, m, d>>)) = (Zeller(y, m, d) + 1) % 7
  <1> DEFINE date == <<y, m, d>>
  <1>1. y \in 2000..2099 /\ m \in 1..12 /\ d \in 1..31 /\ d <= LastDay(y, m)
    BY DEF Dates
  <1>2. LastDay(y, m) \in 28..31 /\ d \in Nat /\ d + 1 \in Nat
    BY <1>1 DEF LastDay
  <1>3. /\ Sum(y, m) \in Int
        /\ \A k \in Nat : Zeller(y, m, k) = (k + Sum(y, m)) % 7
    <2>1. y \in Years /\ m \in Months
      BY <1>1 DEF Years, Months
    <2>2. SumsUp(y, m)
      BY <2>1, ZellerSum, Zenon
    <2> QED BY <2>2, Zenon DEF SumsUp
  <1>4. CASE d < LastDay(y, m)
    <2>1. NextDay(date) = <<y, m, d + 1>>
      BY <1>4 DEF NextDay
    <2>2. d + 1 \in 1..31 /\ d + 1 <= LastDay(y, m)
      BY <1>1, <1>2, <1>4
    <2>3. NextDay(date) \in Dates
      BY <1>1, <2>1, <2>2 DEF Dates
    <2>4. Zeller(y, m, d + 1) = (d + 1 + Sum(y, m)) % 7
      BY <1>2, <1>3
    <2>5. d + Sum(y, m) \in Int /\ d \in Int
      BY <1>2, <1>3
    <2>6. Zeller(y, m, d + 1) = (Zeller(y, m, d) + 1) % 7
      BY <1>2, <1>3, <2>4, <2>5, Sevens
    <2> QED BY <1>1, <2>1, <2>3, <2>6 DEF ZellerOf
  <1>5. CASE d = LastDay(y, m) /\ m < 12
    <2>1. NextDay(date) = <<y, m + 1, 1>>
      BY <1>2, <1>5 DEF NextDay
    <2>2. m + 1 \in 1..12 /\ LastDay(y, m + 1) \in 28..31
      BY <1>1, <1>5 DEF LastDay
    <2>3. NextDay(date) \in Dates
      BY <1>1, <2>1, <2>2 DEF Dates
    <2>4. /\ Zeller(y, m + 1, 1) = (1 + Sum(y, m + 1)) % 7
          /\ Sum(y, m + 1) \in Int
      <3>1. 1 \in Nat /\ y \in Years /\ m + 1 \in Months
        BY <1>1, <2>2 DEF Years, Months
      <3>2. SumsUp(y, m + 1)
        BY <3>1, ZellerSum, Zenon
      <3> QED BY <3>1, <3>2, Zenon DEF SumsUp
    <2>5. PICK q \in {28, 56} : Sum(y, m + 1) + q = Sum(y, m) + LastDay(y, m)
      <3>1. y \in Years /\ m \in 1..11
        BY <1>1, <1>5 DEF Years
      <3> QED BY <3>1, MonthPasses
    <2>6. d + Sum(y, m) + 1 = (1 + Sum(y, m + 1)) + q
      BY <1>2, <1>3, <1>5, <2>4, <2>5
    <2>7. (d + Sum(y, m) + 1) % 7 = (1 + Sum(y, m + 1)) % 7
      BY <2>4, <2>5, <2>6, Sevens
    <2>8. d + Sum(y, m) \in Int
      BY <1>2, <1>3
    <2>9. Zeller(y, m + 1, 1) = (Zeller(y, m, d) + 1) % 7
      BY <1>2, <1>3, <2>4, <2>7, <2>8, Sevens
    <2> QED BY <1>1, <2>1, <2>3, <2>9 DEF ZellerOf
  <1>6. CASE d = LastDay(y, m) /\ m = 12
    <2>1. NextDay(date) = <<y + 1, 1, 1>> /\ d = 31
      BY <1>2, <1>6 DEF NextDay, LastDay
    <2>2. y + 1 \in 2000..2099 /\ y \in 2000..2098 /\ LastDay(y + 1, 1) = 31
      BY <1>1, <2>1 DEF LastDay, InCentury
    <2>3. NextDay(date) \in Dates
      BY <2>1, <2>2 DEF Dates
    <2>4. /\ Zeller(y + 1, 1, 1) = (1 + Sum(y + 1, 1)) % 7
          /\ Sum(y + 1, 1) \in Int
      <3>1. 1 \in Nat /\ y + 1 \in Years /\ 1 \in Months
        BY <2>2 DEF Years, Months
      <3>2. SumsUp(y + 1, 1)
        BY <3>1, ZellerSum, Zenon
      <3> QED BY <3>1, <3>2, Zenon DEF SumsUp
    <2>5. (d + Sum(y, m)) + 1 = (1 + Sum(y + 1, 1)) + 28
      BY <1>2, <1>3, <1>6, <2>1, <2>2, <2>4, YearPasses
    <2>6. ((d + Sum(y, m)) + 1) % 7 = (1 + Sum(y + 1, 1)) % 7
      BY <2>4, <2>5, Sevens
    <2>7. d + Sum(y, m) \in Int
      BY <1>2, <1>3
    <2>8. Zeller(y + 1, 1, 1) = (Zeller(y, m, d) + 1) % 7
      BY <1>2, <1>3, <2>4, <2>6, <2>7, Sevens
    <2> QED BY <1>1, <2>1, <2>3, <2>8 DEF ZellerOf
  <1> QED BY <1>1, <1>2, <1>4, <1>5, <1>6

\* day_of_week counts seven days more or less than Zeller's sum.
Leap(y, m) == IF m > 2 /\ y % 4 = 0 THEN 1 ELSE 0
DayCount(k, m) == Table[m] + Leap(k, m) + 365 * k + ((k + 3) \div 4) - 1
Weeks(k, m) == 52 * k + 4 * (IF m > 2 THEN m ELSE m - 1) - 360

LEMMA CountAndSum ==
  ASSUME NEW k \in 0..99, NEW m \in Months
  PROVE  DayCount(k, m) = Sum(k + 2000, m) + 7 * Weeks(k, m)
  <1>1. CASE m > 2
    <2>1. Table[m] = MonthPart(m) + 28 * m - 35 /\ MonthPart(m) \in Int
      BY <1>1 DEF Table, MonthPart, Months
    <2>2. YearPart(k + 2000, m) = k + (k \div 4) + 2485
      BY <1>1 DEF YearPart, Months
    <2>3. Leap(k, m) + ((k + 3) \div 4) = (k \div 4) + 1
      BY <1>1 DEF Leap, Months
    <2>4. Leap(k, m) \in Int /\ ((k + 3) \div 4) \in Int /\ (k \div 4) \in Int
      BY DEF Leap, Months
    <2> QED BY <1>1, <2>1, <2>2, <2>3, <2>4 DEF Sum, DayCount, Weeks, Months
  <1>2. CASE m \in {1, 2}
    <2>1. /\ Table[1] = 0 /\ MonthPart(1) = 36
          /\ Table[2] = 31 /\ MonthPart(2) = 39
      BY DEF Table, MonthPart
    <2>2. YearPart(k + 2000, m) = k + ((k + 3) \div 4) + 2483
      BY <1>2 DEF YearPart
    <2>3. Leap(k, m) = 0 /\ ((k + 3) \div 4) \in Int
      BY <1>2 DEF Leap
    <2> QED BY <1>2, <2>1, <2>2, <2>3 DEF Sum, DayCount, Weeks
  <1> QED BY <1>1, <1>2 DEF Months

\* The days of a century fit in 16 bits.
Fits(d, c) == c \in Int /\ (d + c) % 65536 = d + c

IsCount(c) == c \in Int /\ 0 <= c + 1 /\ c <= 36494

LEMMA SmallFits == ASSUME NEW d \in 1..31, NEW c, IsCount(c) PROVE Fits(d, c)
  BY DEF Fits, IsCount

LEMMA CountFits ==
  ASSUME NEW k \in 0..99, NEW m \in Months, NEW d \in 1..31
  PROVE  Fits(d, DayCount(k, m))
  <1> DEFINE now == Table[m]
             l == Leap(k, m)
             q == (k + 3) \div 4
             y == 365 * k
  <1>1. now \in Int /\ 0 <= now /\ now <= 334
    BY DEF Table, Months
  <1>2. l \in Int /\ 0 <= l /\ l <= 1
    BY DEF Leap
  <1>3. q \in Int /\ 0 <= q /\ q <= 25
    OBVIOUS
  <1>4. y \in Int /\ 0 <= y /\ y <= 36135
    OBVIOUS
  <1>5. DayCount(k, m) = now + l + y + q - 1
    BY DEF DayCount
  <1> HIDE DEF now, l, q, y
  <1>6. IsCount(DayCount(k, m))
    BY ONLY <1>1, <1>2, <1>3, <1>4, <1>5 DEF IsCount
  <1> QED BY <1>6, SmallFits

\* day_of_week gives the day of the week of every day from 2000 to 2099: it is Zeller's,
\* counted from Monday (ds3231_util.c:46-67).
THEOREM DayOfWeekIsRight ==
  ASSUME NEW y \in Years, NEW m \in Months, NEW d \in 1..31
  PROVE  DayOfWeek(y, m, d) = (Zeller(y, m, d) + 6) % 7
  <1>1. PICK k \in 0..99 : y = k + 2000
    <2>1. y - 2000 \in 0..99 /\ y = (y - 2000) + 2000
      BY DEF Years
    <2> QED BY <2>1
  <1>2. DayOfWeek(y, m, d) = (((d + DayCount(k, m)) % 65536) + 6) % 7
    <2>1. DaysBefore[m] = Table[m] /\ Table[m] \in Int
      BY DaysBeforeTable DEF Table, Months
    <2> QED BY <1>1, <2>1 DEF DayOfWeek, DayCount, Leap, Months
  <1>3. (d + DayCount(k, m)) % 65536 = d + DayCount(k, m)
    BY <1>1, CountFits DEF Fits
  <1>4. DayCount(k, m) = Sum(y, m) + 7 * Weeks(k, m) /\ Weeks(k, m) \in Int
    BY <1>1, CountAndSum DEF Weeks, Months
  <1>5. SumsUp(y, m)
    BY <1>1, ZellerSum
  <1>6. ASSUME NEW a \in Int, NEW q \in Int PROVE (a + 7 * q + 6) % 7 = ((a % 7) + 6) % 7
    OBVIOUS
  <1>7. d + Sum(y, m) \in Int /\ Zeller(y, m, d) = (d + Sum(y, m)) % 7 /\ Sum(y, m) \in Int
    BY <1>1, <1>5 DEF SumsUp
  <1>8. d + DayCount(k, m) + 6 = (d + Sum(y, m)) + 7 * Weeks(k, m) + 6
    BY <1>1, <1>4, <1>7
  <1> QED BY <1>2, <1>3, <1>4, <1>6, <1>7, <1>8

\* ds3231_sync and ds3231_date.
Times == [date : Dates, at : 1..3]

\* The registers of a DS3231 that shows time now and day w of the week.
RegistersOf(now, w) ==
    <<Digits(Instants[now.at][3]), Digits(Instants[now.at][2]), Digits(Instants[now.at][1]), w,
      Digits(now.date[3]), Digits(now.date[2]), Digits(now.date[1] - 2000)>>

\* The day of the week, from 1 for Monday.
Weekday(date) == ((ZellerOf(date) + 6) % 7) + 1

LEMMA ZellerType == ASSUME NEW now \in Times PROVE ZellerOf(now.date) \in 0..6
  <1>1. now.date[1] \in Years /\ now.date[2] \in Months /\ now.date[3] \in Nat
    BY DEF Times, Dates, Years, Months
  <1>2. SumsUp(now.date[1], now.date[2])
    BY <1>1, ZellerSum, Zenon
  <1>3. /\ Sum(now.date[1], now.date[2]) \in Int
        /\ ZellerOf(now.date) = (now.date[3] + Sum(now.date[1], now.date[2])) % 7
    BY <1>1, <1>2, Zenon DEF SumsUp, ZellerOf
  <1>4. \A n \in Nat, k \in Int : (n + k) % 7 \in 0..6
    OBVIOUS
  <1> QED BY <1>1, <1>3, <1>4

LEMMA WeekdayType == ASSUME NEW now \in Times PROVE Weekday(now.date) \in 1..7
  BY ZellerType DEF Weekday

\* What the firmware reads in the registers is the time that they show.
LEMMA RegistersShow ==
  ASSUME NEW now \in Times, NEW w
  PROVE  LET r == RegistersOf(now, w)
         IN /\ BcdToBin(r[7]) + 2000 = now.date[1]
            /\ BcdToBin(r[6] % 128) = now.date[2] /\ Decimal(r[6]) = now.date[2]
            /\ BcdToBin(r[5]) = now.date[3]
            /\ <<BcdToBin(r[3]), BcdToBin(r[2]), BcdToBin(r[1])>> = Instants[now.at]
            /\ r[4] = w
            /\ ChipTime(r) = now
  <1> DEFINE r == RegistersOf(now, w)
             hms == Instants[now.at]
  <1>1. /\ now.date[1] - 2000 \in 0..99 /\ now.date[1] = (now.date[1] - 2000) + 2000 
        /\ now.date[2] \in 1..12 /\ now.date[3] \in 1..31
        /\ now.date = <<now.date[1], now.date[2], now.date[3]>>
        /\ now.date[2] \in 0..99 /\ now.date[3] \in 0..99
        /\ now = [date |-> now.date, at |-> now.at] /\ now.at \in 1..3
    BY DEF Times, Dates
  <1>2. /\ hms[1] \in 0..99 /\ hms[2] \in 0..99 /\ hms[3] \in 0..99
        /\ hms = <<hms[1], hms[2], hms[3]>>
    BY <1>1 DEF Instants
  <1>3. \A v \in 0..99 : /\ BcdToBin(Digits(v)) = v /\ Decimal(Digits(v)) = v
                         /\ v <= 12 => Digits(v) % 128 = Digits(v)
    BY BcdRoundTrip
  <1>4. /\ r[1] = Digits(hms[3]) /\ r[2] = Digits(hms[2]) /\ r[3] = Digits(hms[1]) /\ r[4] = w
        /\ r[5] = Digits(now.date[3]) /\ r[6] = Digits(now.date[2]) /\ r[7] = Digits(now.date[1] - 2000)
    BY DEF RegistersOf
  <1> HIDE DEF r, hms
  <1>5. /\ BcdToBin(r[7]) = now.date[1] - 2000 /\ Decimal(r[7]) = now.date[1] - 2000
        /\ BcdToBin(r[6] % 128) = now.date[2] /\ Decimal(r[6]) = now.date[2]
        /\ BcdToBin(r[5]) = now.date[3] /\ Decimal(r[5]) = now.date[3]
    BY <1>1, <1>3, <1>4
  <1>6. /\ BcdToBin(r[3]) = hms[1] /\ BcdToBin(r[2]) = hms[2] /\ BcdToBin(r[1]) = hms[3]
        /\ Decimal(r[3]) = hms[1] /\ Decimal(r[2]) = hms[2] /\ Decimal(r[1]) = hms[3]
    BY <1>2, <1>3, <1>4
  <1>7. ChipTime(r) = now
    <2>1. Hms(r) = Instants[now.at]
      BY <1>2, <1>6 DEF Hms, hms
    <2>2. \A i \in 1..3 : Instants[i] = Instants[now.at] => i = now.at
      BY <1>1 DEF Instants
    <2>3. Len(Instants) = 3
      BY DEF Instants
    <2>4. (CHOOSE i \in 1..Len(Instants) : Instants[i] = Hms(r)) = now.at
      BY <1>1, <2>1, <2>2, <2>3
    <2>5. <<2000 + Decimal(r[7]), Decimal(r[6]), Decimal(r[5])>> = now.date
      BY <1>1, <1>5
    <2> DEFINE date == <<2000 + Decimal(r[7]), Decimal(r[6]), Decimal(r[5])>>
               at == CHOOSE i \in 1..Len(Instants) : Instants[i] = Hms(r)
    <2>6. ChipTime(r) = [date |-> date, at |-> at]
      BY DEF ChipTime
    <2>7. date = now.date /\ at = now.at
      BY <2>4, <2>5
    <2> HIDE DEF date, at
    <2>8. ChipTime(r) = [date |-> now.date, at |-> now.at]
      BY <2>6, <2>7
    <2>9. now = [date |-> now.date, at |-> now.at]
      BY DEF Times
    <2> QED BY <2>8, <2>9
  <1> QED BY <1>1, <1>2, <1>4, <1>5, <1>6, <1>7 DEF r, hms

\* What ds3231_date writes are the registers of that time, with the right day of the week.
LEMMA DateWritten ==
  ASSUME NEW now \in Times
  PROVE  <<BinToBcd(Instants[now.at][3]), BinToBcd(Instants[now.at][2]), BinToBcd(Instants[now.at][1]),
           BinToBcd(DayOfWeek(now.date[1], now.date[2], now.date[3]) + 1),
           BinToBcd(now.date[3]), BinToBcd(now.date[2]), BinToBcd(now.date[1] % 100)>>
            = RegistersOf(now, Weekday(now.date))
  <1> DEFINE hms == Instants[now.at]
  <1>1. /\ now.date[1] \in Years /\ now.date[2] \in Months /\ now.date[3] \in 1..31
        /\ now.date[2] \in 0..99 /\ now.date[3] \in 0..99 /\ now.at \in 1..3
        /\ now.date[1] % 100 = now.date[1] - 2000 /\ now.date[1] - 2000 \in 0..99
    BY DEF Times, Dates, Years, Months
  <1>2. hms[1] \in 0..99 /\ hms[2] \in 0..99 /\ hms[3] \in 0..99
    BY <1>1 DEF Instants
  <1>3. \A v \in 0..99 : BinToBcd(v) = Digits(v)
    BY BcdRoundTrip
  <1>4. DayOfWeek(now.date[1], now.date[2], now.date[3]) + 1 = Weekday(now.date)
    BY <1>1, DayOfWeekIsRight DEF Weekday, ZellerOf
  <1>5. BinToBcd(Weekday(now.date)) = Weekday(now.date)
    <2>1. Weekday(now.date) \in 1..7
      BY WeekdayType
    <2>2. \A v \in 1..7 : BinToBcd(v) = v
      BY DEF BinToBcd
    <2> QED BY <2>1, <2>2
  <1> HIDE DEF hms
  <1>6. /\ BinToBcd(hms[3]) = Digits(hms[3]) /\ BinToBcd(hms[2]) = Digits(hms[2])
        /\ BinToBcd(hms[1]) = Digits(hms[1])
    BY <1>2, <1>3
  <1>7. /\ BinToBcd(now.date[3]) = Digits(now.date[3]) /\ BinToBcd(now.date[2]) = Digits(now.date[2])
        /\ BinToBcd(now.date[1] % 100) = Digits(now.date[1] - 2000)
    BY <1>1, <1>3
  <1> QED BY <1>4, <1>5, <1>6, <1>7 DEF RegistersOf, hms

ClockTimes == [date : Nat \X Nat \X Nat, at : 1..3]

ClockTypes == /\ chip \in Times /\ wday \in 1..7 /\ rtc \in ClockTimes
              /\ osf \in BOOLEAN /\ right \in BOOLEAN
              /\ write_failed \in BOOLEAN /\ ticked \in BOOLEAN

\* The registers read are those of the DS3231, until time goes on.
Reading == clock_at \in {"check", "set_date", "set_time"} =>
              \E now \in Times, w \in 1..7 : buff = RegistersOf(now, w) /\ (~ticked => now = chip)
HalfSet == clock_at = "set_time" /\ ~ticked => rtc.date = chip.date
Synced == result = "set" => clock_at = "idle" /\ (~ticked => rtc = chip)

\* The registers to be written are those of the time the user sets.
Writing == clock_at = "write" => asked \in Times /\ buff = RegistersOf(asked, Weekday(asked.date))
Written == clock_at = "status" => right \/ write_failed
Trusted == /\ ~osf => right \/ write_failed
           /\ right => wday = Weekday(chip.date)

ClockInv == ClockTypes /\ Reading /\ HalfSet /\ Synced /\ Writing /\ Written /\ Trusted

\* The month of a clock is 1 to 12, and ds3231_sync refuses 12.
LEMMA Refused == ClockInv => SyncIsRight
  <1> SUFFICES ASSUME ClockInv, clock_at = "check", OutOfRange PROVE Decimal(buff[6]) = 12
    BY DEF ClockInv, Synced, SyncIsRight
  <1>1. PICK now \in Times, w \in 1..7 : buff = RegistersOf(now, w)
    BY DEF ClockInv, Reading
  <1>2. /\ Mon = now.date[2] /\ Decimal(buff[6]) = now.date[2] /\ Mday = now.date[3]
        /\ <<Hour, Min, Sec>> = Instants[now.at]
    BY <1>1, RegistersShow DEF Mon, Mday, Hour, Min, Sec
  <1>3. now.at \in 1..3 /\ now.date[2] \in 1..12 /\ now.date[3] \in 1..31
    BY DEF Times, Dates
  <1>4. Hour <= 23 /\ Min <= 59 /\ Sec <= 60 /\ Hour \in Nat /\ Min \in Nat /\ Sec \in Nat
    BY <1>2, <1>3 DEF Instants
  <1>5. Mon > 11
    BY <1>2, <1>3, <1>4 DEF OutOfRange
  <1> QED BY <1>2, <1>3, <1>5

LEMMA Trust == ClockInv => ClockIsTrusted
  BY DEF ClockInv, Trusted, ClockIsTrusted, Weekday, ZellerOf

\* Time goes on from date to date, and from day to day of the week.
LEMMA GoesOn ==
  ASSUME NEW now \in Times, InCentury(GoOn(now).date)
  PROVE  /\ GoOn(now) \in Times
         /\ Weekday(GoOn(now).date) = IF now.at = 3 THEN (Weekday(now.date) % 7) + 1 ELSE Weekday(now.date)
  <1>1. Len(Instants) = 3 /\ now.at \in 1..3 /\ now.date \in Dates
    BY DEF Instants, Times
  <1>2. CASE now.at < 3
    BY <1>1, <1>2 DEF GoOn, Times
  <1>3. CASE now.at = 3
    <2>1. GoOn(now).date = NextDay(now.date) /\ GoOn(now).at = 1 /\ GoOn(now) = [date |-> NextDay(now.date), at |-> 1]
      BY <1>1, <1>3 DEF GoOn
    <2>2. PICK y \in Years, m \in Months, d \in 1..31 : now.date = <<y, m, d>>
      <3>1. now.date \in Years \X Months \X (1..31)
        BY <1>1 DEF Dates, Years, Months
      <3>2. /\ now.date[1] \in Years /\ now.date[2] \in Months /\ now.date[3] \in 1..31
            /\ now.date = <<now.date[1], now.date[2], now.date[3]>>
        BY <3>1
      <3> QED BY <3>2
    <2>3. /\ NextDay(now.date) \in Dates
          /\ ZellerOf(NextDay(now.date)) = (ZellerOf(now.date) + 1) % 7
      <3>1. InCentury(NextDay(<<y, m, d>>)) /\ <<y, m, d>> \in Dates
        BY <1>1, <2>1, <2>2, Zenon
      <3>2. /\ NextDay(<<y, m, d>>) \in Dates
            /\ ZellerOf(NextDay(<<y, m, d>>)) = (Zeller(y, m, d) + 1) % 7
        BY <3>1, NextWeekday, Zenon
      <3>3. ZellerOf(now.date) = Zeller(y, m, d)
        BY <2>2 DEF ZellerOf
      <3> QED BY <2>2, <3>2, <3>3, Zenon
    <2>4. ZellerOf(now.date) \in 0..6
      BY ZellerType
    <2>5. \A z \in 0..6 : ((((z + 1) % 7) + 6) % 7) + 1 = ((((z + 6) % 7) + 1) % 7) + 1
      OBVIOUS
    <2>6. Weekday(GoOn(now).date) = (Weekday(now.date) % 7) + 1
      BY <2>1, <2>3, <2>4, <2>5 DEF Weekday
    <2>7. GoOn(now) \in Times
      BY <2>1, <2>3 DEF Times
    <2> QED BY <1>3, <2>6, <2>7
  <1> QED BY <1>1, <1>2, <1>3

LEMMA GoesOnSo == ASSUME NEW now \in ClockTimes PROVE GoOn(now) \in ClockTimes
  <1>1. Len(Instants) = 3 /\ now.at \in 1..3 /\ now.date \in Nat \X Nat \X Nat
    BY DEF Instants, ClockTimes
  <1>2. NextDay(now.date) \in Nat \X Nat \X Nat
    BY <1>1 DEF NextDay
  <1> QED BY <1>1, <1>2 DEF GoOn, ClockTimes


LEMMA ClockStarts == ClockInit => ClockInv
  <1> SUFFICES ASSUME ClockInit PROVE ClockInv
    OBVIOUS
  <1>1. <<2000, 1, 1>> \in Dates
    BY DEF Dates, LastDay
  <1>2. chip \in Times /\ rtc \in ClockTimes
    BY <1>1 DEF ClockInit, Reset2000, Epoch, Times, ClockTimes
  <1>3. wday \in 1..7 /\ clock_at = "idle" /\ result = "none"
    BY DEF ClockInit
  <1>4. osf /\ ~right /\ ~write_failed /\ ~ticked /\ ClockTypes
    BY <1>2, <1>3, Zenon DEF ClockInit, ClockTypes
  <1> QED BY <1>3, <1>4, Zenon DEF ClockInv, Reading, HalfSet, Synced, Writing, Written, Trusted

LEMMA TickKeeps ==
  ASSUME ClockInv, Tick, InCentury(chip.date)' PROVE ClockInv'
  <1>0. chip \in Times /\ rtc \in ClockTimes /\ wday \in 1..7 /\ Len(Instants) = 3
    BY DEF ClockInv, ClockTypes, Instants
  <1>1. chip' = GoOn(chip) /\ rtc' = GoOn(rtc) /\ InCentury(GoOn(chip).date)
    BY DEF Tick
  <1>2. chip' \in Times /\ rtc' \in ClockTimes
    BY <1>0, <1>1, GoesOn, GoesOnSo
  <1>3. wday' = (IF chip.at = 3 THEN (wday % 7) + 1 ELSE wday) /\ wday' \in 1..7
    BY <1>0 DEF Tick
  <1>4. /\ UNCHANGED <<osf, right, asked, write_failed, clock_at, buff, result>>
        /\ ticked' = (ticked \/ clock_at \in {"check", "set_date", "set_time"})
    BY DEF Tick
  <1>5. ClockTypes'
    BY <1>2, <1>3, <1>4 DEF ClockInv, ClockTypes
  <1>6. Reading' /\ HalfSet'
    BY <1>4 DEF ClockInv, Reading, HalfSet, ClockTypes
  <1>7. Synced'
    BY <1>1, <1>4 DEF ClockInv, ClockTypes, Synced
  <1>8. Trusted'
    <2>1. Weekday(chip.date)' = IF chip.at = 3 THEN (Weekday(chip.date) % 7) + 1 ELSE Weekday(chip.date)
      BY <1>0, <1>1, GoesOn
    <2> QED BY <1>3, <1>4, <2>1 DEF ClockInv, Trusted
  <1>9. Writing' /\ Written'
    BY <1>4 DEF ClockInv, Writing, Written
  <1> QED BY <1>5, <1>6, <1>7, <1>8, <1>9 DEF ClockInv

LEMMA StopsKeep ==
  ASSUME ClockInv, Restart \/ PowerLoss PROVE ClockInv'
  <1>1. CASE Restart
    BY <1>1 DEF ClockInv, Restart, chipVars, ClockTypes, Reading, HalfSet, Synced, Writing, Written, Trusted
  <1>2. CASE PowerLoss
    <2>1. <<2000, 1, 1>> \in Dates
      BY DEF Dates, LastDay
    <2>2. Reset2000 \in Times /\ Epoch \in ClockTimes
      BY <2>1 DEF Reset2000, Epoch, Times, ClockTimes
    <2>3. wday' \in 1..7 /\ clock_at' = "idle" /\ result' = "none"
      BY <1>2 DEF PowerLoss
    <2>4. osf' /\ ~right' /\ ~write_failed' /\ ~ticked' /\ ClockTypes'
      BY <1>2, <2>2, <2>3, Zenon DEF PowerLoss, ClockTypes
    <2> QED BY <2>3, <2>4, Zenon DEF ClockInv, Reading, HalfSet, Synced, Writing, Written, Trusted
  <1> QED BY <1>1, <1>2

\* A sync that ends early has not set the clock.
LEMMA EndsKeep ==
  ASSUME ClockInv, NEW from, NEW how, SyncEnds(from, how), how # "set" PROVE ClockInv'
  BY DEF SyncEnds, ClockGoto, chipVars, ClockInv, ClockTypes, Reading, HalfSet, Synced, Writing, Written, Trusted

LEMMA SyncKeeps ==
  ASSUME ClockInv, Sync PROVE ClockInv'
  <1>1. CASE \E from, how \in {"idle", "read", "check", "set_date", "set_time", "i2c", "stopped", "rejected", "failed"} :
               SyncEnds(from, how)
    <2>1. PICK from, how : SyncEnds(from, how) /\ how # "set"
      BY <1>1
    <2> QED BY <2>1, EndsKeep
  <1>2. CASE SyncStatus /\ clock_at' = "read"
    <2>1. /\ clock_at' = "read" /\ result' = "none" /\ ticked' = FALSE
          /\ UNCHANGED <<chip, wday, osf, right, asked, write_failed, rtc, ticks, buff>>
      BY <1>2 DEF SyncStatus, SyncEnds, ClockGoto, chipVars
    <2> QED BY <2>1, Zenon DEF ClockInv, ClockTypes, Reading, HalfSet, Synced, Writing, Written, Trusted
  <1>3. CASE SyncRead /\ clock_at' = "check"
    <2>1. /\ clock_at = "read" /\ UNCHANGED <<chipVars, asked, write_failed, rtc, ticks, result, ticked>>
          /\ buff' = Registers
      BY <1>3 DEF SyncRead, SyncEnds, ClockGoto
    <2>2. Registers = RegistersOf(chip, wday)
      BY DEF Registers, RegistersOf
    <2>3. chip \in Times /\ wday \in 1..7
      BY DEF ClockInv, ClockTypes
    <2>4. Reading'
      BY <2>1, <2>2, <2>3 DEF Reading, chipVars
    <2> QED BY <1>3, <2>1, <2>4 DEF chipVars, ClockInv, ClockTypes, HalfSet, Synced, Writing, Written, Trusted
  <1>4. CASE SyncCheck /\ clock_at' = "set_date"
    <2>1. /\ clock_at = "check"
          /\ UNCHANGED <<chipVars, asked, write_failed, rtc, ticks, buff, result, ticked>>
      BY <1>4 DEF SyncCheck, SyncEnds, ClockGoto
    <2>2. Reading'
      BY <2>1, <1>4 DEF ClockInv, Reading, chipVars
    <2> QED BY <1>4, <2>1, <2>2 DEF chipVars, ClockInv, ClockTypes, HalfSet, Synced, Writing, Written, Trusted
  <1>5. CASE SetDate /\ clock_at' = "set_time"
    <2>1. /\ clock_at = "set_date" /\ UNCHANGED <<chipVars, asked, write_failed, ticks, buff, result, ticked>>
          /\ rtc' = [rtc EXCEPT !.date = <<Year, Mon, Mday>>]
      BY <1>5 DEF SetDate, SyncEnds, ClockGoto
    <2>2. PICK now \in Times, w \in 1..7 : buff = RegistersOf(now, w) /\ (~ticked => now = chip)
      BY <2>1 DEF ClockInv, Reading
    <2>3. now.date \in Nat \X Nat \X Nat /\ now.date = <<now.date[1], now.date[2], now.date[3]>>
      BY DEF Times, Dates
    <2>4. <<Year, Mon, Mday>> = now.date
      BY <2>2, <2>3, RegistersShow DEF Year, Mon, Mday
    <2>5. rtc' \in ClockTimes /\ rtc'.date = now.date
      BY <2>1, <2>3, <2>4 DEF ClockInv, ClockTypes, ClockTimes
    <2>6. HalfSet'
      BY <2>1, <2>2, <2>5 DEF HalfSet, chipVars
    <2>7. Reading'
      BY <2>1, <1>5 DEF ClockInv, Reading, chipVars
    <2> QED BY <1>5, <2>1, <2>5, <2>6, <2>7 DEF chipVars, ClockInv, ClockTypes, Synced, Writing, Written, Trusted
  <1>6. CASE SetTime /\ result' = "set"
    <2>1. /\ clock_at = "set_time" /\ UNCHANGED <<chipVars, asked, write_failed, ticks, ticked>>
          /\ clock_at' = "idle"
          /\ \E i \in 1..3 : Instants[i] = <<Hour, Min, Sec>> /\ rtc' = [rtc EXCEPT !.at = i]
      BY <1>6 DEF SetTime, SyncEnds, ClockGoto, Instants
    <2>2. PICK now \in Times, w \in 1..7 : buff = RegistersOf(now, w) /\ (~ticked => now = chip)
      BY <2>1 DEF ClockInv, Reading
    <2>3. <<Hour, Min, Sec>> = Instants[now.at] /\ now.at \in 1..3
      <3>1. now.at \in 1..3
        BY DEF Times
      <3> QED BY <2>2, <3>1, RegistersShow DEF Hour, Min, Sec
    <2>4. \A i, j \in 1..3 : Instants[i] = Instants[j] => i = j
      BY DEF Instants
    <2>5. rtc' = [rtc EXCEPT !.at = now.at]
      BY <2>1, <2>3, <2>4
    <2>6. rtc \in ClockTimes /\ rtc' \in ClockTimes
      BY <2>3, <2>5 DEF ClockInv, ClockTypes, ClockTimes
    <2>7. ~ticked => rtc' = chip
      BY <2>1, <2>2, <2>5, <2>6 DEF ClockInv, ClockTypes, HalfSet, Times, ClockTimes
    <2> QED BY <1>6, <2>1, <2>6, <2>7 DEF chipVars, ClockInv, ClockTypes, Reading, HalfSet, Synced, Writing, Written, Trusted
  <1>7. Sync => \/ \E from, how \in {"idle", "read", "check", "set_date", "set_time", "i2c", "stopped", "rejected", "failed"} :
                     SyncEnds(from, how)
                \/ (SyncStatus /\ clock_at' = "read") \/ (SyncRead /\ clock_at' = "check")
                \/ (SyncCheck /\ clock_at' = "set_date") \/ (SetDate /\ clock_at' = "set_time")
                \/ (SetTime /\ result' = "set")
    <2> DEFINE Set == {"idle", "read", "check", "set_date", "set_time", "i2c", "stopped", "rejected", "failed"}
               Ends == \E from, how \in Set : SyncEnds(from, how)
    <2>0. /\ "idle" \in Set /\ "read" \in Set /\ "check" \in Set /\ "set_date" \in Set /\ "set_time" \in Set
          /\ "i2c" \in Set /\ "stopped" \in Set /\ "rejected" \in Set /\ "failed" \in Set
      OBVIOUS
    <2> HIDE DEF Set
    <2>1. SyncStatus => Ends \/ (SyncStatus /\ clock_at' = "read")
      BY <2>0, Zenon DEF SyncStatus, ClockGoto
    <2>2. SyncRead => Ends \/ (SyncRead /\ clock_at' = "check")
      BY <2>0, Zenon DEF SyncRead, ClockGoto
    <2>3. SyncCheck => Ends \/ (SyncCheck /\ clock_at' = "set_date")
      BY <2>0, Zenon DEF SyncCheck, ClockGoto
    <2>4. SetDate => Ends \/ (SetDate /\ clock_at' = "set_time")
      BY <2>0, Zenon DEF SetDate, ClockGoto
    <2>5. SetTime => Ends \/ (SetTime /\ result' = "set")
      BY <2>0, Zenon DEF SetTime
    <2> QED BY <2>1, <2>2, <2>3, <2>4, <2>5, Zenon DEF Sync, Set
  <1> QED BY <1>1, <1>2, <1>3, <1>4, <1>5, <1>6, <1>7

LEMMA DateSetKeeps ==
  ASSUME ClockInv, DateSet PROVE ClockInv'
  <1>1. CASE \E date \in SetDates, i \in 1..Len(Instants) : DateCommand(date, i)
    <2>1. PICK date \in SetDates, i \in 1..3 : DateCommand(date, i)
      BY <1>1 DEF Instants
    <2>2. /\ clock_at' = "write" /\ asked' = [date |-> date, at |-> i]
          /\ result' = "none" /\ UNCHANGED <<chipVars, write_failed, rtc, ticks>> /\ ticked' = FALSE
          /\ buff' = <<BinToBcd(Instants[i][3]), BinToBcd(Instants[i][2]), BinToBcd(Instants[i][1]),
                       BinToBcd(DayOfWeek(date[1], date[2], date[3]) + 1),
                       BinToBcd(date[3]), BinToBcd(date[2]), BinToBcd(date[1] % 100)>>
      BY <2>1 DEF DateCommand, ClockGoto
    <2>3. asked' \in Times /\ asked'.date = date /\ asked'.at = i
      BY <2>2, SetDatesAssumption DEF Times
    <2>4. buff' = RegistersOf(asked', Weekday(asked'.date))
      BY <2>2, <2>3, DateWritten
    <2>5. Writing'
      BY <2>3, <2>4 DEF Writing
    <2> QED BY <2>2, <2>5 DEF chipVars, ClockInv, ClockTypes, Reading, HalfSet, Synced, Written, Trusted
  <1>2. CASE WriteTime
    <2>1. /\ clock_at = "write" /\ clock_at' = "status" /\ UNCHANGED <<osf, rtc, ticks, buff, result, ticked>>
          /\ \/ /\ chip' = ChipTime(buff) /\ wday' = buff[4]
                /\ right' = (chip' = asked)
                /\ UNCHANGED write_failed
             \/ write_failed' = TRUE /\ UNCHANGED <<chip, wday, right>>
      BY <1>2 DEF WriteTime, ClockGoto
    <2>2. asked \in Times /\ buff = RegistersOf(asked, Weekday(asked.date))
      BY <2>1 DEF ClockInv, Writing
    <2>3. ChipTime(buff) = asked /\ buff[4] = Weekday(asked.date)
      BY <2>2, RegistersShow
    <2>4. CASE write_failed' = TRUE /\ UNCHANGED <<chip, wday, right>>
      BY <2>1, <2>4 DEF ClockInv, ClockTypes, Reading, HalfSet, Synced, Writing, Written, Trusted
    <2>5. CASE chip' = ChipTime(buff) /\ wday' = buff[4] /\ right' = (chip' = asked) /\ UNCHANGED write_failed
      <3>1. chip' = asked /\ wday' = Weekday(asked.date) /\ right' = TRUE
        BY <2>3, <2>5
      <3>2. wday' \in 1..7
        BY <2>2, <3>1, WeekdayType
      <3> QED BY <2>1, <2>2, <2>5, <3>1, <3>2
              DEF ClockInv, ClockTypes, Reading, HalfSet, Synced, Writing, Written, Trusted
    <2> QED BY <2>1, <2>4, <2>5
  <1>3. CASE ClearOsf
    BY <1>3 DEF ClearOsf, ClockGoto, ClockInv, ClockTypes, Reading, HalfSet, Synced, Writing, Written, Trusted
  <1> QED BY <1>1, <1>2, <1>3 DEF DateSet

\* The DS3231 knows a century, whose last year is 2099: the theorems are about the time
\* until then.
LEMMA ClockInvariance == ClockSpec /\ [](InCentury(chip.date)) => []ClockInv
  <1>1. ClockInv /\ InCentury(chip.date)' /\ [ClockNext]_clockVars => ClockInv'
    <2> SUFFICES ASSUME ClockInv, InCentury(chip.date)', [ClockNext]_clockVars PROVE ClockInv'
      OBVIOUS
    <2>1. CASE UNCHANGED clockVars
      BY <2>1 DEF clockVars, chipVars, ClockInv, ClockTypes, Reading, HalfSet, Synced, Writing, Written, Trusted
    <2> QED BY <2>1, TickKeeps, StopsKeep, SyncKeeps, DateSetKeeps DEF ClockNext
  <1> QED BY <1>1, ClockStarts, PTL DEF ClockSpec

\* A sync sets the processor's clock to the time of the DS3231, unless time goes on between
\* its reading and its setting, and is refused in December only (ds3231_sync).
THEOREM SyncIsRightHolds == ClockSpec /\ [](InCentury(chip.date)) => []SyncIsRight
  BY ClockInvariance, Refused, PTL

\* A clock that has not reported a stop shows the time that was set, and the right day of
\* the week after any number of midnights, unless writing the time has failed (ds3231_date).
THEOREM ClockIsTrustedHolds == ClockSpec /\ [](InCentury(chip.date)) => []ClockIsTrusted
  BY ClockInvariance, Trust, PTL

-----------------------------------------------------------------------------
\* The SPI driver.

Ahead(c) == \/ xfer_at = "take_tx" /\ c \in Used(kind)
            \/ xfer_at = "take_rx" /\ c = "rx"

\* The counts of a channel, that of the interrupt still to come included: one more than
\* at rest as long as the transfer has not tried to take its own.
Counted(c) == dma_sem[c] + (IF c \in dma_run THEN 1 ELSE 0)
CountsKept == \A c \in Channels : Counted(c) <= IF Ahead(c) THEN 2 ELSE 1

SpiTypes == /\ kind \in {"send", "recv", "both"}
            /\ dma_run \subseteq Channels
            /\ dma_done \in [Channels -> BOOLEAN]
            /\ dma_sem \in [Channels -> Nat]
            /\ xfer_at = "take_rx" => kind # "send"

\* A channel at work is one of this transfer, and is not done.
AtWork == /\ \A c \in dma_run : c \in Used(kind) /\ ~dma_done[c]
          /\ xfer_at = "idle" => dma_run = {}

DmaInv == SpiTypes /\ AtWork /\ CountsKept

LEMMA SpiBegins == SpiInit => DmaInv
  BY DEF SpiInit, DmaInv, SpiTypes, AtWork, CountsKept, Counted, Ahead, Channels

LEMMA SpiStep == DmaInv /\ [SpiNext]_spiVars => DmaInv'
  <1> SUFFICES ASSUME DmaInv, [SpiNext]_spiVars PROVE DmaInv'
    OBVIOUS
  <1> USE DEF DmaInv, SpiTypes, AtWork, CountsKept, Counted, Ahead, Used
  <1>1. ASSUME NEW k \in {"send", "recv", "both"}, NEW n \in Lengths, StartDma(k, n)
        PROVE  DmaInv'
    <2>1. SpiTypes' /\ AtWork'
      BY <1>1 DEF StartDma, Channels
    <2>2. CountsKept'
      BY <1>1 DEF StartDma, Channels
    <2> QED BY <2>1, <2>2
  <1>2. ASSUME NEW k \in {"send", "recv", "both"}, NEW n \in Lengths, Poll(k, n)
        PROVE  DmaInv'
    BY <1>2 DEF Poll
  <1>3. CASE TakeTx
    <2>1. SpiTypes' /\ AtWork'
      BY <1>3 DEF TakeTx, Take, Channels
    <2>2. CountsKept'
      BY <1>3 DEF TakeTx, Take, Channels
    <2> QED BY <2>1, <2>2
  <1>4. CASE TakeRx
    <2>1. SpiTypes' /\ AtWork'
      BY <1>4 DEF TakeRx, Take, Channels
    <2>2. CountsKept'
      BY <1>4 DEF TakeRx, Take, Channels
    <2> QED BY <2>1, <2>2
  <1>5. CASE Spin
    BY <1>5 DEF Spin
  <1>6. ASSUME NEW c \in Channels, DmaIsr(c)
        PROVE  DmaInv'
    <2>1. SpiTypes' /\ AtWork'
      BY <1>6 DEF DmaIsr, Channels
    <2>2. \A d \in Channels : Counted(d)' = Counted(d)
      BY <1>6 DEF DmaIsr, Channels
    <2> QED BY <1>6, <2>1, <2>2 DEF DmaIsr
  <1>7. CASE UNCHANGED spiVars
    BY <1>7 DEF spiVars
  <1> QED BY <1>1, <1>2, <1>3, <1>4, <1>5, <1>6, <1>7 DEF SpiNext

\* When xfer returns the DMA has left the buffer, whatever waits have timed out before,
\* and the counts these leave behind stay at one (drv_spi.patch:26-59, 76-82).
THEOREM DmaHasEnded == SpiSpec => []BufferIsFree
  <1>1. DmaInv => BufferIsFree
    BY DEF DmaInv, SpiTypes, AtWork, CountsKept, Counted, Ahead, BufferIsFree
  <1> QED BY <1>1, SpiBegins, SpiStep, PTL DEF SpiSpec
=============================================================================
