------------------------------- MODULE SpiDma -------------------------------
(***************************************************************************)
(* What drv_spi.patch makes of the transfers of the SPI driver: after the  *)
(* start of the DMA the thread sleeps on the semaphore of each channel,    *)
(* for a second at most, and then spins until the channel is done; sends   *)
(* of a few words are to be polled.  The driver around the patch and the   *)
(* DMA controller are modelled from the patch.  A flag word is the set of  *)
(* its bits.                                                               *)
(***************************************************************************)
EXTENDS Naturals

CONSTANTS Lengths,       \* the lengths of messages
          spi_dma_flag   \* the bits set in instance->config->spi_dma_flag

Channels == {"tx", "rx"}
RT_DEVICE_FLAG_DMA_RX == {9}
RT_DEVICE_FLAG_DMA_TX == {11}

ASSUME LengthsAssumption == Lengths \subseteq Nat
ASSUME FlagAssumption == spi_dma_flag \subseteq RT_DEVICE_FLAG_DMA_RX \cup RT_DEVICE_FLAG_DMA_TX

VARIABLES
    xfer_at,     \* where the thread is in xfer
    kind,        \* the message has a buffer to send, one to receive into, or both
    dma_run,     \* the channels that read or write the buffer
    dma_done,
    dma_sem,
    polled       \* the length of the last send without DMA, 0 before any (history)

spiVars == <<xfer_at, kind, dma_run, dma_done, dma_sem, polled>>

\* _dma_base_channel_check
SpiInit == /\ xfer_at = "idle"
           /\ kind = "send"
           /\ dma_run = {}
           /\ dma_done = [c \in Channels |-> TRUE]
           /\ dma_sem = [c \in Channels |-> 0]
           /\ polled = 0

\* A comparison is 0 or 1.
AsWord(condition) == IF condition THEN {0} ELSE {}

\* Whether a message of n words is sent or received by DMA.
UsesDma(k, n) ==
    IF k = "send"
    THEN spi_dma_flag \cap RT_DEVICE_FLAG_DMA_TX \cap AsWord(n > 4) # {}
    ELSE RT_DEVICE_FLAG_DMA_TX \cup RT_DEVICE_FLAG_DMA_RX \subseteq spi_dma_flag

\* To receive, the clock is driven by sending.
Used(k) == IF k = "send" THEN {"tx"} ELSE Channels

StartDma(k, n) ==
    /\ xfer_at = "idle" /\ UsesDma(k, n)
    /\ xfer_at' = "take_tx"
    /\ kind' = k
    /\ dma_run' = Used(k)
    /\ dma_done' = [c \in Channels |-> IF c \in Used(k) THEN FALSE ELSE dma_done[c]]
    /\ UNCHANGED <<dma_sem, polled>>

Poll(k, n) == /\ xfer_at = "idle" /\ ~UsesDma(k, n)
              /\ polled' = IF k = "send" THEN n ELSE polled
              /\ UNCHANGED <<xfer_at, kind, dma_run, dma_done, dma_sem>>

\* rt_sem_take with a timeout, the result of which is not looked at.
Take(c, from, to) == /\ xfer_at = from /\ xfer_at' = to
                     /\ dma_sem' = [dma_sem EXCEPT ![c] = IF @ > 0 THEN @ - 1 ELSE 0]
                     /\ UNCHANGED <<kind, dma_run, dma_done, polled>>

TakeTx == Take("tx", "take_tx", IF kind = "send" THEN "spin" ELSE "take_rx")
TakeRx == Take("rx", "take_rx", "spin")

\* The two loops until the SPI and the channels are done.
Spin == /\ xfer_at = "spin" /\ xfer_at' = "idle"
        /\ \A c \in Used(kind) : dma_done[c]
        /\ UNCHANGED <<kind, dma_run, dma_done, dma_sem, polled>>

\* dma_isr, when the channel has moved the last word.
DmaIsr(c) == /\ c \in dma_run
             /\ dma_run' = dma_run \ {c}
             /\ dma_done' = [dma_done EXCEPT ![c] = TRUE]
             /\ dma_sem' = [dma_sem EXCEPT ![c] = @ + 1]
             /\ UNCHANGED <<xfer_at, kind, polled>>

SpiNext == \/ \E k \in {"send", "recv", "both"}, n \in Lengths : StartDma(k, n) \/ Poll(k, n)
           \/ TakeTx \/ TakeRx \/ Spin
           \/ \E c \in Channels : DmaIsr(c)

SpiSpec == SpiInit /\ [][SpiNext]_spiVars
-----------------------------------------------------------------------------
\* "for small packets polling is faster than dma" (drv_spi.patch:41): of the packets to
\* send, only those of up to 4 words are polled.
OnlySmallPacketsPolled == polled <= 4

\* When xfer returns no channel is at work on the buffer, although a take that timed out
\* leaves the count of its interrupt to a later transfer, which then does not wait for
\* its own; and these counts do not add up, however many takes time out.
BufferIsFree == xfer_at = "idle" => /\ dma_run = {}
                                    /\ \A c \in Channels : dma_sem[c] <= 1
=============================================================================
