----------------------------- MODULE CdcReceive -----------------------------
(***************************************************************************)
(* The receiving half of one USB serial port of usb_cdc.c: the OUT         *)
(* endpoint, the flag cdcX_read_busy and the ring buffer between the USB   *)
(* interrupt, which puts packets into the ring, and the threads that take  *)
(* bytes out of it.  The host numbers its bytes 1, 2, 3, ...  A step of the *)
(* interrupt may come between any two steps of a thread; the thread's test *)
(* of busy, its test of the ring, the start of the read and the store of   *)
(* busy are steps of their own.                                            *)
(***************************************************************************)
EXTENDS Naturals, Sequences

CONSTANTS
    Consumers,    \* the threads that read from the port
    MPS,          \* CDC_MAX_MPS, the size of a packet and half that of the ring
    GetLengths,   \* the lengths the threads ask for; 1 is cdcX_getchar
    MaxBytes,     \* bound on the bytes the host sends
    HostToggles   \* whether the host may change dtr and reset the bus

ASSUME MpsAssumption == MPS \in Nat \ {0}
ASSUME GetAssumption == GetLengths \subseteq Nat
ASSUME MaxBytesAssumption == MaxBytes \in Nat
ASSUME TogglesAssumption == HostToggles \in BOOLEAN

VARIABLES
    ep_open,   \* the USB core has opened the endpoint (SET_CONFIGURATION)
    armed,     \* a read is under way: the endpoint takes the next packet
    busy,      \* cdc0_read_busy or cdc1_read_busy
    ring,      \* cdc0_read_rb or cdc1_read_rb, oldest byte first
    pc,        \* where each consumer is in cdcX_get or cdcX_getchar
    sent,      \* the last byte the host has sent
    last,      \* the last byte that has left the ring
    lost       \* whether a full ring made rt_ringbuffer_put drop a byte

vars == <<ep_open, armed, busy, ring, pc, sent, last, lost>>
epVars == <<ep_open, armed, busy>>
dataVars == <<ring, sent, last, lost>>

Locations == {"idle", "test_busy", "test_space", "start_read", "set_busy"}

Size == 2 * MPS
Space == Size - Len(ring)
Bytes(from, n) == [i \in 1..n |-> from + i - 1]

Init == /\ ep_open = FALSE
        /\ armed = FALSE
        /\ busy = FALSE
        /\ ring = <<>>
        /\ pc = [c \in Consumers |-> "idle"]
        /\ sent = 0
        /\ last = 0
        /\ lost = FALSE
-----------------------------------------------------------------------------
\* cdcX_get and cdcX_getchar, from a thread.

Goto(c, from, to) == /\ pc[c] = from
                     /\ pc' = [pc EXCEPT ![c] = to]

\* rt_ringbuffer_get(rb, buf, n): at most n bytes, the oldest ones.
Get(c, n) == LET k == IF n < Len(ring) THEN n ELSE Len(ring)
             IN /\ Goto(c, "idle", "test_busy")
                /\ ring' = SubSeq(ring, k + 1, Len(ring))
                /\ last' = IF k = 0 THEN last ELSE ring[k]
                /\ UNCHANGED <<epVars, sent, lost>>

TestBusy(c) == /\ Goto(c, "test_busy", IF busy THEN "idle" ELSE "test_space")
               /\ UNCHANGED <<epVars, dataVars>>

TestSpace(c) == /\ Goto(c, "test_space", IF Space >= MPS THEN "start_read" ELSE "idle")
                /\ UNCHANGED <<epVars, dataVars>>

\* usbd_ep_start_read: a closed endpoint refuses (the error is ignored).
StartRead(c) == /\ Goto(c, "start_read", "set_busy")
                /\ armed' = ep_open
                /\ UNCHANGED <<ep_open, busy, dataVars>>

SetBusy(c) == /\ Goto(c, "set_busy", "idle")
              /\ busy' = TRUE
              /\ UNCHANGED <<ep_open, armed, dataVars>>

Rearm(c) == TestBusy(c) \/ TestSpace(c) \/ StartRead(c) \/ SetBusy(c)
-----------------------------------------------------------------------------
\* The USB interrupt.

\* rt_ringbuffer_put(rb, buf, n): what does not fit is dropped.
PutPacket(n) == LET k == IF n < Space THEN n ELSE Space
                IN /\ ring' = ring \o Bytes(sent + 1, k)
                   /\ sent' = sent + n
                   /\ lost' = (lost \/ k < n)

\* Mutants of BulkOut: busy keeps its value when the ring is too full for another
\* packet; the next read is started with any space at all.
BulkOutStaysBusy(n) == /\ armed
                       /\ sent + n <= MaxBytes
                       /\ PutPacket(n)
                       /\ armed' = (Space' >= MPS)
                       /\ UNCHANGED <<ep_open, busy, pc, last>>

BulkOutAnySpace(n) == /\ armed
                      /\ sent + n <= MaxBytes
                      /\ PutPacket(n)
                      /\ armed' = (Space' > 0)
                      /\ busy' = (Space' > 0)
                      /\ UNCHANGED <<ep_open, pc, last>>

\* usbd_cdcX_acm_bulk_out with a packet of n bytes.
BulkOut(n) == /\ armed
              /\ sent + n <= MaxBytes
              /\ PutPacket(n)
              /\ armed' = (Space' >= MPS)
              /\ busy' = (Space' >= MPS)
              /\ UNCHANGED <<ep_open, pc, last>>

\* cdcX_next_read, called by the interrupt for dtr and for SET_CONFIGURATION
\* without a look at the ring.
SetDtr == /\ HostToggles
          /\ ep_open
          /\ armed' = TRUE
          /\ busy' = TRUE
          /\ UNCHANGED <<ep_open, pc, dataVars>>

Configured == /\ ~ep_open
              /\ ep_open' = TRUE
              /\ armed' = TRUE
              /\ busy' = TRUE
              /\ UNCHANGED <<pc, dataVars>>

\* Mutant of BusReset: the ring keeps the bytes of before the reset.
BusResetKeepsRing == /\ HostToggles
                     /\ ep_open
                     /\ ep_open' = FALSE
                     /\ armed' = FALSE
                     /\ busy' = FALSE
                     /\ last' = sent
                     /\ UNCHANGED <<pc, ring, sent, lost>>

\* USBD_EVENT_RESET: the controller drops the read, cdc_reset clears the flag and
\* the ring.
BusReset == /\ HostToggles
            /\ ep_open
            /\ ep_open' = FALSE
            /\ armed' = FALSE
            /\ busy' = FALSE
            /\ ring' = <<>>
            /\ last' = sent
            /\ UNCHANGED <<pc, sent, lost>>

Interrupt == \/ \E n \in 0..MPS : BulkOut(n)
             \/ SetDtr
             \/ Configured
             \/ BusReset

Next == \/ \E c \in Consumers : Rearm(c) \/ \E n \in GetLengths : Get(c, n)
        \/ Interrupt

Spec == Init /\ [][Next]_vars

\* Threads go on; a thread reads the port again while there are bytes in it; the
\* host configures the device.
Fairness == /\ \A c \in Consumers : WF_vars(Rearm(c))
            /\ \A c \in Consumers : WF_vars(ring # <<>> /\ \E n \in GetLengths : Get(c, n))
            /\ WF_vars(Configured)

FairSpec == Spec /\ Fairness
-----------------------------------------------------------------------------
TypeOK == /\ ep_open \in BOOLEAN
          /\ armed \in BOOLEAN
          /\ busy \in BOOLEAN
          /\ ring \in Seq(Nat)
          /\ Len(ring) <= Size
          /\ pc \in [Consumers -> Locations]
          /\ sent \in Nat
          /\ last \in Nat
          /\ lost \in BOOLEAN

\* Whatever is dropped or discarded on the way, the bytes of the ring are later
\* than all that have left it and in the order the host sent them: nothing is
\* delivered twice, out of order, or from before a bus reset.
InOrder == /\ last <= sent
           /\ \A i \in 1..Len(ring) : last < ring[i] /\ ring[i] <= sent
           /\ \A i, j \in 1..Len(ring) : i < j => ring[i] < ring[j]

\* A configured port with room for a packet, no read under way and the flag clear
\* has a consumer on its way to start the next read: between the interrupt's
\* decision not to and the consumer's, the re-arming is not forgotten.
WillRearm(c) == pc[c] \in {"test_busy", "test_space", "start_read"}
RearmNotForgotten ==
    ep_open /\ ~armed /\ ~busy /\ Space >= MPS => \E c \in Consumers : WillRearm(c)

\* busy says that a read is under way when none is: no thread will start one.
Wedged == ep_open /\ busy /\ ~armed

\* The only step that can leave the port wedged is the store "busy = true" of a
\* thread whose read the interrupt has already completed.  No interrupt, however
\* it falls between two steps of a thread, does it by itself.
WedgedByLateStoreOnly ==
    [][~Wedged /\ Wedged' => \E c \in Consumers : pc[c] = "set_busy" /\ pc'[c] = "idle"]_vars

\* "schedule next usb read": a configured port with room for a packet gets a read
\* again.
ReadScheduled == ep_open /\ Space >= MPS ~> armed \/ ~ep_open
=============================================================================
