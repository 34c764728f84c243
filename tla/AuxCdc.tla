------------------------------- MODULE AuxCdc -------------------------------
(***************************************************************************)
(* The way of the console input from the host to the target: the receiving *)
(* half of port cdc1 (CdcReceive), the event its interrupt sends, the      *)
(* thread of aux_cdc.c that waits for the event and copies bytes to the    *)
(* uart, and the rtt console of the debugger, which reads the same port    *)
(* while rtt is enabled.                                                   *)
(***************************************************************************)
EXTENDS CdcReceive

CONSTANTS
    AuxThread,   \* the thread "aux cdc"
    RttThread,   \* the thread that runs the rtt console
    AuxLength    \* sizeof(rx_buffer) of aux_cdc.c

ASSUME ConsumersAssumption ==
    Consumers = {AuxThread, RttThread} /\ AuxThread # RttThread
ASSUME LengthsAssumption == AuxLength \in GetLengths \ {0} /\ 1 \in GetLengths

VARIABLES
    event,         \* EVENT_CDC1_RX is set in cdc_event
    aux,           \* where the thread is in aux_cdc_thread
    chunk,         \* the last byte of what cdc1_get has put in rx_buffer, or 0
    uart_out,      \* the last byte sent to the uart
    rtt_enabled,
    rtt_since,     \* the last byte the host had sent when rtt was switched
    disturbed      \* rtt was switched, dtr set or the bus reset (history)

auxVars == <<event, aux, chunk, uart_out>>
rttVars == <<rtt_enabled, rtt_since, disturbed>>
allVars == <<vars, auxVars, rttVars>>

AuxInit == /\ Init
           /\ event = FALSE
           /\ aux = "wait"
           /\ chunk = 0
           /\ uart_out = 0
           /\ rtt_enabled = FALSE
           /\ rtt_since = 0
           /\ disturbed = FALSE

AuxGoto(from, to) == aux = from /\ aux' = to

\* cdc1_wait_for_char: rt_event_recv, which clears the event.
WaitForChar == /\ event
               /\ AuxGoto("wait", "test_rtt")
               /\ event' = FALSE
               /\ UNCHANGED <<vars, chunk, uart_out, rttVars>>

TestRtt == /\ AuxGoto("test_rtt", IF rtt_enabled THEN "wait" ELSE "test_empty")
           /\ UNCHANGED <<vars, event, chunk, uart_out, rttVars>>

\* The loop "while (!cdc1_recv_empty())".
TestEmpty == /\ AuxGoto("test_empty", IF ring = <<>> THEN "wait" ELSE "get")
             /\ UNCHANGED <<vars, event, chunk, uart_out, rttVars>>

AuxGet == /\ AuxGoto("get", "in_get")
          /\ Get(AuxThread, AuxLength)
          /\ chunk' = IF ring = <<>> THEN 0 ELSE last'
          /\ UNCHANGED <<event, uart_out, rttVars>>

AuxRearm == /\ Rearm(AuxThread)
            /\ UNCHANGED <<auxVars, rttVars>>

\* Mutant of AuxSend: "if" instead of "while".
AuxSendOnce == /\ pc[AuxThread] = "idle"
               /\ AuxGoto("in_get", "wait")
               /\ uart_out' = IF chunk > 0 THEN chunk ELSE uart_out
               /\ UNCHANGED <<vars, event, chunk, rttVars>>

\* cdc1_get has returned: aux_uart_send what it has read, if anything.
AuxSend == /\ pc[AuxThread] = "idle"
           /\ AuxGoto("in_get", "test_empty")
           /\ uart_out' = IF chunk > 0 THEN chunk ELSE uart_out
           /\ UNCHANGED <<vars, event, chunk, rttVars>>

AuxStep == WaitForChar \/ TestRtt \/ TestEmpty \/ AuxGet \/ AuxRearm \/ AuxSend

\* The rtt console polls the port with cdc1_getchar while rtt is enabled, and the
\* user enables and disables rtt from the debugger.
RttStep == /\ \/ rtt_enabled /\ Get(RttThread, 1)
              \/ Rearm(RttThread)
           /\ UNCHANGED <<auxVars, rttVars>>

SetRtt(on) == /\ rtt_enabled # on
              /\ rtt_enabled' = on
              /\ rtt_since' = sent
              /\ disturbed' = TRUE
              /\ UNCHANGED <<vars, auxVars>>

\* Mutant of SendEvent: the event is for full packets only.
SendEventFull(n) == event' = (event \/ n = MPS)

\* bulk_out sends the event for a packet that is not empty.
SendEvent(n) == event' = (event \/ n > 0)

AuxInterrupt == /\ \/ \E n \in 0..MPS : BulkOut(n) /\ SendEvent(n) /\ UNCHANGED disturbed
                   \/ Configured /\ UNCHANGED <<event, disturbed>>
                   \/ (SetDtr \/ BusReset) /\ disturbed' = TRUE /\ UNCHANGED event
                /\ UNCHANGED <<aux, chunk, uart_out, rtt_enabled, rtt_since>>

AuxNext == \/ AuxStep
           \/ RttStep
           \/ \E on \in BOOLEAN : SetRtt(on)
           \/ AuxInterrupt

AuxSpec == AuxInit /\ [][AuxNext]_allVars

\* The thread runs whenever it is not waiting for the event.
AuxFairSpec == AuxSpec /\ WF_allVars(AuxStep)
-----------------------------------------------------------------------------
AuxLocations == {"wait", "test_rtt", "test_empty", "get", "in_get"}

AuxTypeOK == /\ TypeOK
             /\ event \in BOOLEAN
             /\ aux \in AuxLocations
             /\ chunk \in Nat
             /\ uart_out \in Nat
             /\ rtt_enabled \in BOOLEAN
             /\ rtt_since \in Nat
             /\ disturbed \in BOOLEAN

\* The flow control works for one reader: a read is only ever started with room
\* for a whole packet, so no byte of the host is dropped, until rtt is switched on
\* or the host sets dtr or resets the bus.
NoLoss == ~disturbed => ~lost

\* No wake-up is lost: as long as rtt has not been on since the host began to send,
\* bytes in the ring keep the event set or the thread on its way to look at the ring
\* again, whatever the host does to dtr and to the bus.
RttWasOff == ~rtt_enabled /\ rtt_since = 0
InputAnnounced == ring # <<>> /\ RttWasOff => event \/ aux # "wait"

\* What the host sends reaches the uart, once it has reached the ring, unless rtt
\* is switched or the host sets dtr or resets the bus.
InputReachesUart ==
    \A b \in 1..MaxBytes : sent >= b ~> uart_out >= b \/ disturbed
=============================================================================
