--------------------------- MODULE GetcharTimeout ---------------------------
(***************************************************************************)
(* cdc0_getchar_timeout of usb_cdc.c, with which the gdb server reads port *)
(* cdc0 (CdcReceive): two looks at the ring, and between them a wait on    *)
(* cdc0_wqueue, which the interrupt wakes, in slices of 100 ticks.  The    *)
(* wait queue is that of RT-Thread: a wake-up leaves a flag behind, with   *)
(* which the next wait ends at once, and the end of a wait clears it.      *)
(***************************************************************************)
EXTENDS CdcReceive

CONSTANTS
    GdbThread,   \* the thread that reads port cdc0
    Timeouts     \* the values of timeout_ticks, in slices

ASSUME GdbAssumption == Consumers = {GdbThread} /\ 1 \in GetLengths
ASSUME TimeoutsAssumption == Timeouts \subseteq Nat

VARIABLES
    gdb,           \* where the thread is in cdc0_getchar_timeout
    woken,         \* the flag of cdc0_wqueue
    timeout_ticks,
    t,             \* the loop counter, in slices
    len,           \* the last look has found a character
    slept,         \* slices that have passed asleep (history)
    stale,         \* the flag was set when the call found nothing (history)
    cleared        \* a bus reset has emptied the ring since the call (history)

gdbVars == <<gdb, woken, timeout_ticks, t, len, slept, stale, cleared>>
portVars == <<vars, gdbVars>>

GdbInit == /\ Init
           /\ gdb = "none" /\ woken = FALSE
           /\ timeout_ticks = 0 /\ t = 0 /\ len = FALSE
           /\ slept = 0 /\ stale = FALSE /\ cleared = FALSE

GdbGoto(from, to) == gdb = from /\ gdb' = to

\* The first look.
GetChar(n) == /\ GdbGoto("none", "rearm")
              /\ Get(GdbThread, 1)
              /\ timeout_ticks' = n /\ t' = 0
              /\ len' = (ring # <<>>)
              /\ slept' = 0 /\ stale' = woken /\ cleared' = FALSE
              /\ UNCHANGED woken

\* "schedule next usb read", after each look.
GdbRearm == Rearm(GdbThread) /\ UNCHANGED gdbVars

\* "use character from ringbuffer", or wait for one.
FirstLook == /\ pc[GdbThread] = "idle"
             /\ GdbGoto("rearm", IF len THEN "none" ELSE "test")
             /\ UNCHANGED <<vars, woken, timeout_ticks, t, len, slept, stale, cleared>>

\* The condition of the for loop.
TestLoop == /\ GdbGoto("test", IF t < timeout_ticks /\ ring = <<>> THEN "wait" ELSE "get")
            /\ UNCHANGED <<vars, woken, timeout_ticks, t, len, slept, stale, cleared>>

\* rt_wqueue_wait: to sleep, unless there has been a wake-up.
WqueueWait == /\ GdbGoto("wait", IF woken THEN "awake" ELSE "asleep")
              /\ UNCHANGED <<vars, woken, timeout_ticks, t, len, slept, stale, cleared>>

SliceEnds == /\ GdbGoto("asleep", "awake")
             /\ slept' = slept + 1
             /\ UNCHANGED <<vars, woken, timeout_ticks, t, len, stale, cleared>>

WaitReturns == /\ GdbGoto("awake", "test")
               /\ woken' = FALSE
               /\ t' = t + 1
               /\ UNCHANGED <<vars, timeout_ticks, len, slept, stale, cleared>>

\* The second look, and the return with or without a character.
GetAgain == /\ GdbGoto("get", "rearm_again")
            /\ Get(GdbThread, 1)
            /\ len' = (ring # <<>>)
            /\ UNCHANGED <<woken, timeout_ticks, t, slept, stale, cleared>>

SecondLook == /\ pc[GdbThread] = "idle"
              /\ GdbGoto("rearm_again", "none")
              /\ UNCHANGED <<vars, woken, timeout_ticks, t, len, slept, stale, cleared>>

GdbThreadStep == \/ GdbRearm \/ FirstLook \/ TestLoop \/ WqueueWait \/ SliceEnds
                 \/ WaitReturns \/ GetAgain \/ SecondLook

\* Mutant of Wake: for full packets only.
WakeForFull(n) == IF n = MPS
                  THEN woken' = TRUE /\ gdb' = IF gdb = "asleep" THEN "awake" ELSE gdb
                  ELSE UNCHANGED <<woken, gdb>>

\* usbd_cdc0_acm_bulk_out wakes the thread with a packet that is not empty.
Wake(n) == IF n > 0
           THEN woken' = TRUE /\ gdb' = IF gdb = "asleep" THEN "awake" ELSE gdb
           ELSE UNCHANGED <<woken, gdb>>

GdbInterrupt == \/ \E n \in 0..MPS : /\ BulkOut(n) /\ Wake(n)
                                     /\ UNCHANGED <<timeout_ticks, t, len, slept, stale, cleared>>
                \/ (SetDtr \/ Configured) /\ UNCHANGED gdbVars
                \/ /\ BusReset
                   /\ cleared' = TRUE
                   /\ UNCHANGED <<gdb, woken, timeout_ticks, t, len, slept, stale>>

GdbNext == GdbThreadStep \/ (\E n \in Timeouts : GetChar(n)) \/ GdbInterrupt

GdbSpec == GdbInit /\ [][GdbNext]_portVars
-----------------------------------------------------------------------------
GdbTypeOK == /\ TypeOK
             /\ gdb \in {"none", "rearm", "test", "wait", "asleep", "awake", "get", "rearm_again"}
             /\ {woken, len, stale, cleared} \subseteq BOOLEAN
             /\ {timeout_ticks, t, slept} \subseteq Nat

\* The thread never sleeps with a character in the ring, although the packet may come
\* between its test of the ring and its sleep; and a call gives up before its time only
\* if it took the wake-up of bytes that an earlier call has read for one of its own, or
\* if a bus reset has discarded the bytes it was woken for.
TimeoutIsEarned ==
    /\ gdb = "asleep" => ring = <<>>
    /\ gdb = "none" /\ ~len => slept >= timeout_ticks \/ stale \/ cleared
=============================================================================
