------------------------------ MODULE CanLogger ------------------------------
(***************************************************************************)
(* canbus.c: the receive interrupt counts messages in a semaphore, the     *)
(* thread takes one message of the driver for each count and writes it to  *)
(* port cdc1 as a line of slcan.  The driver is that of RT-Thread: a box   *)
(* of BoxSize messages that overwrites the oldest and calls the receive    *)
(* callback in any case.                                                   *)
(***************************************************************************)
EXTENDS Integers, Sequences

CONSTANTS
    Frames,    \* the messages on the bus
    BoxSize,   \* RT_CANMSG_BOX_SZ
    MaxFrames  \* bound on the number of messages

ASSUME CanAssumption == BoxSize \in Nat \ {0} /\ MaxFrames \in Nat

VARIABLES
    bus,          \* the messages received since the device was opened (history)
    box,          \* those the driver holds, oldest first
    can_rx_sem,
    rx_indicate,  \* can_rx_handler is registered
    early,        \* messages received before it was (history)
    overrun,      \* the driver has overwritten a message (history)
    boot,         \* where canbus_init is
    can_at,       \* where the thread is
    rx_msg,       \* the message of the thread, which keeps its value when a read fails
    log           \* the lines written to cdc1, oldest first

initVars == <<rx_indicate, boot>>
driverVars == <<bus, box, early, overrun>>
canVars == <<initVars, driverVars, can_rx_sem, can_at, rx_msg, log>>

Zeros == [ext |-> FALSE, rtr |-> FALSE, id |-> 0, data |-> <<>>]
-----------------------------------------------------------------------------
\* can2ascii: a letter for the kind, the identifier in 8 or 3 hexadecimal digits, the
\* length, and two digits for each byte of a data frame.  A remote frame has a length
\* and no bytes.  A line is a sequence of characters, digits being their values.

Hex(v, digits) == [i \in 1..digits |-> (v \div 16 ^ (digits - i)) % 16]

Letter(m) == IF m.rtr THEN IF m.ext THEN "R" ELSE "r"
                      ELSE IF m.ext THEN "T" ELSE "t"

HexBytes(data) == [i \in 1..2 * Len(data) |-> Hex(data[(i + 1) \div 2], 2)[2 - (i % 2)]]

\* Mutant of Ascii: a remote frame has its bytes written too.
AsciiWithBytes(m) == <<Letter(m)>> \o Hex(m.id, IF m.ext THEN 8 ELSE 3)
                         \o <<Len(m.data)>> \o HexBytes(m.data)

Ascii(m) == <<Letter(m)>> \o Hex(m.id, IF m.ext THEN 8 ELSE 3)
                \o <<Len(m.data)>> \o (IF m.rtr THEN <<>> ELSE HexBytes(m.data))
-----------------------------------------------------------------------------
CanInit == /\ bus = <<>> /\ box = <<>> /\ early = 0 /\ overrun = FALSE
           /\ can_rx_sem = 0
           /\ rx_indicate = FALSE
           /\ boot = "open"
           /\ can_at = "none"
           /\ rx_msg = Zeros
           /\ log = <<>>

Boot(from, to) == boot = from /\ boot' = to

\* canbus_init: the device may be missing or refuse to open, the thread is started,
\* the mode is set, and the callback is registered last.
OpenCan == /\ Boot("open", "thread") \/ Boot("open", "failed")
           /\ UNCHANGED <<rx_indicate, driverVars, can_rx_sem, can_at, rx_msg, log>>

StartCanThread == /\ Boot("thread", "indicate")
                  /\ can_at' \in {"none", "take"}
                  /\ UNCHANGED <<rx_indicate, driverVars, can_rx_sem, rx_msg, log>>

RegisterHandler == /\ Boot("indicate", "done")
                   /\ rx_indicate' = TRUE
                   /\ UNCHANGED <<driverVars, can_rx_sem, can_at, rx_msg, log>>

CanBoot == OpenCan \/ StartCanThread \/ RegisterHandler

\* The interrupt: the driver stores the message, over the oldest one if it must, and
\* calls can_rx_handler, which releases the semaphore.
CanReceive(m) ==
    /\ boot \in {"thread", "indicate", "done"}
    /\ Len(bus) < MaxFrames
    /\ bus' = Append(bus, m)
    /\ box' = IF Len(box) < BoxSize THEN Append(box, m) ELSE Append(Tail(box), m)
    /\ overrun' = (overrun \/ Len(box) = BoxSize)
    /\ early' = IF rx_indicate THEN early ELSE early + 1
    /\ can_rx_sem' = IF rx_indicate THEN can_rx_sem + 1 ELSE can_rx_sem
    /\ UNCHANGED <<initVars, can_at, rx_msg, log>>

CanGoto(from, to) == can_at = from /\ can_at' = to

\* can_rx_thread
TakeSem == /\ can_rx_sem > 0
           /\ CanGoto("take", "read")
           /\ can_rx_sem' = can_rx_sem - 1
           /\ UNCHANGED <<initVars, driverVars, rx_msg, log>>

\* rt_device_read, the result of which is not looked at.
ReadCan == /\ CanGoto("read", "write")
           /\ rx_msg' = IF box = <<>> THEN rx_msg ELSE Head(box)
           /\ box' = IF box = <<>> THEN box ELSE Tail(box)
           /\ UNCHANGED <<initVars, bus, early, overrun, can_rx_sem, log>>

WriteCan == /\ CanGoto("write", "take")
            /\ log' = Append(log, Ascii(rx_msg))
            /\ UNCHANGED <<initVars, driverVars, can_rx_sem, rx_msg>>

CanThread == TakeSem \/ ReadCan \/ WriteCan

CanNext == CanBoot \/ (\E m \in Frames : CanReceive(m)) \/ CanThread

CanSpec == CanInit /\ [][CanNext]_canVars
-----------------------------------------------------------------------------
\* What a reader of slcan makes of a line: the reference for Ascii.
Value(digits) == LET v[i \in 0..Len(digits)] == IF i = 0 THEN 0 ELSE 16 * v[i - 1] + digits[i]
                 IN v[Len(digits)]

Parsed(line) ==
    LET ext == line[1] \in {"T", "R"}
        rtr == line[1] \in {"r", "R"}
        n   == IF ext THEN 8 ELSE 3
    IN [ext |-> ext, rtr |-> rtr, id |-> Value(SubSeq(line, 2, n + 1)),
        len |-> line[n + 2],
        data |-> [i \in 1..(Len(line) - n - 2) \div 2 |->
                     Value(SubSeq(line, n + 1 + 2 * i, n + 2 + 2 * i))]]

OnTheBus(m) == [ext |-> m.ext, rtr |-> m.rtr, id |-> m.id, len |-> Len(m.data),
                data |-> IF m.rtr THEN <<>> ELSE m.data]

\* Unless the driver has overwritten a message, the log is what was on the bus, each
\* message once and in order; and when the thread has done all its counts, the log
\* lacks only the last messages, as many as came before the callback was registered:
\* their number is never made up.
LogIsTheBus ==
    ~overrun =>
        /\ Len(log) <= Len(bus)
        /\ \A i \in 1..Len(log) : Parsed(log[i]) = OnTheBus(bus[i])
        /\ can_at = "take" /\ can_rx_sem = 0 => Len(log) = Len(bus) - early
=============================================================================
