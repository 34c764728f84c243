------------------------------- MODULE AuxUart -------------------------------
(***************************************************************************)
(* The uart of the target console: the line coding the host sets on port   *)
(* cdc1 (usb_cdc.c), which reopens the uart in the USB interrupt, the      *)
(* announcement of received bytes through a message queue, and the thread  *)
(* of aux_uart.c that passes them on to cdc1_write.  The driver of the     *)
(* uart is that of RT-Thread: it counts its opens, keeps the bytes until   *)
(* they are read, announces how many it holds, and drops them when the     *)
(* last user closes it.                                                    *)
(***************************************************************************)
EXTENDS Naturals, Sequences

CONSTANTS
    Rates,          \* dwDTERate of the line codings the host uses
    Formats,        \* their stop bits, parity and data bits
    EightN1,        \* 8 data bits, no parity, 1 stop bit
    NoCoding,       \* the zeros cdc_line[1] starts with
    FifoSize,       \* BSP_UART2_RX_BUFSIZE
    QueueSize,      \* how many messages MSG_POOL_SIZE holds
    MaxUartBytes    \* bound on the bytes the target sends

Codings == [rate : Rates, format : Formats]

ASSUME CodingAssumption == EightN1 \in Formats /\ NoCoding \notin Codings
ASSUME UartSizesAssumption == FifoSize \in Nat \ {0} /\ QueueSize \in Nat \ {0}
ASSUME UartBytesAssumption == MaxUartBytes \in Nat

VARIABLES
    coding,         \* cdc_line[1]
    serial,         \* the device has been found
    opens,          \* the driver's count of opens
    config,         \* what the driver was last configured for, as a line coding
    indicates,      \* uart_input is the driver's receive callback
    set_failed,     \* the last cdc1_set_speed returned early (history)
    fifo,           \* bytes in the driver, oldest first: the numbers the target gave them
    received,       \* the last byte the target has sent to an open uart
    mq_ready,       \* rt_mq_init has been called
    rx_mq,          \* sizes announced and not yet taken
    uart_at,        \* where aux_uart_init is, and then the thread it starts
    msg_size,       \* msg.size of the thread
    rx_last,        \* the last byte in rx_buffer, 0 if nothing was read
    to_host,        \* the last byte given to cdc1_write
    unannounced,    \* the announcement of the latest byte was dropped (history)
    uart_lost       \* the driver has dropped a byte (history)

codingVars == <<coding, serial, opens, config, indicates, set_failed>>
rxVars == <<fifo, received, mq_ready, rx_mq, unannounced, uart_lost>>
threadVars == <<uart_at, msg_size, rx_last, to_host>>
uartVars == <<codingVars, rxVars, threadVars>>

UartInit == /\ coding = NoCoding /\ config = NoCoding
            /\ serial = FALSE /\ opens = 0 /\ indicates = FALSE /\ set_failed = FALSE
            /\ fifo = <<>> /\ received = 0
            /\ mq_ready = FALSE /\ rx_mq = <<>>
            /\ uart_at = "find"
            /\ msg_size = 0 /\ rx_last = 0 /\ to_host = 0
            /\ unannounced = FALSE /\ uart_lost = FALSE

UartGoto(from, to) == uart_at = from /\ uart_at' = to
-----------------------------------------------------------------------------
\* aux_uart_init.  The USB interrupt runs already: usbd_app_init is of an earlier
\* initialisation level, so the host may set a line coding between any two steps.

FindUart == /\ \/ UartGoto("find", "mq") /\ serial' = TRUE
               \/ UartGoto("find", "off") /\ UNCHANGED serial
            /\ UNCHANGED <<coding, opens, config, indicates, set_failed, rxVars,
                           msg_size, rx_last, to_host>>

InitQueue == /\ UartGoto("mq", "open")
             /\ mq_ready' = TRUE
             /\ UNCHANGED <<codingVars, fifo, received, rx_mq, unannounced, uart_lost,
                            msg_size, rx_last, to_host>>

\* The result of rt_device_open is not looked at.
InitOpen == /\ UartGoto("open", "indicate")
            /\ opens' \in {opens, opens + 1}
            /\ UNCHANGED <<coding, serial, config, indicates, set_failed, rxVars,
                           msg_size, rx_last, to_host>>

\* rt_device_set_rx_indicate, and the thread, for which there may be no memory.
StartThread == /\ UartGoto("indicate", "recv") \/ UartGoto("indicate", "off")
               /\ indicates' = TRUE
               /\ UNCHANGED <<coding, serial, opens, config, set_failed, rxVars,
                              msg_size, rx_last, to_host>>
-----------------------------------------------------------------------------
\* The USB interrupt.

Closed == IF serial /\ opens > 0 THEN opens - 1 ELSE opens

\* Mutant of SetSpeed: the uart is opened only the first time.
SetSpeedOpensOnce(rate) ==
    \E failing \in {"find", "config", "open", "indicate", "none"} :
        /\ failing = "find" => ~serial
        /\ serial' = (serial \/ failing # "find")
        /\ config' = IF failing \in {"find", "config"} THEN config
                     ELSE [rate |-> rate, format |-> EightN1]
        /\ opens' = IF failing \in {"indicate", "none"} /\ ~serial THEN Closed + 1 ELSE Closed
        /\ fifo' = IF Closed = 0 THEN <<>> ELSE fifo
        /\ uart_lost' = (uart_lost \/ fifo' # fifo)
        /\ indicates' = (indicates \/ failing = "none")
        /\ set_failed' = (failing # "none")

\* cdc1_set_speed, up to the call that fails or to its end: close or find, configure,
\* open, set the callback.  It is told of the rate only, and sets 8N1.
SetSpeed(rate) ==
    \E failing \in {"find", "config", "open", "indicate", "none"} :
        /\ failing = "find" => ~serial
        /\ serial' = (serial \/ failing # "find")
        /\ config' = IF failing \in {"find", "config"} THEN config
                     ELSE [rate |-> rate, format |-> EightN1]
        /\ opens' = IF failing \in {"indicate", "none"} THEN Closed + 1 ELSE Closed
        /\ fifo' = IF Closed = 0 THEN <<>> ELSE fifo
        /\ uart_lost' = (uart_lost \/ fifo' # fifo)
        /\ indicates' = (indicates \/ failing = "none")
        /\ set_failed' = (failing # "none")

\* usbd_cdc_acm_set_line_coding acts on a coding that differs from the one it has
\* stored in rate or format, stores all of it, whether or not cdc1_set_speed succeeds,
\* and passes the rate on.
SetLineCoding(c) == /\ c # coding
                    /\ coding' = c
                    /\ SetSpeed(c.rate)
                    /\ UNCHANGED <<received, mq_ready, rx_mq, unannounced, threadVars>>

\* The interrupt of the uart: a byte that finds room in the driver, and uart_input,
\* which posts the number of bytes the driver holds, or fails if the queue is full.
UartInput == /\ opens > 0
             /\ received < MaxUartBytes
             /\ received' = received + 1
             /\ IF Len(fifo) < FifoSize
                THEN fifo' = Append(fifo, received') /\ UNCHANGED uart_lost
                ELSE uart_lost' = TRUE /\ UNCHANGED fifo
             /\ IF indicates /\ mq_ready /\ Len(rx_mq) < QueueSize
                THEN rx_mq' = Append(rx_mq, Len(fifo')) /\ unannounced' = FALSE
                ELSE unannounced' = TRUE /\ UNCHANGED rx_mq
             /\ UNCHANGED <<codingVars, mq_ready, threadVars>>
-----------------------------------------------------------------------------
\* aux_uart_thread

TakeMessage == /\ rx_mq # <<>>
               /\ UartGoto("recv", "read")
               /\ msg_size' = Head(rx_mq)
               /\ rx_mq' = Tail(rx_mq)
               /\ UNCHANGED <<codingVars, fifo, received, mq_ready, unannounced, uart_lost,
                              rx_last, to_host>>

\* Mutant of ReadUart: one byte for each message.
ReadOneByte == /\ UartGoto("read", "write")
               /\ rx_last' = IF fifo = <<>> THEN 0 ELSE fifo[1]
               /\ fifo' = IF fifo = <<>> THEN fifo ELSE Tail(fifo)
               /\ UNCHANGED <<codingVars, received, mq_ready, rx_mq, unannounced, uart_lost,
                              msg_size, to_host>>

\* rt_device_read gives what was announced, or less if a close has emptied the driver
\* or an earlier message has taken it.
ReadUart == LET n == IF msg_size < Len(fifo) THEN msg_size ELSE Len(fifo)
            IN /\ UartGoto("read", "write")
               /\ rx_last' = IF n = 0 THEN 0 ELSE fifo[n]
               /\ fifo' = SubSeq(fifo, n + 1, Len(fifo))
               /\ UNCHANGED <<codingVars, received, mq_ready, rx_mq, unannounced, uart_lost,
                              msg_size, to_host>>

\* cdc1_write, of a buffer that is not empty (CdcTransmit has its steps).
WriteHost == /\ UartGoto("write", "recv")
             /\ to_host' = IF rx_last > 0 THEN rx_last ELSE to_host
             /\ UNCHANGED <<codingVars, rxVars, msg_size, rx_last>>

UartThread == TakeMessage \/ ReadUart \/ WriteHost

UartBoot == FindUart \/ InitQueue \/ InitOpen \/ StartThread

UartNext == \/ UartBoot
            \/ \E c \in Codings : SetLineCoding(c)
            \/ UartInput
            \/ UartThread

UartSpec == UartInit /\ [][UartNext]_uartVars
-----------------------------------------------------------------------------
UartTypeOK == /\ {coding, config} \subseteq Codings \cup {NoCoding}
              /\ {serial, indicates, set_failed, mq_ready, unannounced, uart_lost}
                     \subseteq BOOLEAN
              /\ opens \in Nat
              /\ fifo \in Seq(Nat) /\ Len(fifo) <= FifoSize
              /\ rx_mq \in Seq(0..FifoSize) /\ Len(rx_mq) <= QueueSize
              /\ uart_at \in {"find", "mq", "open", "indicate", "recv", "read", "write", "off"}
              /\ {received, msg_size, rx_last, to_host} \subseteq Nat

\* Unless the last cdc1_set_speed failed, the uart has the rate of the line coding the
\* host has stored, is open, and has its callback in place: wherever the host's requests
\* fall in aux_uart_init, and however often they reopen the uart.  Its format is 8N1 and
\* not the one the host has asked for and reads back.
SpeedIsTheHosts ==
    coding # NoCoding /\ ~set_failed => /\ config = [rate |-> coding.rate, format |-> EightN1]
                                        /\ opens > 0 /\ indicates

\* A byte of the target reaches the host, unless its announcement was dropped, the
\* driver has dropped bytes, or there is no thread.
TargetReachesHost ==
    \A b \in 1..MaxUartBytes :
        received >= b ~> to_host >= b \/ unannounced \/ uart_lost \/ uart_at = "off"
=============================================================================
