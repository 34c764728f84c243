---------------------------- MODULE CdcTransmit ----------------------------
(***************************************************************************)
(* The host-bound half of the two USB serial ports of usb_cdc.c.  Threads  *)
(* call cdc0_write and cdc1_write; the endpoint callbacks, the bus reset   *)
(* and the control requests run in the USB interrupt, so each of them is   *)
(* one step that may come between any two steps of a thread.  Both ports   *)
(* share one pair of semaphores: ep_write_sem admits one caller at a time, *)
(* cdc_tx_busy_sem tells that caller that its transfer has completed.      *)
(***************************************************************************)
EXTENDS Naturals, Sequences

CONSTANTS
    Writers,     \* the threads that write: gdb server, uart, can, debug log
    Port,        \* the port each of them writes to
    MPS,         \* CDC_MAX_MPS, the size of a full packet
    Lengths      \* the message lengths considered

Ports == {0, 1}

ASSUME WriterAssumption == Port \in [Writers -> Ports]
ASSUME MpsAssumption == MPS \in Nat \ {0}
ASSUME LengthAssumption == Lengths \subseteq Nat

VARIABLES
    cdc_is_configured,
    dtr,              \* cdc0_dtr and cdc1_dtr
    ep_write_sem,     \* the value of the semaphore
    ep_write_queue,   \* the threads suspended on it, first come first served
    cdc_tx_busy_sem,  \* the value; only the holder of ep_write_sem waits on it
    pc,               \* where each writer is in cdc0_write or cdc1_write
    nbytes,           \* the length of the message it writes
    ep_open,          \* the USB core has opened the endpoints (SET_CONFIGURATION)
    in_ep,            \* per port, the transfers the IN endpoint has been given
    host_partial      \* per port, the host still waits for the end of a message

deviceVars == <<cdc_is_configured, dtr, ep_open>>
semVars == <<ep_write_sem, ep_write_queue, cdc_tx_busy_sem>>
vars == <<deviceVars, semVars, pc, nbytes, in_ep, host_partial>>

Locations == {"idle", "take_ep", "wait_ep", "start_write", "take_tx", "release_ep"}

\* A transfer in an IN endpoint: whose message it belongs to and its length.
Transfers == [writer : Writers, len : Nat]
Nothing == [len |-> "none"]

InFlight(p) == in_ep[p] # Nothing

Init == /\ cdc_is_configured = FALSE
        /\ dtr = [p \in Ports |-> FALSE]
        /\ ep_write_sem = 1
        /\ ep_write_queue = <<>>
        /\ cdc_tx_busy_sem = 0
        /\ pc = [w \in Writers |-> "idle"]
        /\ nbytes = [w \in Writers |-> 0]
        /\ ep_open = FALSE
        /\ in_ep = [p \in Ports |-> Nothing]
        /\ host_partial = [p \in Ports |-> FALSE]
-----------------------------------------------------------------------------
\* usbd_ep_start_write of the USB stack: a closed endpoint refuses the transfer
\* (usb_cdc.c ignores the error), an open one takes it in place of any other.
StartWrite(p, w, n) ==
    in_ep' = IF ep_open THEN [in_ep EXCEPT ![p] = [writer |-> w, len |-> n]]
                        ELSE in_ep

Goto(w, from, to) == /\ pc[w] = from
                     /\ pc' = [pc EXCEPT ![w] = to]

\* cdc0_write and cdc1_write differ in the endpoint and in the dtr flag only.
Connected(p) == cdc_is_configured /\ dtr[p]

\* Mutant of Write: a call that does not take ep_write_sem.
WriteUnlocked(w) == /\ Connected(Port[w])
                    /\ Goto(w, "idle", "start_write")
                    /\ \E n \in Lengths : nbytes' = [nbytes EXCEPT ![w] = n]
                    /\ UNCHANGED <<deviceVars, semVars, in_ep, host_partial>>

\* The call itself; on a port that is not connected it returns at once.
Write(w) == /\ Connected(Port[w])
            /\ Goto(w, "idle", "take_ep")
            /\ \E n \in Lengths : nbytes' = [nbytes EXCEPT ![w] = n]
            /\ UNCHANGED <<deviceVars, semVars, in_ep, host_partial>>

\* rt_sem_take(ep_write_sem): take it, or join the queue and be suspended.
TakeEp(w) == /\ \/ /\ ep_write_sem > 0
                   /\ Goto(w, "take_ep", "start_write")
                   /\ ep_write_sem' = ep_write_sem - 1
                   /\ UNCHANGED ep_write_queue
                \/ /\ ep_write_sem = 0
                   /\ Goto(w, "take_ep", "wait_ep")
                   /\ ep_write_queue' = Append(ep_write_queue, w)
                   /\ UNCHANGED ep_write_sem
             /\ UNCHANGED <<deviceVars, cdc_tx_busy_sem, nbytes, in_ep, host_partial>>

\* Mutant of BeginTransfer: the call does not wait for the end of its transfer.
BeginWithoutWait(w) == /\ Goto(w, "start_write", "release_ep")
                       /\ StartWrite(Port[w], w, nbytes[w])
                       /\ UNCHANGED <<deviceVars, semVars, nbytes, host_partial>>

BeginTransfer(w) == /\ Goto(w, "start_write", "take_tx")
                    /\ StartWrite(Port[w], w, nbytes[w])
                    /\ UNCHANGED <<deviceVars, semVars, nbytes, host_partial>>

TakeTx(w) == /\ cdc_tx_busy_sem > 0
             /\ Goto(w, "take_tx", "release_ep")
             /\ cdc_tx_busy_sem' = cdc_tx_busy_sem - 1
             /\ UNCHANGED <<deviceVars, ep_write_sem, ep_write_queue, nbytes, in_ep,
                            host_partial>>

\* rt_sem_release(ep_write_sem): the first thread of the queue, if there is one,
\* gets the semaphore without its value changing.
ReleaseEp(w) == /\ pc[w] = "release_ep"
                /\ \/ /\ ep_write_queue = <<>>
                      /\ ep_write_sem' = ep_write_sem + 1
                      /\ pc' = [pc EXCEPT ![w] = "idle"]
                      /\ UNCHANGED ep_write_queue
                   \/ /\ ep_write_queue # <<>>
                      /\ pc' = [pc EXCEPT ![w] = "idle",
                                          ![Head(ep_write_queue)] = "start_write"]
                      /\ ep_write_queue' = Tail(ep_write_queue)
                      /\ UNCHANGED ep_write_sem
                /\ UNCHANGED <<deviceVars, cdc_tx_busy_sem, nbytes, in_ep, host_partial>>
-----------------------------------------------------------------------------
\* A transfer of n bytes ends with a full packet, which does not tell the host
\* that the message is over.
EndsFull(n) == n # 0 /\ n % MPS = 0

\* Mutant of NeedsZlp: no message is followed by a zero-length packet.
NeverFull(n) == FALSE

NeedsZlp(n) == EndsFull(n)

\* Mutant of BulkIn: the end of an empty transfer is ignored.
BulkInForgetsEmpty(p) ==
    /\ InFlight(p)
    /\ host_partial' = [host_partial EXCEPT ![p] = EndsFull(in_ep[p].len)]
    /\ in_ep' = IF NeedsZlp(in_ep[p].len) THEN [in_ep EXCEPT ![p].len = 0]
                                          ELSE [in_ep EXCEPT ![p] = Nothing]
    /\ cdc_tx_busy_sem' = IF in_ep[p].len # 0 /\ ~NeedsZlp(in_ep[p].len)
                            THEN cdc_tx_busy_sem + 1 ELSE cdc_tx_busy_sem
    /\ UNCHANGED <<deviceVars, ep_write_sem, ep_write_queue, pc, nbytes>>

\* The host reads the transfer of port p to its end, and usbd_cdc0_acm_bulk_in
\* or usbd_cdc1_acm_bulk_in runs: it sends a zero-length packet after a message
\* that ends with a full one, and otherwise lets the writer go on.
BulkIn(p) == /\ InFlight(p)
             /\ host_partial' = [host_partial EXCEPT ![p] = EndsFull(in_ep[p].len)]
             /\ IF NeedsZlp(in_ep[p].len)
                  THEN /\ in_ep' = [in_ep EXCEPT ![p].len = 0]
                       /\ UNCHANGED cdc_tx_busy_sem
                  ELSE /\ in_ep' = [in_ep EXCEPT ![p] = Nothing]
                       /\ cdc_tx_busy_sem' = cdc_tx_busy_sem + 1
             /\ UNCHANGED <<deviceVars, ep_write_sem, ep_write_queue, pc, nbytes>>

\* USBD_EVENT_RESET: the controller forgets its endpoints and their transfers.
\* cdc_reset touches neither cdc_is_configured, nor dtr, nor the semaphores.
BusReset == /\ ep_open
            /\ ep_open' = FALSE
            /\ in_ep' = [p \in Ports |-> Nothing]
            /\ host_partial' = [p \in Ports |-> FALSE]
            /\ UNCHANGED <<cdc_is_configured, dtr, semVars, pc, nbytes>>

\* USBD_EVENT_CONFIGURED: the controller opens the endpoints, cdc_configured.
Configured == /\ ~ep_open
              /\ ep_open' = TRUE
              /\ cdc_is_configured' = TRUE
              /\ UNCHANGED <<dtr, semVars, pc, nbytes, in_ep, host_partial>>

\* usbd_cdc_acm_set_dtr, on a configured device.
SetDtr(p, on) == /\ ep_open
                 /\ dtr' = [dtr EXCEPT ![p] = on]
                 /\ UNCHANGED <<cdc_is_configured, ep_open, semVars, pc, nbytes, in_ep,
                                host_partial>>

Running(w) == TakeEp(w) \/ BeginTransfer(w) \/ TakeTx(w) \/ ReleaseEp(w)

Next == \/ \E w \in Writers : Write(w) \/ Running(w)
        \/ \E p \in Ports : BulkIn(p) \/ \E on \in BOOLEAN : SetDtr(p, on)
        \/ BusReset
        \/ Configured

Spec == Init /\ [][Next]_vars

\* A thread inside a call goes on when it can; the host configures the device
\* and reads the port as long as a program there holds it open.
Fairness == /\ \A w \in Writers : WF_vars(Running(w))
            /\ \A p \in Ports : WF_vars(dtr[p] /\ BulkIn(p))
            /\ WF_vars(Configured)

FairSpec == Spec /\ Fairness
-----------------------------------------------------------------------------
TypeOK == /\ cdc_is_configured \in BOOLEAN
          /\ dtr \in [Ports -> BOOLEAN]
          /\ ep_write_sem \in {0, 1}
          /\ ep_write_queue \in Seq(Writers)
          /\ cdc_tx_busy_sem \in {0, 1}
          /\ pc \in [Writers -> Locations]
          /\ nbytes \in [Writers -> Nat]
          /\ ep_open \in BOOLEAN
          /\ in_ep \in [Ports -> Transfers \cup {Nothing}]
          /\ host_partial \in [Ports -> BOOLEAN]

\* The threads between the take and the release of ep_write_sem.
Holds(w) == pc[w] \in {"start_write", "take_tx", "release_ep"}

\* One writer at a time, over both ports, is between rt_sem_take(ep_write_sem)
\* and its release, and then the semaphore is taken.
WritersExclude == \A w \in Writers : Holds(w) =>
                    /\ ep_write_sem = 0
                    /\ \A v \in Writers \ {w} : ~Holds(v)

\* The threads in the queue of ep_write_sem are those suspended in its take,
\* each once, and no thread is suspended on a free semaphore.
QueueIsWaiters ==
    LET n == Len(ep_write_queue)
    IN /\ \A i \in 1..n : pc[ep_write_queue[i]] = "wait_ep"
       /\ \A w \in Writers : pc[w] = "wait_ep" => \E i \in 1..n : ep_write_queue[i] = w
       /\ \A i, j \in 1..n : ep_write_queue[i] = ep_write_queue[j] => i = j
       /\ ep_write_sem = 1 => n = 0

\* The controller reads a caller's buffer only while that caller waits for the
\* end of its transfer: cdc0_write and cdc1_write never return, and so never let
\* the caller overwrite the buffer, with the transfer still in flight.
BufferStable == \A p \in Ports : InFlight(p) =>
                  /\ pc[in_ep[p].writer] = "take_tx"
                  /\ Port[in_ep[p].writer] = p

\* A completion is for the writer that waits: when cdc_tx_busy_sem is available,
\* its taker waits, and no transfer of either port is in flight, so that a token
\* of one port can never end a write to the other one too early.
TokenForWaiter == cdc_tx_busy_sem > 0 =>
                    /\ \E w \in Writers : pc[w] = "take_tx"
                    /\ \A p \in Ports : ~InFlight(p)

\* Messages reach the host whole: while the host waits for more of a message,
\* the zero-length packet that ends it is in the endpoint (bulk_in, "zero-length
\* packet"), so no writer can return or start the next message in between.
MessagesWhole == \A p \in Ports : host_partial[p] =>
                   InFlight(p) /\ in_ep[p].len = 0

\* Every write finishes ("wait until usb write finished") once the host leaves
\* the device configured and keeps both ports open and read.
HostSettles == <>[](ep_open /\ \A p \in Ports : dtr[p])
WritesFinish == HostSettles => \A w \in Writers : pc[w] = "take_ep" ~> pc[w] = "idle"

\* The same, if the host has never reset the bus since it first configured the
\* device: only a reset closes the endpoints of a configured device.
NeverReset == [](cdc_is_configured => ep_open)
WritesFinishWithoutReset == NeverReset => WritesFinish

\* The stage of each message in the terms of SerialOut.
Stage(w) ==
    CASE pc[w] = "idle" -> "idle"
      [] pc[w] \in {"take_ep", "wait_ep", "start_write"} -> "waiting"
      [] pc[w] = "release_ep" -> "sent"
      [] pc[w] = "take_tx" /\ cdc_tx_busy_sem > 0 -> "sent"
      [] pc[w] = "take_tx" /\ cdc_tx_busy_sem = 0 /\ InFlight(Port[w]) -> "sending"
      [] OTHER -> "lost"

Out == INSTANCE SerialOut WITH stage <- [w \in Writers |-> Stage(w)]

\* The semaphores and endpoints implement one-message-at-a-time sending.
ImplementsSerialOut == Out!Spec
=============================================================================
