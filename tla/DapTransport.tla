---------------------------- MODULE DapTransport ----------------------------
(***************************************************************************)
(* The CMSIS-DAP interface of usb_dap.c: two bulk endpoints, one request   *)
(* buffer and one response buffer.  The host may have PACKET_COUNT requests *)
(* on their way before it collects an answer.  dap_out_callback carries a  *)
(* request out to its end inside the USB interrupt (dap_process_request),  *)
(* and the next request is read when its response has been collected.      *)
(***************************************************************************)
EXTENDS Naturals, Sequences

CONSTANTS PacketCount,   \* DAP_CONFIG_PACKET_COUNT, as DAP_Info reports it
          MaxRequests    \* bound on the requests the host sends

ASSUME CountAssumption == PacketCount \in Nat \ {0}
ASSUME RequestsAssumption == MaxRequests \in Nat

VARIABLES
    open,       \* the endpoints are open (SET_CONFIGURATION)
    reading,    \* a read of USB_Request is under way
    arrived,    \* a request is in USB_Request, its callback is still to come
    writing,    \* a write of USB_Response is under way
    request,    \* USB_Request
    response,   \* USB_Response
    port,       \* dap_port: whether the host has connected since dap_init
    sent,       \* host: the requests it has made, numbered from 1
    onWay,      \* host: those the probe has not taken, oldest first
    collected   \* host: the number of the last request whose answer it has

vars == <<open, reading, arrived, writing, request, response, port, sent, onWay, collected>>
epVars == <<open, reading, arrived, writing>>
hostVars == <<sent, onWay, collected>>

\* Commands as far as the order of things goes: TRANSFER stands for every command
\* that needs a connected port, UNKNOWN for those not in the table.
Commands == {"CONNECT", "DISCONNECT", "TRANSFER", "TRANSFER_ABORT", "VENDOR", "UNKNOWN"}
Ports == {"DISABLED", "SWD"}
Echoes == (Commands \ {"UNKNOWN"}) \cup {"INVALID"}
Answers == {"OK", "ERROR", "INVALID"}

NoRequest == [number |-> 0, cmd |-> "UNKNOWN"]
NoResponse == [number |-> 0, cmd |-> "INVALID", answer |-> "INVALID"]

Init == /\ open = FALSE /\ reading = FALSE /\ arrived = FALSE /\ writing = FALSE
        /\ request = NoRequest /\ response = NoResponse
        /\ port = "DISABLED"
        /\ sent = 0 /\ onWay = <<>> /\ collected = 0
-----------------------------------------------------------------------------
\* The host.

Submit(c) == /\ open
             /\ sent < MaxRequests
             /\ sent - collected < PacketCount
             /\ sent' = sent + 1
             /\ onWay' = Append(onWay, [number |-> sent + 1, cmd |-> c])
             /\ UNCHANGED <<epVars, request, response, port, collected>>

\* A packet goes into USB_Request when a read is under way.
Deliver == /\ reading /\ onWay # <<>>
           /\ request' = Head(onWay) /\ onWay' = Tail(onWay)
           /\ reading' = FALSE /\ arrived' = TRUE
           /\ UNCHANGED <<open, writing, response, port, sent, collected>>

\* SET_CONFIGURATION: dap_configured.
Configured == /\ ~open /\ open' = TRUE
              /\ port' = "DISABLED"
              /\ reading' = TRUE
              /\ UNCHANGED <<arrived, writing, request, response, hostVars>>

\* A bus reset closes the endpoints.  The host gives up what it had asked for.
BusReset == /\ open
            /\ open' = FALSE /\ reading' = FALSE /\ arrived' = FALSE /\ writing' = FALSE
            /\ onWay' = <<>> /\ collected' = sent
            /\ UNCHANGED <<request, response, port, sent>>
-----------------------------------------------------------------------------
\* The table of handlers, as far as answers go.
Handler(c) == CASE c = "TRANSFER" -> IF port = "SWD" THEN "OK" ELSE "INVALID"
                [] c = "VENDOR" -> "ERROR"
                [] OTHER -> "OK"

\* dap_process_request: an unknown command is answered with ID_DAP_INVALID alone.
ProcessRequest(r) ==
    /\ response' = [number |-> r.number,
                    cmd |-> IF r.cmd = "UNKNOWN" THEN "INVALID" ELSE r.cmd,
                    answer |-> Handler(r.cmd)]
    /\ port' = CASE r.cmd = "CONNECT" -> "SWD"
                 [] r.cmd = "DISCONNECT" -> "DISABLED"
                 [] OTHER -> port

\* Mutant of OutCallback: the next read is started at once.
OutCallbackReads == /\ arrived /\ arrived' = FALSE
                    /\ ProcessRequest(request)
                    /\ writing' = TRUE /\ reading' = TRUE
                    /\ UNCHANGED <<open, request, hostVars>>

\* dap_out_callback.
OutCallback == /\ arrived /\ arrived' = FALSE
               /\ ProcessRequest(request)
               /\ writing' = TRUE
               /\ UNCHANGED <<open, reading, request, hostVars>>

\* Mutant of InCallback: no read is started after a response.
InCallbackStops == /\ writing /\ writing' = FALSE
                   /\ collected' = response.number
                   /\ UNCHANGED <<open, reading, arrived, request, response, port, sent, onWay>>

\* The host collects the response; dap_in_callback.
InCallback == /\ writing /\ writing' = FALSE
              /\ collected' = response.number
              /\ reading' = TRUE
              /\ UNCHANGED <<open, arrived, request, response, port, sent, onWay>>

Step == Deliver \/ OutCallback \/ InCallback
Next == Step \/ Configured \/ BusReset \/ \E c \in Commands : Submit(c)

Spec == Init /\ [][Next]_vars

\* The controller moves packets both ways and interrupts; the host polls.
FairSpec == Spec /\ WF_vars(Step)
-----------------------------------------------------------------------------
TypeOK == /\ open \in BOOLEAN /\ reading \in BOOLEAN
          /\ arrived \in BOOLEAN /\ writing \in BOOLEAN
          /\ request \in [number : Nat, cmd : Commands]
          /\ response \in [number : Nat, cmd : Echoes, answer : Answers]
          /\ port \in Ports
          /\ sent \in 0..MaxRequests /\ collected \in 0..sent
          /\ onWay \in Seq([number : Nat, cmd : Commands])

\* The endpoints take turns: while they are open exactly one of a read, a callback
\* and a write is due, so the two buffers never have two users, and the interface
\* never comes to rest with nothing due (usb_dap.c:17, usb_dap.c:24, usb_dap.c:30).
HalfDuplex == /\ open => reading \/ arrived \/ writing
              /\ ~(reading /\ arrived) /\ ~(reading /\ writing) /\ ~(arrived /\ writing)

\* The response on its way answers the oldest request the host waits for, and no
\* request is lost: each is on its way, in USB_Request or answered.
AnswersInOrder == /\ writing => response.number = collected + 1
                  /\ arrived => request.number = collected + 1
                  /\ sent = collected + Len(onWay) + (IF arrived \/ writing THEN 1 ELSE 0)

\* Every request is answered or given up in a reset, with as many of them on their
\* way as DAP_Info allows.
EveryRequestIsAnswered == \A k \in 1..MaxRequests : sent >= k ~> collected >= k

\* "This request is handled outside of the normal queue.  We should never get
\* here." (dap.c:1095-1096, dap_transfer_abort)
AbortsStayOutOfTheQueue == response.cmd # "TRANSFER_ABORT"
=============================================================================
