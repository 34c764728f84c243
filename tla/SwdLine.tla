------------------------------ MODULE SwdLine ------------------------------
(***************************************************************************)
(* The commands of free-dap that move the SWD wires: transfers             *)
(* (dap_swd_operation), DAP_SWJ_Sequence, DAP_SWD_Sequence, DAP_SWJ_Pins,  *)
(* connect and disconnect, and the settings they depend on.  Each command  *)
(* is the sequence of pin writes and clocks the code makes, on the wires   *)
(* and the target of SwdWire.  A command runs inside the USB interrupt, so *)
(* it is one step.                                                         *)
(***************************************************************************)
EXTENDS SwdWire

CONSTANTS SwdRequests, \* the bits APnDP, RnW, A2, A3 of a transfer
          Words,       \* words that are read and written
          IdleCounts,  \* idle cycles
          Targets,     \* turnarounds and data phases of targets
          PinMoves     \* bound on the number of DAP_SWJ_Pins commands

ASSUME SwdAssumption ==
    /\ SwdRequests \subseteq [1..4 -> Levels] /\ Words \subseteq [1..Width -> Levels]
    /\ IdleCounts \subseteq Nat /\ PinMoves \in Nat
    /\ Targets \subseteq [turn : Nat \ {0}, data_phase : BOOLEAN]

\* The ones of a line reset are more than a turnaround, a word with its parity and the
\* ones that a request begins with make together: 50, and at most 4 + 33 + 6.
ASSUME ResetAssumption == \A target \in Targets : Width + 7 + target.turn < ResetBits

VARIABLES
    dap_port,                           \* the port a DAP_Connect selected
    turnaround, data_phase, idle_cycles, \* dap_swd_turnaround, and so on
    dir, level, clk,                    \* the pins
    tgt,                                \* the target
    wcr,                                \* the turnaround and data phase of the target
    moves,                              \* DAP_SWJ_Pins commands so far
    swd_op                              \* the last command and what came of it

settings == <<turnaround, data_phase, idle_cycles>>
pins == <<dir, level, clk>>
swdVars == <<dap_port, settings, pins, tgt, wcr, moves, swd_op>>

NoSwdOp == [kind |-> "none"]

\* dap_init, and DAP_CONFIG_SETUP with the Black Magic package: platform_init
\* leaves the wires driven and high.
SwdInit == /\ dap_port = "disabled"
           /\ turnaround = 1 /\ data_phase = FALSE /\ idle_cycles = 0
           /\ dir = "out" /\ level = 1 /\ clk = 1
           /\ tgt = NoTarget
           /\ wcr \in Targets
           /\ moves = 0
           /\ swd_op = NoSwdOp

\* The bus at the beginning of a command.
Bus(plan) == [dir |-> dir, level |-> level, clk |-> clk, tgt |-> tgt, plan |-> plan,
              read |-> <<>>, taken |-> <<>>, clash |-> FALSE]

\* What a target may have ready: a word that arrives wrong goes with OK.  Commands
\* that ask nothing of it see no more than the pull.
Plans == {p \in [ack : Acks, word : Words, noise : Levels, turn : {wcr.turn},
                 data_phase : {wcr.data_phase}, pull : Levels] : p.noise = 1 => p.ack = OK}
Quiet == {p \in Plans : p.ack = OK /\ p.noise = 0 /\ p.word = CHOOSE w \in Words : TRUE}

\* The end of a command; the next one comes when the host has the response.  What
\* came of it is noted if it began as the code expects.
Leaves(b, what) ==
    /\ swd_op = NoSwdOp
    /\ dir' = b.dir /\ level' = b.level /\ clk' = b.clk
    /\ tgt' = b.tgt
    /\ swd_op' = IF what.sound
                 THEN [kind |-> what.kind, request |-> what.request,
                       ack |-> what.ack, word |-> what.word,
                       plan |-> b.plan, taken |-> b.taken, clash |-> b.clash]
                 ELSE [kind |-> "other"]
Silent == [kind |-> "other", sound |-> FALSE, request |-> <<>>, ack |-> <<>>, word |-> <<>>]

\* The wires are as a command expects them: driven, SWCLK high, and a target that
\* waits for a request and has the settings of the probe.
InStep == dir = "out" /\ clk = 1 /\ tgt.state = "idle"
Agreed == turnaround = wcr.turn /\ data_phase = wcr.data_phase
-----------------------------------------------------------------------------
Turnaround == Times(Pulse, turnaround)

\* Mutant of Data: the word of a write comes before the turnaround.
DataBeforeTurn(req, word) ==
    IF RnW(req) THEN Times(Sample, Width + 1) \o Turnaround \o <<DioOut>>
    ELSE <<DioOut>> \o Append(word, Parity(word)) \o Turnaround

\* dap_swd_operation after OK: the word with its parity, and the turnaround, which
\* comes before the word of a write and after that of a read.
Data(req, word) ==
    IF RnW(req) THEN Times(Sample, Width + 1) \o Turnaround \o <<DioOut>>
    ELSE Turnaround \o <<DioOut>> \o Append(word, Parity(word))

\* Mutant of Refused: the data phase of a read is forgotten.
RefusedShort(req) ==
    IF RnW(req) \/ ~data_phase THEN Turnaround \o <<DioOut>>
    ELSE Turnaround \o <<DioOut, Dio(0)>> \o Times(Pulse, Width + 1)

\* dap_swd_operation after WAIT and FAULT, with the data phase or without.
Refused(req) ==
    CASE ~data_phase -> Turnaround \o <<DioOut>>
      [] data_phase /\ RnW(req) -> Times(Pulse, Width + 1) \o Turnaround \o <<DioOut>>
      [] OTHER -> Turnaround \o <<DioOut, Dio(0)>> \o Times(Pulse, Width + 1)

\* dap_swd_operation up to the acknowledge, and from there; after an acknowledge
\* that is none of the three SWDIO stays an input.
Ask(req) == Header(req) \o <<DioIn>> \o Turnaround \o Times(Sample, 3)
SwdRest(req, word, ack) ==
    (CASE ack = OK -> Data(req, word) \o <<Dio(0)>> \o Times(Pulse, idle_cycles)
       [] ack \in {WAIT, FAULT} -> Refused(req)
       [] OTHER -> Turnaround \o Times(Pulse, Width + 1)) \o <<Dio(1)>>

\* dap_swd_operation: the bus after it, the acknowledge and the word it returns.
SwdOperation(req, word, plan) ==
    LET asked == Play(Bus(plan), Ask(req))
        done == Play(asked, SwdRest(req, word, asked.read))
        data == SubSeq(done.read, 4, Width + 3)
    IN [bus |-> done,
        ack |-> IF Len(done.read) > 3 /\ done.read[Width + 4] # Parity(data) THEN ERROR ELSE asked.read,
        word |-> IF Len(done.read) > 3 THEN data ELSE word]

\* One turn of the loop of dap_transfer_word, on the SWD port.
Transfer(req, word, plan) ==
    /\ dap_port = "swd"
    /\ LET r == SwdOperation(req, word, plan)
       IN Leaves(r.bus, [kind |-> "transfer", sound |-> InStep /\ Agreed, request |-> req,
                         ack |-> r.ack, word |-> r.word])
    /\ UNCHANGED <<dap_port, settings, wcr, moves>>

\* dap_write_abort: the acknowledge is not looked at.
SwdWriteAbort(word, plan) == Transfer(<<0, 0, 0, 0>>, word, plan)

\* A one now ends a request, and the target answers.
RequestPending == Len(tgt.heard) = 7 /\ WellFormed(Append(tgt.heard, 1))

Swj(bits) == [kind |-> "swj", sound |-> dir = "out" /\ tgt.state # "answer" /\ ~RequestPending,
              request |-> <<>>, ack |-> <<>>, word |-> bits]

\* Mutant of SwjSequence: SWDIO is released after the sequence.
SwjSequenceReleased(bits, plan) ==
    /\ Leaves(Play(Bus(plan), bits \o <<DioIn>>), Swj(bits))
    /\ UNCHANGED <<dap_port, settings, wcr, moves>>

\* dap_swj_sequence, on any port, with SWDIO in whatever direction it is.
SwjSequence(bits, plan) ==
    /\ Leaves(Play(Bus(plan), bits), Swj(bits))
    /\ UNCHANGED <<dap_port, settings, wcr, moves>>

\* dap_swd_sequence: the transfer of a read, clock by clock; SWDIO is turned by
\* each part and left an output.  What is read is the acknowledge and the word
\* behind a turnaround.
SwdSequence(req, plan) ==
    /\ dap_port = "swd"
    /\ LET turn == wcr.turn
           got == Play(Bus(plan), <<DioOut>> \o Header(req) \o <<DioIn>>
                                  \o Times(Sample, turn + 3 + Width + 1 + turn) \o <<DioOut>>)
       IN Leaves(got, [kind |-> "sequence", sound |-> clk = 1 /\ tgt.state = "idle", request |-> req,
                       ack |-> SubSeq(got.read, turn + 1, turn + 3),
                       word |-> SubSeq(got.read, turn + 4, turn + 3 + Width)])
    /\ UNCHANGED <<dap_port, settings, wcr, moves>>

\* dap_swj_pins: SWCLK is written before SWDIO.
SwjPins(selected, v, plan) ==
    /\ Leaves(Play(Bus(plan), (IF "SWCLK" \in selected THEN <<Tck(v)>> ELSE <<>>)
                              \o (IF "SWDIO" \in selected THEN <<Dio(v)>> ELSE <<>>)), Silent)
    /\ moves < PinMoves /\ moves' = moves + 1
    /\ UNCHANGED <<dap_port, settings, wcr>>
-----------------------------------------------------------------------------
\* DAP_CONFIG_CONNECT_SWD and DAP_CONFIG_CONNECT_JTAG.
ConnectPins == <<DioOut, Dio(1), Tck(1)>>

\* dap_connect.
Connect(p, plan) ==
    /\ dap_port' = p
    /\ Leaves(Play(Bus(plan), IF p = "disabled" THEN <<>> ELSE ConnectPins), Silent)
    /\ UNCHANGED <<settings, wcr, moves>>

\* platform_init writes SWCLK, then SWDIO, and then makes them outputs.
PlatformInit == <<Tck(1), Dio(1), DioOut>>

\* dap_disconnect.
Disconnect(plan) == /\ dap_port' = "disabled"
                    /\ Leaves(Play(Bus(plan), PlatformInit), Silent)
                    /\ UNCHANGED <<settings, wcr, moves>>

\* dap_init, from dap_configured.
DapInit(plan) == /\ dap_port' = "disabled"
                 /\ turnaround' = 1 /\ data_phase' = FALSE /\ idle_cycles' = 0
                 /\ Leaves(Play(Bus(plan), PlatformInit), Silent)
                 /\ UNCHANGED <<wcr, moves>>

\* dap_swd_configure, and the idle cycles of dap_transfer_configure.
SwdConfigure(turn, phase) == /\ turnaround' = turn /\ data_phase' = phase
                             /\ swd_op = NoSwdOp
                             /\ UNCHANGED <<dap_port, idle_cycles, pins, tgt, wcr, moves, swd_op>>
TransferConfigure(idle) == /\ idle_cycles' = idle
                           /\ swd_op = NoSwdOp
                           /\ UNCHANGED <<dap_port, turnaround, data_phase, pins, tgt, wcr, moves, swd_op>>

\* The target loses its power, or is plugged in.
PowerCycle == /\ tgt' = NoTarget
              /\ swd_op = NoSwdOp
              /\ UNCHANGED <<dap_port, settings, pins, wcr, moves, swd_op>>

Respond == /\ swd_op # NoSwdOp /\ swd_op' = NoSwdOp
           /\ UNCHANGED <<dap_port, settings, pins, tgt, wcr, moves>>

\* The sequences a host sends: a line reset with the idle bits behind it, and idle
\* bits alone.
LineReset == Times(1, ResetBits) \o Times(0, 2)
Sequences == {LineReset, Times(0, 2)}

SwdNext == \/ \E req \in SwdRequests, word \in Words, plan \in Plans : Transfer(req, word, plan)
           \/ \E word \in Words, plan \in Plans : SwdWriteAbort(word, plan)
           \/ \E bits \in Sequences, plan \in Quiet : SwjSequence(bits, plan)
           \/ \E req \in SwdRequests, plan \in Plans : RnW(req) /\ SwdSequence(req, plan)
           \/ \E selected \in SUBSET {"SWCLK", "SWDIO"}, v \in Levels, plan \in Quiet :
                  SwjPins(selected, v, plan)
           \/ \E p \in {"swd", "jtag", "disabled"}, plan \in Quiet : Connect(p, plan)
           \/ \E plan \in Quiet : Disconnect(plan) \/ DapInit(plan)
           \/ SwdConfigure(1, FALSE) \/ SwdConfigure(wcr.turn, wcr.data_phase)
           \/ \E idle \in IdleCounts : TransferConfigure(idle)
           \/ PowerCycle \/ Respond

SwdSpec == SwdInit /\ [][SwdNext]_swdVars
-----------------------------------------------------------------------------
SwdTypeOK == /\ dap_port \in {"disabled", "swd", "jtag"}
             /\ turnaround \in Nat \ {0} /\ data_phase \in BOOLEAN /\ idle_cycles \in Nat
             /\ moves \in 0..PinMoves
             /\ dir \in {"in", "out"} /\ level \in Levels /\ clk \in Levels
             /\ tgt.state \in {"lost", "reset", "idle", "header", "answer"}
             /\ tgt.state = "answer" <=> tgt.todo # <<>>

\* Commands whose outcome is known: those that start in step with the target; the
\* host's own sequence for a read expects the target to answer OK.
Transferred == swd_op.kind = "transfer"
Sequenced == swd_op.kind = "sequence" /\ swd_op.plan.ack = OK

\* Every command leaves probe and target in step for the next one, with SWDIO
\* driven and the target waiting, after OK, WAIT, FAULT and a parity error, with
\* data phase and without, and neither drives SWDIO while the other does; a line
\* reset brings any target back as long as SWDIO is driven, unless its first bit is
\* the last of a request (dap.c:346-412, 1197-1209).
StaysInStep == /\ Transferred \/ Sequenced => InStep /\ ~swd_op.clash
               /\ swd_op.kind = "swj" /\ swd_op.word = LineReset => InStep

\* The acknowledge is the target's, a word read is the one it sent, and it took
\* the word written, with its parity, only if it said OK (dap.c:340-372).
WordsCross ==
    /\ Transferred =>
          /\ swd_op.ack = IF swd_op.plan.ack = OK /\ RnW(swd_op.request) /\ swd_op.plan.noise = 1
                        THEN ERROR ELSE swd_op.plan.ack
          /\ swd_op.ack = OK /\ RnW(swd_op.request) => swd_op.word = swd_op.plan.word
          /\ swd_op.taken = IF swd_op.plan.ack = OK /\ ~RnW(swd_op.request)
                          THEN Append(swd_op.word, Parity(swd_op.word)) ELSE <<>>
    /\ Sequenced => swd_op.ack = OK /\ swd_op.word = swd_op.plan.word
=============================================================================
