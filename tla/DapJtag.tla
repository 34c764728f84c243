------------------------------ MODULE DapJtag ------------------------------
(***************************************************************************)
(* The JTAG half of free-dap: the chain the host describes                 *)
(* (dap_jtag_configure), the scans of the instruction register and of the  *)
(* access register (dap_jtag_write_ir, dap_jtag_operation), the ID code     *)
(* (dap_jtag_idcode), and the instruction dap.c believes to be loaded      *)
(* (dap_jtag_ir), which saves it a scan.  Every scan is the sequence of     *)
(* clocks the code makes, and JtagChain says what the devices make of it.  *)
(***************************************************************************)
EXTENDS JtagChain

CONSTANTS Chains,     \* the chains there may be: sequences of IR lengths
          Layouts,    \* what the host may say the chain is
          Codes,      \* the words that are written and read
          Requests,   \* the request bits RnW, A2, A3
          DevCountMax \* DAP_CONFIG_JTAG_DEV_COUNT

ASSUME ChainAssumption ==
    /\ Chains \subseteq Seq(Nat \ {0}) \ {<<>>} /\ Layouts \subseteq Seq(Nat)
    /\ Codes \subseteq [1..DataBits -> Bits] /\ Requests \subseteq [1..3 -> Bits]
    /\ DevCountMax \in Nat

VARIABLES
    lens,        \* the IR lengths of the devices on the wire
    chain,       \* the devices
    dev_count, dev_index,               \* dap_jtag_dev_count, dap_jtag_dev_index
    ir_length, ir_before, ir_after,     \* the arrays of the same names
    jtag_ir,     \* dap_jtag_ir
    pc,          \* inside dap_transfer or between two requests
    op           \* the last operation: what was asked for and what came of it

cfgVars == <<dev_count, ir_length, ir_before, ir_after>>
vars == <<lens, chain, cfgVars, dev_index, jtag_ir, pc, op>>

INVALID == <<>>
NoOp == [kind |-> "none"]

\* After a reset of the TAPs an ARM device has IDCODE selected, others bypass.
ResetIrs == [d \in DOMAIN lens |-> IF lens[d] = ARM_JTAG_IR_LENGTH THEN IDCODE ELSE Bypass(lens[d])]

Init == /\ lens \in Chains
        /\ chain = [tap |-> "Idle", sr |-> <<>>, tdo |-> <<>>, irs |-> ResetIrs,
                    drs |-> [d \in DOMAIN lens |-> <<>>],
                    ack |-> <<0, 0, 0>>, data |-> [d \in DOMAIN lens |-> <<>>]]
        /\ dev_count = 0 /\ dev_index = 0
        /\ ir_length = <<>> /\ ir_before = <<>> /\ ir_after = <<>>
        /\ jtag_ir = INVALID
        /\ pc = "ready"
        /\ op = NoOp
-----------------------------------------------------------------------------
\* n clocks at one level of TMS and TDI, and the clocks that shift some bits in.
Clocks(tms, tdi, n) == [k \in 1..n |-> [tms |-> tms, tdi |-> tdi]]
Shift(bits, tms) == [k \in DOMAIN bits |-> [tms |-> tms, tdi |-> bits[k]]]

Device == dev_index + 1

\* dap_jtag_write_ir: ones for the devices before and after.
WriteIr(ir) ==
    LET len == ir_length[Device]
        after == ir_after[Device]
        last == SubSeq(ir, len, len)
    IN Clocks(1, 1, 2) \o Clocks(0, 1, 2)                  \* -> Shift-IR
       \o Clocks(0, 1, ir_before[Device])
       \o Shift(SubSeq(ir, 1, len - 1), 0)
       \o (IF after > 0 THEN Shift(last, 0) \o Clocks(0, 1, after - 1) \o Clocks(1, 1, 1)
           ELSE Shift(last, 1))                            \* -> Exit1-IR
       \o Clocks(1, 1, 1) \o Clocks(0, 1, 1)               \* -> Update-IR, Idle

\* Mutant of Behind: off by one.
BehindPlusOne == dev_count - dev_index

\* cnt of dap_jtag_operation: the bypass bits behind the device.
Behind == dev_count - dev_index - 1

\* The first half of the scan of an access register: the request bits go in, the
\* acknowledge comes out.
AccessHead(bits) == Clocks(1, 1, 1) \o Clocks(0, 1, 2 + dev_index) \o Shift(bits, 0)

\* The data, one clock of it with TMS at 1, and the bypass bits behind.
AccessData(bits) ==
    IF Behind > 0
    THEN Shift(bits, 0) \o Clocks(0, 1, Behind - 1) \o Clocks(1, 1, 1)
    ELSE Shift(SubSeq(bits, 1, DataBits - 1), 0) \o Shift(SubSeq(bits, DataBits, DataBits), 1)

\* Update-DR and back to Idle.
AccessTail == Clocks(1, 1, 1) \o Clocks(0, 1, 1)

AckCodes == [OK |-> <<0, 1, 0>>, WAIT |-> <<1, 0, 0>>, NONE |-> <<1, 1, 1>>]

\* dap_jtag_operation with instruction ir, three request bits and a word to write;
\* a device answers with ack and, when it is read, with its data.
JtagOperation(ir, request, word, ack, data) ==
    LET held == [chain EXCEPT !.ack = AckCodes[ack], !.data = data]
        loaded == IF ir = jtag_ir THEN held ELSE Run(held, WriteIr(ir))
        asked == Run(loaded, AccessHead(request))
        answer == LastBits(asked, 3)
        moved == Run(asked, IF answer = AckCodes.OK THEN AccessData(word) ELSE Clocks(1, 1, 1))
    IN /\ chain' = Rest(Run(moved, AccessTail))
       /\ jtag_ir' = ir
       /\ op' = [kind |-> "access", device |-> Device, ir |-> ir, sent |-> request \o word,
                 answer |-> answer,
                 value |-> IF answer = AckCodes.OK THEN SubSeq(moved.tdo, 1, DataBits) ELSE <<>>]

\* The scan of dap_jtag_idcode.
IdcodeScan == Clocks(1, 1, 1) \o Clocks(0, 1, 2 + dev_index)
              \o Clocks(0, 1, DataBits - 1) \o Clocks(1, 1, 1)
-----------------------------------------------------------------------------
\* Mutant of ForgetIr: the instruction is remembered from request to request.
RememberIr == jtag_ir' = jtag_ir

\* dap_process_request: each request starts with no instruction known.
ForgetIr == jtag_ir' = INVALID

\* The two loops of dap_jtag_configure: bits before and after each device.
IrBefore(layout) == [d \in DOMAIN layout |-> Total(layout, d - 1)]
IrAfter(layout) == [d \in DOMAIN layout |-> Total(layout, Len(layout)) - Total(layout, d)]

\* dap_jtag_configure.
Configure(layout) ==
    /\ pc = "ready" /\ ForgetIr
    /\ IF Len(layout) > DevCountMax
       THEN UNCHANGED <<cfgVars, dev_index>>
       ELSE /\ dev_count' = Len(layout) /\ dev_index' = 0
            /\ ir_length' = layout
            /\ ir_before' = IrBefore(layout) /\ ir_after' = IrAfter(layout)
    /\ chain' = Fresh(chain) /\ op' = NoOp
    /\ UNCHANGED <<lens, pc>>

\* dap_select_device when it succeeds.
SelectDevice(index) == /\ index < dev_count
                       /\ ir_length[index + 1] = ARM_JTAG_IR_LENGTH
                       /\ dev_index' = index

\* DAP_Transfer, DAP_WriteABORT and DAP_JTAG_IDCODE begin with the device; when it
\* is refused they end there.
Begin(command, index) ==
    /\ pc = "ready" /\ ForgetIr
    /\ SelectDevice(index)
    /\ pc' = command
    /\ chain' = Fresh(chain) /\ op' = NoOp
    /\ UNCHANGED <<lens, cfgVars>>

\* A transfer of DAP_Transfer or DAP_TransferBlock.
Access(ir, request, word, ack, data) ==
    /\ pc = "transfer"
    /\ JtagOperation(ir, request, word, ack, data)
    /\ UNCHANGED <<lens, cfgVars, dev_index, pc>>

EndTransfer == /\ pc = "transfer" /\ pc' = "ready"
               /\ chain' = Fresh(chain)
               /\ op' = NoOp
               /\ UNCHANGED <<lens, cfgVars, dev_index, jtag_ir>>

WriteAbort(word, ack, data) ==
    /\ pc = "abort" /\ pc' = "ready"
    /\ JtagOperation(ABORT, <<0, 0, 0>>, word, ack, data)
    /\ UNCHANGED <<lens, cfgVars, dev_index>>

\* dap_jtag_idcode loads the instruction without a note of it.
JtagIdcode(data) ==
    /\ pc = "idcode" /\ pc' = "ready"
    /\ LET held == [chain EXCEPT !.data = data]
           read == Run(Run(held, WriteIr(IDCODE)), IdcodeScan)
       IN /\ op' = [kind |-> "idcode", device |-> Device,
                    value |-> LastBits(read, DataBits)]
          /\ chain' = Rest(Run(read, AccessTail))
    /\ UNCHANGED <<lens, cfgVars, dev_index, jtag_ir>>

\* With DAP_JTAG_Sequence the host resets the TAPs behind dap.c's back.
JtagSequence == /\ pc = "ready" /\ ForgetIr
                /\ chain' = Run([Fresh(chain) EXCEPT !.irs = ResetIrs], Clocks(1, 1, 5) \o Clocks(0, 1, 1))
                /\ op' = NoOp
                /\ UNCHANGED <<lens, cfgVars, dev_index, pc>>

\* What the devices hold: v the one addressed, the opposite the others.
Held(v) == [d \in DOMAIN lens |-> IF d = Device THEN v ELSE [k \in DOMAIN v |-> 1 - v[k]]]

Next == \/ \E layout \in Layouts : Configure(layout)
        \/ \E command \in {"transfer", "abort", "idcode"}, index \in 0..(DevCountMax - 1) : Begin(command, index)
        \/ \E ir \in {DPACC, APACC}, request \in Requests, word, v \in Codes, ack \in DOMAIN AckCodes :
               Access(ir, request, word, ack, Held(v))
        \/ \E word, v \in Codes, ack \in DOMAIN AckCodes : WriteAbort(word, ack, Held(v))
        \/ \E v \in Codes : JtagIdcode(Held(v))
        \/ EndTransfer \/ JtagSequence

Spec == Init /\ [][Next]_vars
-----------------------------------------------------------------------------
TypeOK == /\ dev_count \in 0..DevCountMax /\ dev_index \in Nat
          /\ ir_length \in Seq(Nat) /\ Len(ir_length) = dev_count
          /\ ir_before \in [1..dev_count -> Nat] /\ ir_after \in [1..dev_count -> Nat]
          /\ jtag_ir \in {INVALID, DPACC, APACC, ABORT}
          /\ pc \in {"ready", "transfer", "abort", "idcode"}
          /\ pc # "ready" => dev_index < dev_count

\* The host has described the chain as it is.
Described == ir_length = lens

\* Instruction ir is loaded in device d and every other device is in bypass.
Addresses(d, ir) == \A e \in DOMAIN lens :
    chain.irs[e] = IF e = d THEN ir ELSE Bypass(lens[e])

\* Every command leaves the TAPs in Idle, even when the chain is not the one
\* described; and the instruction dap.c believes to be loaded is the one the device has,
\* and no other device listens, although the host may move the TAPs between two requests
\* and address another device in each (dap.c:521-525, dap.c:1461-1463).
CachedIrIsLoaded == /\ chain.tap = "Idle"
                    /\ Described /\ jtag_ir # INVALID => Addresses(Device, jtag_ir)

\* A command reaches the registers it is meant for: in an access the device addressed
\* takes the request and the word bit for bit, and the acknowledge and the word that come
\* back are that device's; the ID code returned is that of the device asked for.
AccessReachesTheDevice ==
    Described =>
        /\ op.kind = "access" =>
              /\ Addresses(op.device, op.ir)
              /\ op.answer = chain.ack
              /\ op.answer = AckCodes.OK =>
                    IF op.sent[1] = 1
                    THEN /\ op.value = chain.data[op.device]
                         /\ SubSeq(chain.drs[op.device], 1, 3) = SubSeq(op.sent, 1, 3)
                    ELSE chain.drs[op.device] = op.sent
        /\ op.kind = "idcode" => op.value = chain.data[op.device]
=============================================================================
