------------------------------ MODULE MC_Wires ------------------------------
(***************************************************************************)
(* The probe on either of its two ports, SWD or JTAG, in one run: dap_port *)
(* selects one of them for a session, and the two share no other state.    *)
(* Words of two bits tell every shift by one from the right place.  SWD:   *)
(* a line reset of 12 ones, which is longer than any run of ones that is   *)
(* none, also behind the first bits of a request, and longer than any      *)
(* answer; turnarounds of one and two clocks.  JTAG: chains of one to      *)
(* three devices, ARM and other, and layouts that fit or not.              *)
(***************************************************************************)
EXTENDS SwdLine, DapJtag

VARIABLE session   \* the port in use

MCSwdRequests == {<<1, 1, 0, 0>>, <<0, 0, 1, 1>>}
MCTargets == {[turn |-> 1, data_phase |-> FALSE], [turn |-> 2, data_phase |-> TRUE]}
MCWords == {<<0, 1>>, <<1, 1>>}

MCChains == {<<4>>, <<4, 4>>, <<3, 4>>, <<4, 2, 4>>}
MCLayouts == MCChains \cup {<<>>, <<4, 4, 4, 4>>}
MCCodes == {<<0, 1>>, <<1, 0>>}
MCRequests == {<<1, 0, 1>>, <<0, 1, 0>>}

\* The side that is not in use stays in one of its initial states.
WiresInit == /\ session \in {"swd", "jtag"}
             /\ SwdInit /\ (session = "jtag" => wcr = [turn |-> 1, data_phase |-> FALSE])
             /\ Init /\ (session = "swd" => lens = <<4>>)

WiresNext == /\ UNCHANGED session
             /\ \/ session = "swd" /\ SwdNext /\ UNCHANGED vars
                \/ session = "jtag" /\ Next /\ UNCHANGED swdVars

WiresSpec == WiresInit /\ [][WiresNext]_<<session, vars, swdVars>>
=============================================================================
