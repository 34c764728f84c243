------------------------------ MODULE JtagChain ------------------------------
(***************************************************************************)
(* A chain of JTAG devices as the probe sees it: one TAP controller state  *)
(* (all devices share TMS and TCK), and between TDI and TDO the register   *)
(* each device has selected.  Device 1 is the one next to TDO.  Bits are   *)
(* kept in the order in which they are shifted.  This is the other end of  *)
(* the wire for dap.c, not code of the repository.                         *)
(***************************************************************************)
EXTENDS Naturals, Sequences, SequencesExt

CONSTANTS DataBits   \* the 32 bits of a data word and of an ID code

ASSUME DataAssumption == DataBits \in Nat \ {0}

Bits == {0, 1}
ARM_JTAG_IR_LENGTH == 4

\* Instructions of an ARM debug port, lowest bit first.
ABORT == <<0, 0, 0, 1>>
DPACC == <<0, 1, 0, 1>>
APACC == <<1, 1, 0, 1>>
IDCODE == <<0, 1, 1, 1>>
Bypass(len) == [k \in 1..len |-> 1]

\* The state that follows tap when TMS is 0 or 1 at a clock.
TapNext(tap, tms) ==
    CASE tap = "Reset"      -> IF tms = 1 THEN "Reset" ELSE "Idle"
      [] tap = "Idle"       -> IF tms = 1 THEN "Select-DR" ELSE "Idle"
      [] tap = "Select-DR"  -> IF tms = 1 THEN "Select-IR" ELSE "Capture-DR"
      [] tap = "Capture-DR" -> IF tms = 1 THEN "Exit1-DR" ELSE "Shift-DR"
      [] tap = "Shift-DR"   -> IF tms = 1 THEN "Exit1-DR" ELSE "Shift-DR"
      [] tap = "Exit1-DR"   -> IF tms = 1 THEN "Update-DR" ELSE "Pause-DR"
      [] tap = "Pause-DR"   -> IF tms = 1 THEN "Exit2-DR" ELSE "Pause-DR"
      [] tap = "Exit2-DR"   -> IF tms = 1 THEN "Update-DR" ELSE "Shift-DR"
      [] tap = "Update-DR"  -> IF tms = 1 THEN "Select-DR" ELSE "Idle"
      [] tap = "Select-IR"  -> IF tms = 1 THEN "Reset" ELSE "Capture-IR"
      [] tap = "Capture-IR" -> IF tms = 1 THEN "Exit1-IR" ELSE "Shift-IR"
      [] tap = "Shift-IR"   -> IF tms = 1 THEN "Exit1-IR" ELSE "Shift-IR"
      [] tap = "Exit1-IR"   -> IF tms = 1 THEN "Update-IR" ELSE "Pause-IR"
      [] tap = "Pause-IR"   -> IF tms = 1 THEN "Exit2-IR" ELSE "Pause-IR"
      [] tap = "Exit2-IR"   -> IF tms = 1 THEN "Update-IR" ELSE "Shift-IR"
      [] tap = "Update-IR"  -> IF tms = 1 THEN "Select-DR" ELSE "Idle"

\* The sum of the first n numbers of s.
Total(s, n) ==
    LET sum[k \in 0..Len(s)] == IF k = 0 THEN 0 ELSE sum[k - 1] + s[k]
    IN sum[n]

\* The part of shift register sr that belongs to device d, when device e has
\* sizes[e] bits in it.
Segment(sr, sizes, d) == SubSeq(sr, Total(sizes, d - 1) + 1, Total(sizes, d))

IrLens(t) == [d \in DOMAIN t.irs |-> Len(t.irs[d])]

\* Data registers: an access register has three bits before the data; every
\* instruction that is not the ARM one above selects one bit of bypass.
DrLen(ir) == CASE ir \in {ABORT, DPACC, APACC} -> DataBits + 3
               [] ir = IDCODE -> DataBits
               [] OTHER -> 1
DrLens(t) == [d \in DOMAIN t.irs |-> DrLen(t.irs[d])]

\* What device d puts into its data register: its acknowledge and its data, its
\* ID code, or the 0 of bypass.
Captured(t, d) == CASE t.irs[d] \in {ABORT, DPACC, APACC} -> t.ack \o t.data[d]
                    [] t.irs[d] = IDCODE -> t.data[d]
                    [] OTHER -> <<0>>

\* A clock with these levels of TMS and TDI; a bit shifted out is added to tdo.
Clock(t, pins) ==
    LET u == [t EXCEPT !.tap = TapNext(t.tap, pins.tms)]
    IN CASE t.tap \in {"Shift-DR", "Shift-IR"} ->
              [u EXCEPT !.sr = Append(Tail(t.sr), pins.tdi), !.tdo = Append(t.tdo, Head(t.sr))]
         [] t.tap = "Capture-IR" -> [u EXCEPT !.sr = FlattenSeq([d \in DOMAIN t.irs |-> Bypass(Len(t.irs[d]))])]
         [] t.tap = "Capture-DR" -> [u EXCEPT !.sr = FlattenSeq([d \in DOMAIN t.irs |-> Captured(t, d)])]
         [] t.tap = "Update-IR" -> [u EXCEPT !.irs = [d \in DOMAIN t.irs |-> Segment(t.sr, IrLens(t), d)]]
         [] t.tap = "Update-DR" -> [u EXCEPT !.drs = [d \in DOMAIN t.irs |-> Segment(t.sr, DrLens(t), d)]]
         [] OTHER -> u

\* The chain after a sequence of clocks.
After(t, clocks) ==
    LET after[k \in 0..Len(clocks)] == IF k = 0 THEN t ELSE Clock(after[k - 1], clocks[k])
    IN after[Len(clocks)]

\* The same, with only the bits of that sequence in tdo.
Run(t, clocks) == After([t EXCEPT !.tdo = <<>>], clocks)

\* The last n bits that came out.
LastBits(t, n) == SubSeq(t.tdo, Len(t.tdo) - n + 1, Len(t.tdo))

\* What counts of a chain after a scan, and between two requests.
Rest(t) == [t EXCEPT !.tdo = <<>>, !.sr = <<>>]
Fresh(t) == [t EXCEPT !.ack = <<0, 0, 0>>, !.data = [d \in DOMAIN t.irs |-> <<>>],
                      !.drs = [d \in DOMAIN t.irs |-> <<>>]]
=============================================================================
