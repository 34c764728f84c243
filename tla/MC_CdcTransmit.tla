--------------------------- MODULE MC_CdcTransmit ---------------------------
(* Three writers: the gdb server on port 0, the uart and the can bridge on    *)
(* port 1.  A packet is two bytes long; messages are empty, short or full.    *)
EXTENDS CdcTransmit

CONSTANTS gdb, uart, can

MCWriters == {gdb, uart, can}
MCPort == [w \in MCWriters |-> IF w = gdb THEN 0 ELSE 1]
MCLengths == 0..2
=============================================================================
