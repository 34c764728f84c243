--------------------------- MODULE MC_CdcReceive ---------------------------
(* Two threads that read one port; a ring of two packets of two bytes.       *)
EXTENDS CdcReceive

CONSTANTS console, rtt

MCConsumers == {console, rtt}
OneConsumer == {console}
MCGetLengths == {1, 3}
=============================================================================
