------------------------------ MODULE MC_AuxCdc ------------------------------
(* The aux thread reads up to three bytes; the ring holds two packets of two.  *)
EXTENDS AuxCdc

CONSTANTS aux_cdc, rtt_console

MCConsumers == {aux_cdc, rtt_console}
MCGetLengths == {1, 3}
=============================================================================
