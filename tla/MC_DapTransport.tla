-------------------------- MODULE MC_DapTransport --------------------------
(* Two packets on their way, as DAP_CONFIG_PACKET_COUNT allows; four requests. *)
EXTENDS DapTransport
=============================================================================
