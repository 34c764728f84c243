--------------------------- MODULE MC_DapTransfer ---------------------------
(* Packets of up to three requests, two tries, a response of two words.        *)
EXTENDS DapTransfer
=============================================================================
