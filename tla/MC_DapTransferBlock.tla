------------------------ MODULE MC_DapTransferBlock ------------------------
(* Blocks of up to four transfers, packets of up to three words.              *)
EXTENDS DapTransferBlock
=============================================================================
