---------------------------- MODULE MCTransfer ----------------------------
EXTENDS Transfer, TLC
CONSTANTS two, one, wide
(* Payloads of two pieces, of one, and of more pieces than Width.           *)
MCPieces == two :> 2 @@ one :> 1 @@ wide :> 4
=============================================================================
