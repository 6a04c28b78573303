------------------------------ MODULE MCPiFeed ------------------------------
(***************************************************************************)
(* PiFeed for TLC.                                                         *)
(***************************************************************************)
EXTENDS PiFeed

MCMessages == 3
MCSize == 1
MCRecords == 7
MCCommands == 1
=============================================================================
