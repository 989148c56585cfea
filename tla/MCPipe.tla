------------------------------- MODULE MCPipe -------------------------------
(***************************************************************************)
(* Small instances of Pipe.                                                *)
(***************************************************************************)
EXTENDS Pipe

CONSTANTS r, w
=============================================================================
