--------------------------- MODULE MCServiceProgram ---------------------------
(* ServiceProgram with room for three reports beyond the necessary ones. *)
EXTENDS ServiceProgram
===============================================================================
