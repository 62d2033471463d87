--------------------------- MODULE MCEventDecoder ---------------------------
(* Four frames of 20 bytes, which the chunks cut anywhere a prelude, a frame *)
(* or two frames may be cut.                                                 *)
EXTENDS EventDecoder

AllDamages == {"none", "length", "prelude", "message", "header", "type"}
=============================================================================
