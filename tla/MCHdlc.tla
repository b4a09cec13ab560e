------------------------------- MODULE MCHdlc -------------------------------
(* Hdlc with the bytes that matter to bit stuffing: five ones at either end, *)
(* a flag, all ones.                                                         *)
EXTENDS Hdlc

MCByte == {31, 126, 248, 255}
=============================================================================
