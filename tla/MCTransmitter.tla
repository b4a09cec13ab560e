--------------------------- MODULE MCTransmitter ---------------------------
(* Transmitter with a pipe of three chunks and frames of one and two bytes. *)
EXTENDS Transmitter

MCFrame == {<<1>>, <<2, 3>>}
=============================================================================
