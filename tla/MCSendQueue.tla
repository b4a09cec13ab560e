---------------------------- MODULE MCSendQueue ----------------------------
(* SendQueue with room for about two frames and two-byte lengths. *)
EXTENDS SendQueue
=============================================================================
