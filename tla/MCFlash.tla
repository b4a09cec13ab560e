------------------------------ MODULE MCFlash ------------------------------
(* Flash with a sector of three pages, written round more than once. *)
EXTENDS Flash
=============================================================================
