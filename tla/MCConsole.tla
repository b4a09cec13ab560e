----------------------------- MODULE MCConsole -----------------------------
(* Console with small alphabets.  Keys and short payloads are interchangeable. *)
EXTENDS Console, TLC

Symmetry == Permutations(Secret) \cup Permutations(Payload \ LongPayload)
=============================================================================
