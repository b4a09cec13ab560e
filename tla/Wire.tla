-------------------------------- MODULE Wire --------------------------------
(***************************************************************************)
(* How a frame lies in tp->send_queue: the 16-bit length (address, control *)
(* and information fields and FCS), low byte first, then its bytes.        *)
(* Nothing else marks where one frame ends and the next begins, so reader  *)
(* and writers must agree on every byte.                                   *)
(***************************************************************************)
EXTENDS Naturals, Sequences

CONSTANT Radix      \* values of a byte: 256, smaller in the small instances

ASSUME RadixAssumption == Radix \in Nat \ {0, 1}

LengthLo(n) == n % Radix
LengthHi(n) == (n \div Radix) % Radix

Wire(f) == <<LengthLo(Len(f)), LengthHi(Len(f))>> \o f

\* What SP_DATA_START makes of two bytes.
LengthOf(lo, hi) == lo + hi * Radix
=============================================================================
