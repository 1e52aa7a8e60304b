----------------------------- MODULE MCBitRing -----------------------------
(* A ring of four bytes of two bits: long enough to fill, to empty and to  *)
(* wrap, with every content of the memory it was allocated in.             *)
EXTENDS BitRing
=============================================================================
