-------------------------- MODULE MCBitRingThreads --------------------------
(* Two bytes of two bits: the smallest ring in which a byte is opened while *)
(* the other is read, and enough bits to fill it and to wrap.               *)
EXTENDS BitRingThreads
=============================================================================
