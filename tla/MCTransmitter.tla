--------------------------- MODULE MCTransmitter ---------------------------
(* A ring of 8 bytes of 2 bits and a room of 6 bytes asked for: frames of  *)
(* two bytes are the longest that fit, those of three miss by one bit.     *)
(* Several frames queue up, main has to wait, and the indices wrap.  The   *)
(* memory starts zeroed: MCBitRing shows that its content does not matter. *)
EXTENDS Transmitter

MCInit == Init /\ buf = [i \in Slot |-> Zero]
MCSpec == MCInit /\ [][Next]_vars /\ Fairness
=============================================================================
