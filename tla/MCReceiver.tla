----------------------------- MODULE MCReceiver -----------------------------
(* The receiver at a few bits a frame.  ReceiverKeepsUp: three frames, one *)
(* of them damaged anywhere or cut short, so that an intact frame can      *)
(* follow and precede it.  ReceiverOverrun: four frames, so that two       *)
(* intact ones can follow an overrun, and one silence longer than the      *)
(* timeout.  RxOverlap: the two frames an overrun takes.                   *)
EXTENDS Receiver
=============================================================================
