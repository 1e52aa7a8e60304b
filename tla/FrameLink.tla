----------------------------- MODULE FrameLink -----------------------------
(***************************************************************************)
(* What one direction of the link promises.  Frames are numbered in the    *)
(* order they go on the air; a frame the receiver could hear from its      *)
(* first bit to its last, undamaged, is called intact.  Frames come out in *)
(* the order they were sent, none twice, and no intact frame is passed     *)
(* over or left behind.                                                    *)
(***************************************************************************)
EXTENDS Naturals, Sequences

CONSTANT MaxFrames

VARIABLES onAir,        \* how many frames have been started
          intact,       \* the frames that arrived whole
          delivered     \* the frames handed to the TUN, in order

Out == {delivered[i] : i \in DOMAIN delivered}

Init == onAir = 0 /\ intact = {} /\ delivered = <<>>

Send == onAir' = onAir + 1 /\ UNCHANGED <<intact, delivered>>

Arrive == intact' = intact \cup {onAir} /\ UNCHANGED <<onAir, delivered>>

Deliver(f) ==
  /\ \A g \in Out : g < f
  /\ \A g \in intact : g < f => g \in Out
  /\ delivered' = Append(delivered, f)
  /\ UNCHANGED <<onAir, intact>>

Next == Send \/ Arrive \/ \E f \in 1 .. onAir : Deliver(f)

Spec ==
  /\ Init /\ [][Next]_<<onAir, intact, delivered>>
  /\ \A f \in 1 .. MaxFrames : (f \in intact) ~> (f \in Out)
=============================================================================
