-------------------------------- MODULE MCAgc --------------------------------
(* Windows with and without packets and on either side of each reason to   *)
(* unlock, and levels below, between and above the limits; of the levels   *)
(* between, -16 is less than DROP from -20 and -12 is not.                 *)
EXTENDS Agc

W(s, p, c) == [sync |-> s, pkts |-> p, corrupt |-> c]
G(t, r)    == [tx |-> t, rx |-> r]

MCWindows == {W(0, 0, 0), W(2, 2, 0), W(0, 1, 0), W(1, 0, 1), W(2, 0, 2), W(3, 3, 1)}
MCLevels  == {-30, -20, -16, -12, -2}
MCWarm    == G(2, 0)
MCReady   == G(1, 0)
MCBase    == G(1, 1)
MCMin     == -26
MCMax     == -3
=============================================================================
