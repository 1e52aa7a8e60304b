------------------------------- MODULE MCRohc -------------------------------
(* Two IPv4 flows that differ in the address or in the protocol, one of    *)
(* them with fields that change, one packet with options, and an IPv6 flow *)
(* whose traffic class has two different halves.  The receiver sees every  *)
(* switch between them with every loss.                                    *)
EXTENDS Rohc

V4(nib, tos, b7, b9, addr) ==
  [ver |-> 4, nib |-> nib, tos |-> tos, label |-> 0, b6 |-> 0, b7 |-> b7, b8 |-> 1,
   b9 |-> b9, addr |-> addr, tail |-> 0]
V6(nib, tos, b7) ==
  [ver |-> 6, nib |-> nib, tos |-> tos, label |-> 0, b6 |-> 0, b7 |-> b7, b8 |-> 1,
   b9 |-> 1, addr |-> 3, tail |-> 3]

MCPackets ==
  {V4(5, 0, 0, 1, 1), V4(5, 1, 0, 1, 1), V4(5, 0, 1, 1, 1), V4(5, 0, 0, 2, 1),
   [V4(6, 0, 0, 1, 2) EXCEPT !["tail"] = 1],
   V6(0, 0, 0), V6(8, 1, 0), V6(8, 1, 1)}
MCDummy   == V4(5, 0, 0, 1, 2)
MCGarbled == {V4(5, 0, 0, 1, 3), V6(0, 0, 1)}
=============================================================================
