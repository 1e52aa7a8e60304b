------------------------------ MODULE MCBitSync ------------------------------
(* The real words and scrambler.  The payload is long enough for a slip in *)
(* its first half to show that nothing heals in 17 bits.                   *)
EXTENDS BitSync

\* 0x930B51DE and 0xAAAA.
MCSync == <<1,0,0,1, 0,0,1,1, 0,0,0,0, 1,0,1,1, 0,1,0,1, 0,0,0,1, 1,1,0,1, 1,1,1,0>>
MCPreamble == [i \in 1 .. 16 |-> i % 2]
MCGap      == <<1, 1, 1, 1>>
MCPayload  == [i \in 1 .. 48 |-> IF i \in {2, 3, 5, 8, 13, 21, 22, 34, 35, 40} THEN 1 ELSE 0]
MCResetAt  == {20, 52, 60, 68, 100, 120, 130, 151}
=============================================================================
