----------------------------- MODULE MCFecFrame -----------------------------
(* Every length the code can meet, and bursts on the lengths where the     *)
(* layout changes: short ones, the last of adaptive parity (183), the      *)
(* first and last of one full block (184, 223), two and three blocks, each *)
(* with bursts on either side of what its parity restores.                 *)
EXTENDS FecFrame

MCLens   == 1 .. 2048
MCClaims == 0 .. 300 \cup {399, 400, 401, 446, 447, 656, 669, 670, 1792, 4096, 4097}
=============================================================================
