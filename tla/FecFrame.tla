------------------------------ MODULE FecFrame ------------------------------
(***************************************************************************)
(* The coded frame: src/src/fec.c, the part of tun_to_rb that decides to   *)
(* code a payload, the header test of the receiver and the part of         *)
(* rb_to_tun that decodes it.                                              *)
(*                                                                         *)
(* A frame is a 2-byte prefix with the length of the payload, then one     *)
(* Reed-Solomon block of adaptive parity or, for a longer payload, several *)
(* blocks of N bytes, interleaved.  Bytes are positions: what is modelled  *)
(* of a Reed-Solomon block is its contract, that it restores the message   *)
(* when at most half its parity bytes are damaged, and otherwise fails or  *)
(* gives some other message.                                               *)
(***************************************************************************)
EXTENDS Integers, FiniteSets

CONSTANTS
  N, MSGBLK, PARITY,  \* FEC_RS_MAX_N 255, FEC_RS_MSGBLK 223, FEC_RS_PARITY_BLK 32
  SIZE_BUF,           \* 2048, the longest payload; the buffers hold twice that
  Lens,               \* payload bytes after ROHC or LZ4
  BurstLens,          \* bound: payloads a burst is tried on
  Bursts,             \* bound: bytes of a frame damaged by one burst
  Claims              \* bound: what a damaged prefix may be read as

ASSUME FecAssumption ==
  /\ {N, MSGBLK, PARITY, SIZE_BUF} \subseteq Nat \ {0}
  /\ N = MSGBLK + PARITY
  /\ Lens \subseteq 1 .. SIZE_BUF
  /\ BurstLens \subseteq Lens /\ Bursts \subseteq Nat \ {0} /\ Claims \subseteq Nat

VARIABLES
  stage,   \* "packet", "air", "rejected" or "done"
  d,       \* bytes of the payload
  fec,     \* the header's FEC flag
  len,     \* the header's length: bytes on the air
  burst,   \* history: the bytes damaged on the air
  claimed, \* what the prefix says when it is read
  out      \* the decoded payload: its bytes, and whether they are the sent ones

vars == <<stage, d, fec, len, burst, claimed, out>>

NoOut == [bytes |-> -1, same |-> FALSE]

-----------------------------------------------------------------------------
(* Lengths.                                                                *)

EccBytes(n) ==
  LET e == 2 * (n \div 5)
  IN  IF n < 4 THEN 2 ELSE IF e < 4 THEN 4 ELSE e

\* Mutant: the block count is rounded down.
BlocksFloor(n) == n \div MSGBLK

Blocks(n) == (n + MSGBLK - 1) \div MSGBLK

Single(n) == n + EccBytes(n) <= N

EncodedLen(n) ==
  CASE n <= 0               -> -1
    [] n > 0 /\ Single(n)   -> n + 2 + EccBytes(n)
    [] n > 0 /\ ~Single(n)  -> Blocks(n) * N + 2

\* Mutant: the prefix is forgotten in the length of several blocks.
ValidFecLenNoPrefix(n) ==
  /\ n >= 3
  /\ IF n <= N + 2 THEN \E m \in 1 .. N : EncodedLen(m) = n
     ELSE /\ n % N = 0
          /\ EncodedLen((n \div N) * MSGBLK) = n

\* is_valid_fec_len
ValidFecLen(n) ==
  /\ n >= 3
  /\ IF n <= N + 2 THEN \E m \in 1 .. N : EncodedLen(m) = n
     ELSE /\ (n - 2) % N = 0
          /\ EncodedLen(((n - 2) \div N) * MSGBLK) = n

\* is_valid_header, of a header whose LZ4 and ROHC flags are not both set
\* (tun_to_rb sets one at most).
ValidHeader == /\ len # 0 /\ len <= SIZE_BUF
               /\ fec => ValidFecLen(len)

-----------------------------------------------------------------------------
(* The layout of the air bytes: 0 and 1 are the prefix, the body follows.  *)

\* Mutant: the blocks are sent one after the other.
RowUninterleaved(i, nblocks) == i \div N

\* fec_interleave: the block that byte i of the body belongs to.
Row(i, nblocks) == i % nblocks

\* The damaged bytes of block r when the frame is read as nblocks blocks.
Errors(r, nblocks) == {a \in burst : a >= 2 /\ Row(a - 2, nblocks) = r}

\* rs_decode_block is sure to restore a block of ecc parity bytes.
Restores(nerrors, ecc) == nerrors <= ecc \div 2

-----------------------------------------------------------------------------
Init ==
  /\ stage = "packet"
  /\ d = 0 /\ fec = FALSE /\ len = 0
  /\ burst = {} /\ claimed = 0
  /\ out = NoOut

\* Mutant: the length in the header leaves the prefix out.
SendCodedNoPrefix ==
  /\ stage = "packet"
  /\ \E n \in Lens :
       /\ d' = n /\ claimed' = n
       /\ fec' = (EncodedLen(n) \in 1 .. (2 * SIZE_BUF))
       /\ len' = IF fec' THEN EncodedLen(n) - 2 ELSE n
  /\ stage' = "air"
  /\ UNCHANGED <<burst, out>>

\* tun_to_rb codes the payload, unless it does not fit fec_buf.
SendCoded ==
  /\ stage = "packet"
  /\ \E n \in Lens :
       /\ d' = n /\ claimed' = n
       /\ fec' = (EncodedLen(n) \in 1 .. (2 * SIZE_BUF))
       /\ len' = IF fec' THEN EncodedLen(n) ELSE n
  /\ stage' = "air"
  /\ UNCHANGED <<burst, out>>

\* Every hundredth packet goes out as it came, without compression or FEC.
SendRaw ==
  /\ stage = "packet"
  /\ \E n \in Lens : d' = n /\ claimed' = n /\ len' = n
  /\ fec' = FALSE
  /\ stage' = "air"
  /\ UNCHANGED <<burst, out>>

\* A burst on the air damages consecutive bytes.
Damage ==
  /\ stage = "air" /\ burst = {} /\ d \in BurstLens
  /\ \E a \in 0 .. (len - 1), b \in Bursts :
       /\ a + b <= len
       /\ burst' = a .. (a + b - 1)
  /\ claimed' \in IF ~fec \/ burst' \cap {0, 1} = {} THEN {claimed}
                  ELSE IF burst' = {0} THEN {claimed + 256}
                  ELSE Claims \ {claimed}
  /\ UNCHANGED <<stage, d, fec, len, out>>

\* handle_data_state refuses the header.
Reject ==
  /\ stage = "air" /\ ~ValidHeader
  /\ stage' = "rejected"
  /\ UNCHANGED <<d, fec, len, burst, claimed, out>>

\* A frame without FEC is taken as it is.
TakeRaw ==
  /\ stage = "air" /\ ValidHeader /\ ~fec
  /\ out' = [bytes |-> len, same |-> burst = {}]
  /\ stage' = "done"
  /\ UNCHANGED <<d, fec, len, burst, claimed>>

\* The blocks fec_decode reads the body as, and the parity of each.
BlocksRead(n) == IF Single(n) THEN 1 ELSE Blocks(n)
EccRead(n)    == IF Single(n) THEN EccBytes(n) ELSE PARITY

\* Mutant: a frame longer than its prefix calls for is accepted.
DecodeRefusedShort ==
  \/ len < 3
  \/ claimed \notin 1 .. (2 * SIZE_BUF)
  \/ EncodedLen(claimed) > len

\* fec_decode: the prefix does not go with the length of the frame.
DecodeRefused ==
  \/ len < 3
  \/ claimed \notin 1 .. (2 * SIZE_BUF)
  \/ EncodedLen(claimed) # len

\* Read with the sender's layout, every block restores its message.
BlocksRestored ==
  /\ Single(claimed) = Single(d)
  /\ BlocksRead(claimed) = BlocksRead(d)
  /\ \A r \in 0 .. (BlocksRead(claimed) - 1) :
       Restores(Cardinality(Errors(r, BlocksRead(claimed))), EccRead(claimed))

DecodeFails ==
  /\ stage = "air" /\ ValidHeader /\ fec
  /\ DecodeRefused \/ ~BlocksRestored
  /\ out' = NoOut
  /\ stage' = "done"
  /\ UNCHANGED <<d, fec, len, burst, claimed>>

\* A block with more errors than it corrects may pass for another codeword.
DecodeAnother ==
  /\ stage = "air" /\ ValidHeader /\ fec
  /\ ~DecodeRefused /\ ~BlocksRestored
  /\ out' = [bytes |-> claimed, same |-> FALSE]
  /\ stage' = "done"
  /\ UNCHANGED <<d, fec, len, burst, claimed>>

\* Mutant: the padding of the last block is not left out.
DecodePadded ==
  /\ stage = "air" /\ ValidHeader /\ fec
  /\ ~DecodeRefused /\ BlocksRestored
  /\ out' = [bytes |-> IF Single(claimed) THEN claimed ELSE Blocks(claimed) * MSGBLK,
             same |-> claimed = d]
  /\ stage' = "done"
  /\ UNCHANGED <<d, fec, len, burst, claimed>>

\* Every block is restored: as many bytes come out as the prefix says.
Decode ==
  /\ stage = "air" /\ ValidHeader /\ fec
  /\ ~DecodeRefused /\ BlocksRestored
  /\ out' = [bytes |-> claimed, same |-> claimed = d]
  /\ stage' = "done"
  /\ UNCHANGED <<d, fec, len, burst, claimed>>

Next == \/ SendCoded \/ SendRaw \/ Damage
        \/ Reject \/ TakeRaw \/ DecodeFails \/ DecodeAnother \/ Decode

Spec == Init /\ [][Next]_vars

-----------------------------------------------------------------------------
\* A decoded payload has as many bytes as its prefix says and no more than the
\* buffers of rb_to_tun hold; the prefix of an undamaged frame is its length.
TypeOK ==
  /\ stage \in {"packet", "air", "rejected", "done"}
  /\ d \in Lens \cup {0} /\ len \in Nat /\ fec \in BOOLEAN
  /\ claimed \in Nat
  /\ burst \subseteq 0 .. (len - 1)
  /\ out.bytes \in -1 .. (2 * SIZE_BUF) /\ out.same \in BOOLEAN
  /\ out.same => out.bytes = d

\* fec_encoded_len, is_valid_fec_len and fec_decode agree: a frame that is not
\* damaged and no longer than the header test allows is accepted and gives the
\* payload back, for every length, coded or not; a longer one is refused by its
\* header, never half decoded.
RoundTrip ==
  (stage \in {"done", "rejected"} /\ burst = {}) =>
    IF len <= SIZE_BUF THEN stage = "done" /\ out = [bytes |-> d, same |-> TRUE]
                       ELSE stage = "rejected"

\* The interleaver and the parity make good what they are for: a burst in the
\* body no longer than half the parity of one block for each of its blocks is
\* always restored, wherever it falls.
BurstRestored ==
  (/\ stage = "done" /\ fec
   /\ burst \cap {0, 1} = {}
   /\ Cardinality(burst) <= BlocksRead(d) * (EccRead(d) \div 2))
    => out.same

\* No parity covers the prefix and no CRC follows, but the header's length is a
\* second witness: while the frame of a payload is shorter than a full block, no
\* damage makes fec_decode give as many bytes as were not sent.  (From a full
\* block on, the payloads of one number of blocks pass for each other.)
PrefixRedundant ==
  (stage = "done" /\ fec /\ d + EccBytes(d) < N) => out.bytes \in {-1, d}
=============================================================================
