--------------------------- MODULE FecFrameProofs ---------------------------
(***************************************************************************)
(* Proofs about the coded frame, for every size of a Reed-Solomon block,   *)
(* every split of it into message and parity, and every payload length:    *)
(* the runs fix those at the code's 255, 223 and 32.                       *)
(*                                                                         *)
(* None of the properties is inductive: all but one speak of the end of a  *)
(* frame's way only, so they say nothing while it is on the air.  OnAir    *)
(* does: the header's length is the one tun_to_rb computed, the damage is  *)
(* one run of bytes, and the prefix says the payload's length unless the   *)
(* damage touches it.                                                      *)
(***************************************************************************)
EXTENDS FecFrame, FiniteSetTheorems, TLAPS

\* Consecutive bytes, or none.
IsRun(S) == S = {} \/ \E a \in Nat, b \in Nat \ {0} : S = a .. (a + b - 1)

OnAir ==
  stage # "packet" =>
    /\ d \in 1 .. SIZE_BUF
    /\ IF fec THEN len = EncodedLen(d) /\ len <= 2 * SIZE_BUF ELSE len = d
    /\ IsRun(burst)
    /\ (~fec \/ burst \cap {0, 1} = {}) => claimed = d

Before ==
  /\ stage = "packet" => burst = {}
  /\ stage \in {"packet", "air"} => out = NoOut

FecInv == /\ TypeOK /\ Before /\ OnAir
          /\ RoundTrip /\ BurstRestored /\ PrefixRedundant

-----------------------------------------------------------------------------
(* Lengths.                                                                *)

LEMMA Sizes ==
  /\ N \in Nat /\ MSGBLK \in Nat /\ PARITY \in Nat /\ SIZE_BUF \in Nat
  /\ N > 0 /\ MSGBLK > 0 /\ PARITY > 0 /\ SIZE_BUF > 0
  /\ N = MSGBLK + PARITY
BY FecAssumption

\* The adaptive parity never shrinks when the message grows.
LEMMA EccFacts ==
  ASSUME NEW n \in Nat
  PROVE  /\ EccBytes(n) \in Nat /\ EccBytes(n) >= 2
         /\ \A m \in Nat : m < n => EccBytes(m) <= EccBytes(n)
BY DEF EccBytes

\* So a message longer than one that does not fit a block does not fit it.
LEMMA SingleFacts ==
  ASSUME NEW m \in Nat, NEW n \in Nat, m <= n
  PROVE  /\ ~Single(m) => ~Single(n)
         /\ m < n => m + EccBytes(m) < n + EccBytes(n)
BY EccFacts, Sizes DEF Single

\* The blocks hold the message; whole blocks of message are that many blocks.
LEMMA BlocksFacts ==
  ASSUME NEW n \in Nat, n > 0
  PROVE  /\ Blocks(n) \in Nat /\ Blocks(n) >= 1
         /\ n <= Blocks(n) * MSGBLK
         /\ Blocks(Blocks(n) * MSGBLK) = Blocks(n)
         /\ Blocks(n) = 1 => n <= MSGBLK
<1>1. Blocks(n) \in Nat /\ Blocks(n) >= 1 /\ n <= Blocks(n) * MSGBLK
  BY Sizes DEF Blocks
<1>2. \A b \in Nat : Blocks(b * MSGBLK) = b
  BY Sizes DEF Blocks
<1>3. Blocks(n) = 1 => n <= MSGBLK
  BY <1>1, Sizes
<1> QED BY <1>1, <1>2, <1>3

\* The division by N that is_valid_fec_len does of a frame of b blocks.
LEMMA WholeBlocks ==
  ASSUME NEW b \in Nat
  PROVE  /\ b * N \in Nat
         /\ (b * N) % N = 0 /\ (b * N) \div N = b
         /\ b >= 1 => b * N >= N
         /\ b > 1 => b * N > N
BY Sizes

\* fec_encoded_len in its two branches.
LEMMA EncodedLenFacts ==
  ASSUME NEW n \in Nat, n > 0
  PROVE  /\ Single(n) => EncodedLen(n) = n + 2 + EccBytes(n)
         /\ ~Single(n) => EncodedLen(n) = Blocks(n) * N + 2 /\ EncodedLen(n) >= N + 2
         /\ EncodedLen(n) \in Nat /\ EncodedLen(n) >= 3
<1>1. Single(n) => EncodedLen(n) = n + 2 + EccBytes(n)
  BY DEF EncodedLen
<1>2. ~Single(n) => EncodedLen(n) = Blocks(n) * N + 2 /\ EncodedLen(n) >= N + 2
  <2>1. ~Single(n) => EncodedLen(n) = Blocks(n) * N + 2
    BY DEF EncodedLen
  <2>2. Blocks(n) * N \in Nat /\ Blocks(n) * N >= N
    BY BlocksFacts, WholeBlocks
  <2> QED BY <2>1, <2>2, Sizes
<1>3. Blocks(n) * N \in Nat
  BY BlocksFacts, WholeBlocks
<1>4. EccBytes(n) \in Nat
  BY EccFacts
<1> QED BY <1>1, <1>2, <1>3, <1>4, Sizes DEF EncodedLen

\* The header test of the receiver takes every length the sender can compute.
LEMMA SentLenIsValid ==
  ASSUME NEW n \in Nat, n > 0
  PROVE  ValidFecLen(EncodedLen(n))
<1>1. EncodedLen(n) \in Nat /\ EncodedLen(n) >= 3
  BY EncodedLenFacts
<1>2. CASE Single(n)
  <2>1. n \in 1 .. N /\ EncodedLen(n) <= N + 2
    BY <1>2, EncodedLenFacts, EccFacts, Sizes DEF Single
  <2> QED BY <1>1, <2>1 DEF ValidFecLen
<1>3. CASE ~Single(n) /\ Blocks(n) = 1
  <2>1. n \in 1 .. N
    BY <1>3, BlocksFacts, Sizes
  <2>2. EncodedLen(n) <= N + 2
    BY <1>3, EncodedLenFacts, Sizes
  <2> QED BY <1>1, <2>1, <2>2 DEF ValidFecLen
<1>4. CASE ~Single(n) /\ Blocks(n) # 1
  <2> DEFINE b == Blocks(n)
             m == b * MSGBLK
  <2>1. b \in Nat /\ b > 1 /\ m \in Nat /\ m > 0 /\ n <= m
    BY <1>4, BlocksFacts, Sizes
  <2>2. ~Single(m) /\ Blocks(m) = b
    BY <1>4, <2>1, SingleFacts, BlocksFacts
  <2>3. EncodedLen(n) = b * N + 2 /\ EncodedLen(m) = b * N + 2
    BY <1>4, <2>1, <2>2, EncodedLenFacts
  <2>4. b * N \in Nat /\ b * N > N /\ (b * N) % N = 0 /\ (b * N) \div N = b
    BY <2>1, WholeBlocks
  <2> HIDE DEF b
  <2>5. EncodedLen(n) - 2 = b * N /\ EncodedLen(n) > N + 2
    BY <2>3, <2>4, Sizes
  <2>7. /\ (EncodedLen(n) - 2) % N = 0
        /\ EncodedLen(((EncodedLen(n) - 2) \div N) * MSGBLK) = EncodedLen(n)
    BY <2>3, <2>4, <2>5
  <2>6. ~(EncodedLen(n) <= N + 2)
    BY <1>1, <2>5, Sizes
  <2> QED BY <1>1, <2>6, <2>7 DEF ValidFecLen
<1> QED BY <1>2, <1>3, <1>4

-----------------------------------------------------------------------------
(* The interleaver.                                                        *)

\* Of any b consecutive bytes, at most k fall into one of nb blocks when b is
\* at most nb * k, whichever byte the run starts at.
LEMMA RunSpread ==
  ASSUME NEW a \in Nat, NEW b \in Nat, NEW nb \in Nat \ {0}, NEW k \in Nat,
         a >= 2, b <= nb * k, NEW r \in 0 .. (nb - 1)
  PROVE  Cardinality({x \in a .. (a + b - 1) : Row(x - 2, nb) = r}) <= k
<1> DEFINE S  == {x \in a .. (a + b - 1) : Row(x - 2, nb) = r}
           lo == (a - 2 - r + nb - 1) \div nb
           T  == lo .. (lo + k - 1)
           f  == [x \in S |-> (x - 2) \div nb]
<1>1. lo \in Nat /\ nb * lo >= a - 2 - r
  <2>1. a - 2 - r + nb - 1 \in Nat
    OBVIOUS
  <2> QED BY <2>1
<1>2. ASSUME NEW x \in S
      PROVE  /\ (x - 2) \div nb \in T
             /\ x - 2 = nb * ((x - 2) \div nb) + r
  <2>1. x - 2 \in Nat /\ x <= a + b - 1 /\ x >= a
    OBVIOUS
  <2>2. PICK q \in Nat : q = (x - 2) \div nb /\ x - 2 = nb * q + r
    BY <2>1 DEF Row
  <2>3. nb * q >= a - 2 - r /\ nb * q < nb * lo + nb * k
    BY <1>1, <2>1, <2>2
  <2>4. q < lo + k
    <3> SUFFICES ASSUME q >= lo + k PROVE FALSE
      BY <1>1
    <3> DEFINE e == q - lo - k
    <3>1. e \in Nat /\ q = lo + k + e
      BY <1>1
    <3>2. nb * q = nb * lo + nb * k + nb * e /\ nb * e \in Nat
      BY <3>1, <1>1
    <3> QED BY <3>2, <2>3, <1>1
  <2>5. q >= lo
    <3> SUFFICES ASSUME q < lo PROVE FALSE
      BY <1>1
    <3> DEFINE e == lo - q - 1
    <3>1. e \in Nat /\ lo = q + 1 + e
      BY <1>1
    <3>2. nb * lo = nb * q + nb + nb * e /\ nb * e \in Nat
      BY <3>1, <1>1
    <3>3. nb * lo <= a - 2 - r + nb - 1
      BY <2>1
    <3> QED BY <3>2, <3>3, <2>3
  <2> QED BY <1>1, <2>2, <2>4, <2>5
<1>3. f \in Injection(S, T)
  <2>1. f \in [S -> T]
    BY <1>2
  <2>2. ASSUME NEW x \in S, NEW y \in S, f[x] = f[y]
        PROVE  x = y
    <3>1. x - 2 = nb * ((x - 2) \div nb) + r /\ y - 2 = nb * ((y - 2) \div nb) + r
      BY <1>2
    <3>2. (x - 2) \div nb = (y - 2) \div nb
      BY <2>2
    <3>3. x \in Int /\ y \in Int
      OBVIOUS
    <3> QED BY <3>1, <3>2, <3>3
  <2> HIDE DEF S, T, f
  <2> QED BY <2>1, <2>2 DEF Injection, IsInjective
<1>4. IsFiniteSet(T) /\ Cardinality(T) = k
  <2>1. lo \in Int /\ lo + k - 1 \in Int
    BY <1>1
  <2> QED BY <1>1, <2>1, FS_Interval
<1> HIDE DEF S, T, f
<1>5. Cardinality(S) <= Cardinality(T)
  BY <1>3, <1>4, FS_Injection
<1> QED BY <1>4, <1>5 DEF S

\* A frame whose prefix survived is read with the sender's layout, and every
\* block of it is restored when the damage is at most half the parity of a block
\* for each block.
LEMMA BurstIsRestored ==
  ASSUME d \in Nat, d > 0, claimed = d,
         IsRun(burst), burst \cap {0, 1} = {},
         Cardinality(burst) <= BlocksRead(d) * (EccRead(d) \div 2)
  PROVE  BlocksRestored
<1> DEFINE nb == BlocksRead(d)
           k  == EccRead(d) \div 2
<1>1. nb \in Nat \ {0} /\ k \in Nat
  BY EccFacts, BlocksFacts, Sizes DEF BlocksRead, EccRead
<1>2. ASSUME NEW r \in 0 .. (nb - 1)
      PROVE  Cardinality(Errors(r, nb)) <= k
  <2>1. CASE burst = {}
    <3>1. Errors(r, nb) = {}
      BY <2>1 DEF Errors
    <3> QED BY <3>1, <1>1, FS_EmptySet
  <2>2. CASE burst # {}
    <3>1. PICK a \in Nat, b \in Nat \ {0} : burst = a .. (a + b - 1)
      BY <2>2 DEF IsRun
    <3>2. a >= 2
      <4>1. a \in burst
        BY <3>1
      <4> QED BY <4>1, <3>1
    <3>3. Cardinality(burst) = b
      <4>1. Cardinality(a .. (a + b - 1)) = b
        BY FS_Interval
      <4> QED BY <4>1, <3>1
    <3>4. Errors(r, nb) = {x \in a .. (a + b - 1) : Row(x - 2, nb) = r}
      BY <3>1, <3>2 DEF Errors
    <3>5. b <= nb * k
      BY <3>3
    <3> HIDE DEF nb, k
    <3>6. Cardinality({x \in a .. (a + b - 1) : Row(x - 2, nb) = r}) <= k
      <4>1. b \in Nat
        OBVIOUS
      <4> QED BY <3>2, <3>5, <4>1, <1>1, RunSpread, ZenonT(30)
    <3> QED BY <3>4, <3>6
  <2> QED BY <2>1, <2>2
<1> QED BY <1>2 DEF BlocksRestored, Restores

-----------------------------------------------------------------------------
(* The invariant.                                                          *)

LEMMA InitFec == Init => FecInv
<1> SUFFICES ASSUME Init PROVE FecInv
  OBVIOUS
<1>1. fec \in BOOLEAN /\ out.same \in BOOLEAN /\ ~out.same /\ out.bytes = -1
  BY Zenon DEF Init, NoOut
<1>2. TypeOK
  BY <1>1, Sizes DEF Init, TypeOK
<1>3. Before /\ OnAir /\ RoundTrip /\ BurstRestored /\ PrefixRedundant
  BY DEF Init, Before, OnAir, RoundTrip, BurstRestored, PrefixRedundant
<1> QED BY <1>2, <1>3 DEF FecInv

\* The header test passes exactly the frames that are not too long.
LEMMA HeaderTest ==
  ASSUME FecInv, stage # "packet"
  PROVE  /\ len \in Nat /\ len > 0
         /\ ValidHeader <=> len <= SIZE_BUF
<1>1. d \in Nat /\ d > 0 /\ len \in Nat
  BY Sizes DEF FecInv, OnAir, TypeOK
<1>2. CASE fec
  BY <1>1, <1>2, EncodedLenFacts, SentLenIsValid DEF FecInv, OnAir, ValidHeader
<1>3. CASE ~fec
  BY <1>1, <1>3 DEF FecInv, OnAir, ValidHeader
<1> QED BY <1>2, <1>3

\* tun_to_rb puts a frame on the air.
LEMMA SendFec ==
  ASSUME FecInv, SendCoded \/ SendRaw
  PROVE  FecInv'
<1> USE DEF FecInv
<1>1. PICK n \in Lens : /\ d' = n /\ claimed' = n
                        /\ IF fec' THEN len' = EncodedLen(n) /\ len' <= 2 * SIZE_BUF
                                   ELSE len' = n
  <2>1. CASE SendCoded
    <3>1. PICK n \in Lens : /\ d' = n /\ claimed' = n
                            /\ fec' = (EncodedLen(n) \in 1 .. (2 * SIZE_BUF))
                            /\ len' = IF fec' THEN EncodedLen(n) ELSE n
      BY <2>1 DEF SendCoded
    <3>2. fec' => EncodedLen(n) \in 1 .. (2 * SIZE_BUF)
      BY <3>1, Zenon
    <3>3. fec' => len' <= 2 * SIZE_BUF
      BY <3>1, <3>2, Sizes
    <3> QED BY <3>1, <3>3
  <2>2. CASE SendRaw
    BY <2>2, Zenon DEF SendRaw
  <2> QED BY <2>1, <2>2
<1>2. n \in 1 .. SIZE_BUF /\ n \in Nat /\ n > 0 /\ EncodedLen(n) \in Nat
  <2>1. n \in 1 .. SIZE_BUF
    BY FecAssumption
  <2>2. n \in Nat /\ n > 0
    BY <2>1, Sizes
  <2> QED BY <2>1, <2>2, EncodedLenFacts
<1>3. /\ stage = "packet" /\ stage' = "air" /\ burst' = {} /\ out' = NoOut
      /\ fec' \in BOOLEAN
  <2>1. stage = "packet" /\ stage' = "air" /\ UNCHANGED <<burst, out>>
    BY DEF SendCoded, SendRaw
  <2>2. fec' \in BOOLEAN
    <3>1. CASE SendCoded
      <4>1. PICK m \in Lens : fec' = (EncodedLen(m) \in 1 .. (2 * SIZE_BUF))
        BY <3>1, Zenon DEF SendCoded
      <4>2. (EncodedLen(m) \in 1 .. (2 * SIZE_BUF)) \in BOOLEAN
        OBVIOUS
      <4> QED BY <4>1, <4>2, Zenon
    <3>2. CASE SendRaw
      BY <3>2, Zenon DEF SendRaw
    <3> QED BY <3>1, <3>2
  <2> QED BY <2>1, <2>2 DEF Before
<1>4. out'.same = FALSE /\ out'.bytes = -1
  BY <1>3 DEF NoOut
<1>5. TypeOK'
  <2>1. d' \in Lens \cup {0} /\ len' \in Nat /\ claimed' \in Nat
    BY <1>1, <1>2
  <2>2. out'.bytes \in -1 .. (2 * SIZE_BUF)
    BY <1>4, Sizes
  <2> QED BY <2>1, <2>2, <1>3, <1>4 DEF TypeOK
<1>6. OnAir'
  BY <1>1, <1>2, <1>3 DEF OnAir, IsRun
<1>7. Before' /\ RoundTrip' /\ BurstRestored' /\ PrefixRedundant'
  BY <1>3 DEF Before, RoundTrip, BurstRestored, PrefixRedundant
<1> QED BY <1>5, <1>6, <1>7

\* A burst damages the bytes of one run, and the prefix only if it touches it.
LEMMA DamageFec ==
  ASSUME FecInv, Damage
  PROVE  FecInv'
<1> USE DEF FecInv
<1>1. /\ stage = "air" /\ UNCHANGED <<stage, d, fec, len, out>>
      /\ len \in Nat /\ claimed \in Nat
  BY DEF Damage, TypeOK
<1>2. PICK a \in 0 .. (len - 1), b \in Bursts :
        a + b <= len /\ burst' = a .. (a + b - 1)
  BY DEF Damage
<1>3. a \in Nat /\ b \in Nat \ {0}
  BY <1>1, <1>2, FecAssumption
<1>4. IsRun(burst') /\ burst' \subseteq 0 .. (len - 1)
  <2>1. IsRun(burst')
    BY <1>2, <1>3 DEF IsRun
  <2>2. burst' \subseteq 0 .. (len - 1)
    BY <1>1, <1>2, <1>3
  <2> QED BY <2>1, <2>2
<1>5. claimed' \in Nat /\ ((~fec \/ burst' \cap {0, 1} = {}) => claimed' = claimed)
  <2>1. Claims \subseteq Nat
    BY FecAssumption
  <2>2. claimed' \in IF ~fec \/ burst' \cap {0, 1} = {} THEN {claimed}
                     ELSE IF burst' = {0} THEN {claimed + 256}
                     ELSE Claims \ {claimed}
    BY DEF Damage
  <2> QED BY <1>1, <2>1, <2>2
<1>6. TypeOK'
  BY <1>1, <1>4, <1>5 DEF TypeOK
<1>7. OnAir'
  <2>1. d \in 1 .. SIZE_BUF /\ IF fec THEN len = EncodedLen(d) /\ len <= 2 * SIZE_BUF
                                     ELSE len = d
    BY <1>1 DEF OnAir
  <2>2. (~fec \/ burst' \cap {0, 1} = {}) => claimed' = d
    <3>1. burst = {}
      BY DEF Damage
    <3> QED BY <1>1, <1>5, <3>1 DEF OnAir
  <2> QED BY <1>1, <1>4, <2>1, <2>2 DEF OnAir, IsRun
<1>8. Before' /\ RoundTrip' /\ BurstRestored' /\ PrefixRedundant'
  BY <1>1 DEF Before, RoundTrip, BurstRestored, PrefixRedundant
<1> QED BY <1>6, <1>7, <1>8

\* The header is refused only of a frame that is too long.
LEMMA RejectFec ==
  ASSUME FecInv, Reject
  PROVE  FecInv'
<1> USE DEF FecInv
<1>1. /\ stage = "air" /\ stage' = "rejected"
      /\ UNCHANGED <<d, fec, len, burst, claimed, out>>
      /\ ~(len <= SIZE_BUF)
  BY HeaderTest DEF Reject
<1>2. TypeOK' /\ OnAir'
  BY <1>1 DEF TypeOK, OnAir, IsRun
<1>3. Before' /\ RoundTrip' /\ BurstRestored' /\ PrefixRedundant'
  BY <1>1 DEF Before, RoundTrip, BurstRestored, PrefixRedundant
<1> QED BY <1>2, <1>3

\* A frame without FEC: what arrives is what comes out.
LEMMA TakeRawFec ==
  ASSUME FecInv, TakeRaw
  PROVE  FecInv'
<1> USE DEF FecInv
<1>1. /\ stage = "air" /\ stage' = "done" /\ ~fec
      /\ UNCHANGED <<d, fec, len, burst, claimed>>
      /\ len <= SIZE_BUF /\ len \in Nat /\ d = len
  BY HeaderTest DEF TakeRaw, OnAir
<1>2. out'.bytes = d /\ out'.same = (burst = {}) /\ out'.same \in BOOLEAN
  BY <1>1 DEF TakeRaw
<1>3. burst = {} => out' = [bytes |-> d, same |-> TRUE]
  BY <1>1 DEF TakeRaw
<1>4. out'.bytes \in -1 .. (2 * SIZE_BUF)
  BY <1>1, <1>2, Sizes
<1>5. TypeOK'
  BY <1>1, <1>2, <1>4 DEF TypeOK
<1>6. OnAir'
  BY <1>1 DEF OnAir, IsRun
<1>7. Before' /\ RoundTrip' /\ BurstRestored' /\ PrefixRedundant'
  BY <1>1, <1>3 DEF Before, RoundTrip, BurstRestored, PrefixRedundant
<1> QED BY <1>5, <1>6, <1>7

\* A prefix that fec_decode accepts although it is not the one sent means that
\* the frame has several blocks: below a full block the length gives it away.
LEMMA PrefixBound ==
  ASSUME FecInv, stage = "air", fec, ~DecodeRefused, d + EccBytes(d) < N
  PROVE  claimed = d
<1>1. /\ d \in Nat /\ d > 0 /\ claimed \in Nat /\ claimed > 0
      /\ EncodedLen(claimed) = EncodedLen(d)
  BY Sizes DEF FecInv, OnAir, DecodeRefused
<1>2. EccBytes(d) \in Nat /\ EccBytes(claimed) \in Nat
  BY <1>1, EccFacts
<1>3. EncodedLen(d) = d + 2 + EccBytes(d) /\ EncodedLen(d) < N + 2
  BY <1>1, <1>2, EncodedLenFacts, Sizes DEF Single
<1>4. Single(claimed)
  BY <1>1, <1>2, <1>3, EncodedLenFacts, Sizes
<1>5. claimed + EccBytes(claimed) = d + EccBytes(d)
  BY <1>1, <1>2, <1>3, <1>4, EncodedLenFacts
<1>6. ~(claimed < d)
  BY <1>1, <1>2, <1>5, SingleFacts
<1>7. ~(d < claimed)
  BY <1>1, <1>2, <1>5, SingleFacts
<1> QED BY <1>1, <1>6, <1>7

\* fec_decode: whatever it gives, an undamaged frame and a burst the parity
\* covers come out whole, and a short frame is not taken for another length.
LEMMA DecodeFec ==
  ASSUME FecInv, DecodeFails \/ DecodeAnother \/ Decode
  PROVE  FecInv'
<1> USE DEF FecInv
<1>1. /\ stage = "air" /\ stage' = "done" /\ fec
      /\ UNCHANGED <<d, fec, len, burst, claimed>>
      /\ len <= SIZE_BUF /\ len \in Nat
      /\ d \in Nat /\ d > 0 /\ d <= SIZE_BUF /\ len = EncodedLen(d) /\ IsRun(burst)
  BY HeaderTest, Sizes DEF DecodeFails, DecodeAnother, Decode, OnAir
<1>2. claimed \in Nat
  BY DEF TypeOK
<1>3. \/ out' = NoOut
      \/ ~DecodeRefused /\ out'.bytes = claimed /\ out'.same \in BOOLEAN
           /\ (out'.same => claimed = d)
  <2>1. CASE DecodeFails
    BY <2>1 DEF DecodeFails
  <2>2. CASE DecodeAnother
    BY <2>2 DEF DecodeAnother
  <2>3. CASE Decode
    <3>1. out'.bytes = claimed /\ out'.same = (claimed = d) /\ ~DecodeRefused
      BY <2>3 DEF Decode
    <3>2. out'.same \in BOOLEAN /\ (out'.same => claimed = d)
      BY <3>1, Zenon
    <3> QED BY <3>1, <3>2
  <2> QED BY <2>1, <2>2, <2>3
<1>4. TypeOK'
  <2>1. CASE out' = NoOut
    <3>1. out'.bytes = -1 /\ out'.same = FALSE
      BY <2>1 DEF NoOut
    <3>2. out'.bytes \in -1 .. (2 * SIZE_BUF)
      BY <3>1, Sizes
    <3> QED BY <3>1, <3>2, <1>1, <1>2 DEF TypeOK
  <2>2. CASE ~DecodeRefused /\ out'.bytes = claimed /\ out'.same \in BOOLEAN
               /\ (out'.same => claimed = d)
    <3>1. out'.bytes \in -1 .. (2 * SIZE_BUF)
      BY <2>2, <1>2, Sizes DEF DecodeRefused
    <3> QED BY <2>2, <3>1, <1>1, <1>2 DEF TypeOK
  <2> QED BY <1>3, <2>1, <2>2
<1>5. ASSUME burst \cap {0, 1} = {},
             Cardinality(burst) <= BlocksRead(d) * (EccRead(d) \div 2)
      PROVE  out' = [bytes |-> d, same |-> TRUE]
  <2>1. claimed = d
    BY <1>1, <1>5 DEF OnAir
  <2>2. ~DecodeRefused
    <3>1. len >= 3
      BY <1>1, EncodedLenFacts
    <3> QED BY <1>1, <2>1, <3>1, Sizes DEF DecodeRefused
  <2>3. BlocksRestored
    BY <1>1, <1>5, <2>1, BurstIsRestored
  <2> QED BY <2>1, <2>2, <2>3 DEF DecodeFails, DecodeAnother, Decode
<1>6. RoundTrip'
  <2>1. ASSUME burst = {} PROVE out' = [bytes |-> d, same |-> TRUE]
    <3>1. 0 <= BlocksRead(d) * (EccRead(d) \div 2)
      BY <1>1, EccFacts, BlocksFacts, Sizes DEF BlocksRead, EccRead
    <3>2. burst \cap {0, 1} = {} /\ Cardinality(burst) = 0
      BY <2>1, FS_EmptySet
    <3> QED BY <1>5, <3>1, <3>2
  <2> QED BY <1>1, <2>1 DEF RoundTrip
<1>7. BurstRestored'
  <2>1. /\ (BlocksRead(d) * (EccRead(d) \div 2))' = BlocksRead(d) * (EccRead(d) \div 2)
        /\ Cardinality(burst)' = Cardinality(burst)
    BY <1>1 DEF BlocksRead, EccRead, Single, EccBytes, Blocks
  <2> QED BY <1>1, <1>5, <2>1 DEF BurstRestored
<1>8. PrefixRedundant'
  <2>1. out' = NoOut => out'.bytes = -1
    BY DEF NoOut
  <2>2. ASSUME d + EccBytes(d) < N, out' # NoOut PROVE out'.bytes = d
    BY <1>1, <1>3, <2>2, PrefixBound
  <2> QED BY <1>1, <2>1, <2>2 DEF PrefixRedundant, EccBytes
<1>9. OnAir' /\ Before'
  BY <1>1 DEF OnAir, IsRun, Before
<1> QED BY <1>4, <1>6, <1>7, <1>8, <1>9

LEMMA NextFec ==
  ASSUME FecInv, [Next]_vars
  PROVE  FecInv'
<1>1. CASE UNCHANGED vars
  BY <1>1 DEF vars, FecInv, TypeOK, Before, OnAir, IsRun, RoundTrip, BurstRestored,
              PrefixRedundant, BlocksRead, EccRead, Single, EccBytes, Blocks
<1> QED BY <1>1, SendFec, DamageFec, RejectFec, TakeRawFec, DecodeFec DEF Next

LEMMA FecInvariant == Spec => []FecInv
BY InitFec, NextFec, PTL DEF Spec

\* What fec_decode and rb_to_tun give is never longer than the buffers they give
\* it in, and is never called the sent payload at another length.
THEOREM FecTypeCorrect == Spec => []TypeOK
<1>1. FecInv => TypeOK
  BY DEF FecInv
<1> QED BY <1>1, FecInvariant, PTL

\* fec_encoded_len, is_valid_fec_len and fec_decode are inverse to each other
\* for every length and every geometry of the blocks.
THEOREM LengthsAgree == Spec => []RoundTrip
<1>1. FecInv => RoundTrip
  BY DEF FecInv
<1> QED BY <1>1, FecInvariant, PTL

\* fec_interleave spreads a burst so evenly that the parity of all blocks can
\* be added up, wherever the burst starts and however many blocks there are.
THEOREM BurstCorrected == Spec => []BurstRestored
<1>1. FecInv => BurstRestored
  BY DEF FecInv
<1> QED BY <1>1, FecInvariant, PTL

\* Below a full block no damaged prefix makes fec_decode give another length.
THEOREM PrefixProtected == Spec => []PrefixRedundant
<1>1. FecInv => PrefixRedundant
  BY DEF FecInv
<1> QED BY <1>1, FecInvariant, PTL
=============================================================================
