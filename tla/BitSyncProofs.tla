---------------------------- MODULE BitSyncProofs ----------------------------
(***************************************************************************)
(* Proofs about the sync detector and the scrambler, for every sync word,  *)
(* threshold, payload and scrambler.                                       *)
(*                                                                         *)
(* That the scramblers agree is not inductive as stated: InStep says that  *)
(* both registers are equal from the sync word on, which needs that the    *)
(* sender's starts again at the same place of every frame.  That a sync    *)
(* word is found needs Heard: at each of its bits, the newest bits of the  *)
(* register differ from the word in no more places than were flipped.      *)
(* That a register never becomes zero needs its top bit to be tapped.      *)
(* That a slip never heals needs SlipInv: the receiver's register is one   *)
(* step behind the sender's, so the bits that come out right tell how much *)
(* of the register is the same bit over and over.                          *)
(***************************************************************************)
EXTENDS BitSync, SequenceTheorems, FiniteSetTheorems, TLAPS

-----------------------------------------------------------------------------
(* Division with remainder.                                                *)

LEMMA ModRange ==
  ASSUME NEW m \in Int, NEW n \in Nat, n >= 1
  PROVE  m % n \in 0 .. n - 1 /\ m = n * (m \div n) + (m % n) /\ m \div n \in Int
OBVIOUS

LEMMA Grows ==
  ASSUME NEW n \in Nat, NEW q \in Int, NEW p \in Int, q < p
  PROVE  n * q + n <= n * p
<1>1. p - q - 1 \in Nat
  OBVIOUS
<1>2. n * (p - q - 1) >= 0
  BY <1>1
<1> QED BY <1>2

LEMMA ModUnique ==
  ASSUME NEW n \in Nat, n >= 1, NEW q \in Int, NEW r \in 0 .. n - 1
  PROVE  (n * q + r) % n = r
<1> DEFINE m == n * q + r
           d == m \div n
           e == m % n
<1>1. m \in Int
  OBVIOUS
<1>2. d \in Int /\ e \in 0 .. n - 1 /\ m = n * d + e
  BY <1>1, ModRange
<1>3. m = n * q + r
  OBVIOUS
<1> HIDE DEF m, d, e
<1>4. ~(q < d)
  <2> SUFFICES ASSUME q < d PROVE FALSE
    OBVIOUS
  <2>1. n * q + n <= n * d
    BY <1>2, Grows
  <2>2. n * q \in Int /\ n * d \in Int
    BY <1>2
  <2> QED BY <1>2, <1>3, <2>1, <2>2
<1>5. ~(d < q)
  <2> SUFFICES ASSUME d < q PROVE FALSE
    OBVIOUS
  <2>1. n * d + n <= n * q
    BY <1>2, Grows
  <2>2. n * q \in Int /\ n * d \in Int
    BY <1>2
  <2> QED BY <1>2, <1>3, <2>1, <2>2
<1>6. d = q
  BY <1>2, <1>4, <1>5
<1>7. e = r
  BY <1>2, <1>3, <1>6
<1> QED BY <1>7 DEF e, m

LEMMA ModNext ==
  ASSUME NEW n \in Nat, n >= 1, NEW m \in Int
  PROVE  (m + 1) % n = IF m % n = n - 1 THEN 0 ELSE (m % n) + 1
<1> DEFINE d == m \div n
           e == m % n
<1>1. d \in Int /\ e \in 0 .. n - 1 /\ m = n * d + e
  BY ModRange
<1> HIDE DEF d, e
<1>2. CASE e = n - 1
  <2>1. m + 1 = n * (d + 1) + 0
    BY <1>1, <1>2
  <2>2. (n * (d + 1) + 0) % n = 0
    BY <1>1, ModUnique
  <2> QED BY <1>2, <2>1, <2>2 DEF e
<1>3. CASE e # n - 1
  <2>1. m + 1 = n * d + (e + 1) /\ e + 1 \in 0 .. n - 1
    BY <1>1, <1>3
  <2>2. (n * d + (e + 1)) % n = e + 1
    BY <1>1, <2>1, ModUnique
  <2> QED BY <1>3, <2>1, <2>2 DEF e
<1> QED BY <1>2, <1>3

-----------------------------------------------------------------------------
(* Places on the line.                                                     *)

L == Len(Frame)

LEMMA Sizes ==
  /\ SYNC_WORD \in Seq(Bit) /\ PREAMBLE \in Seq(Bit) /\ Gap \in Seq(Bit) /\ Payload \in Seq(Bit)
  /\ W \in Nat /\ W >= 1 /\ SYNC_THRESHOLD \in 0 .. W
  /\ Start \in Nat /\ Len(Payload) \in Nat
  /\ POP_MIN \in Nat /\ POP_MAX \in Nat /\ Frames \in Nat /\ MaxFaults \in Nat
  /\ STATE_BITS \in Nat /\ TAPS \subseteq 0 .. STATE_BITS - 1
BY BitSyncAssumption, LenProperties DEF W, Start

\* What joining two sequences makes of them.
LEMMA Joined ==
  ASSUME NEW s \in Seq(Bit), NEW t \in Seq(Bit), NEW m, m = Len(s)
  PROVE  /\ s \o t \in Seq(Bit) /\ Len(s \o t) = m + Len(t)
         /\ \A i \in 1 .. m : (s \o t)[i] = s[i]
         /\ \A i \in 1 .. Len(t) : (s \o t)[m + i] = t[i]
<1>1. Len(s) \in Nat /\ Len(t) \in Nat
  BY LenProperties
<1>2. /\ s \o t \in Seq(Bit) /\ Len(s \o t) = Len(s) + Len(t)
      /\ \A i \in 1 .. Len(s) + Len(t) :
           (s \o t)[i] = IF i <= Len(s) THEN s[i] ELSE t[i - Len(s)]
  BY ConcatProperties
<1>3. ASSUME NEW i \in 1 .. Len(s) PROVE (s \o t)[i] = s[i]
  BY <1>1, <1>2
<1>4. ASSUME NEW i \in 1 .. Len(t) PROVE (s \o t)[Len(s) + i] = t[i]
  <2>1. Len(s) + i \in 1 .. Len(s) + Len(t) /\ ~(Len(s) + i <= Len(s)) /\ Len(s) + i - Len(s) = i
    BY <1>1
  <2>2. (s \o t)[Len(s) + i] = t[Len(s) + i - Len(s)]
    BY <1>2, <2>1
  <2> QED BY <2>1, <2>2
<1> QED BY <1>2, <1>3, <1>4

\* A frame: the sync word after Start bits, the payload after it.
LEMMA FrameShape ==
  /\ L = Start + W + Len(Payload) /\ L \in Nat /\ L >= 1
  /\ \A p \in 1 .. L : Frame[p] \in Bit
  /\ \A j \in 1 .. W : Frame[Start + j] = SYNC_WORD[j]
  /\ \A n \in 1 .. Len(Payload) : Frame[Start + W + n] = Payload[n]
<1> DEFINE A == Gap \o PREAMBLE
           B == A \o SYNC_WORD
<1>1. /\ SYNC_WORD \in Seq(Bit) /\ PREAMBLE \in Seq(Bit) /\ Gap \in Seq(Bit) /\ Payload \in Seq(Bit)
      /\ W \in Nat /\ W >= 1 /\ Start \in Nat /\ Len(Payload) \in Nat
      /\ Start = Len(Gap) + Len(PREAMBLE) /\ W = Len(SYNC_WORD)
  BY Sizes DEF Start, W
<1>2. A \in Seq(Bit) /\ Start = Len(A)
  BY <1>1, Joined
<1>3. Frame = B \o Payload
  BY DEF Frame
<1> HIDE DEF A
<1>4. /\ B \in Seq(Bit) /\ Len(B) = Start + W
      /\ \A i \in 1 .. W : B[Start + i] = SYNC_WORD[i]
  <2>1. /\ B \in Seq(Bit) /\ Len(B) = Start + Len(SYNC_WORD)
        /\ \A i \in 1 .. Len(SYNC_WORD) : B[Start + i] = SYNC_WORD[i]
    <3>1. SYNC_WORD \in Seq(Bit)
      BY <1>1
    <3> QED BY ONLY <1>2, <3>1, Joined
  <2> HIDE DEF B
  <2> QED BY <1>1, <2>1
<1> HIDE DEF B
<1>5. /\ Frame \in Seq(Bit) /\ Len(Frame) = Start + W + Len(Payload)
      /\ \A i \in 1 .. Start + W : Frame[i] = B[i]
      /\ \A i \in 1 .. Len(Payload) : Frame[Start + W + i] = Payload[i]
  <2> DEFINE m == Start + W
  <2>1. B \in Seq(Bit) /\ Payload \in Seq(Bit) /\ m = Len(B)
    BY <1>1, <1>4
  <2> HIDE DEF m
  <2>2. /\ Frame \in Seq(Bit) /\ Len(Frame) = m + Len(Payload)
        /\ \A i \in 1 .. m : Frame[i] = B[i]
        /\ \A i \in 1 .. Len(Payload) : Frame[m + i] = Payload[i]
    BY <1>3, <2>1, Joined
  <2> QED BY <2>2 DEF m
<1>6. \A p \in 1 .. L : Frame[p] \in Bit
  BY <1>5, ElementOfSeq DEF L
<1>7. ASSUME NEW j \in 1 .. W PROVE Frame[Start + j] = SYNC_WORD[j]
  <2>1. Start + j \in 1 .. Start + W
    BY <1>1
  <2>2. Frame[Start + j] = B[Start + j]
    BY <1>5, <2>1
  <2> QED BY <1>4, <2>2
<1> QED BY <1>1, <1>5, <1>6, <1>7 DEF L

\* The place of the next bit is the next place, or the first of the next frame.
LEMMA PlaceNext ==
  ASSUME NEW k \in Nat
  PROVE  /\ Place(k) \in 1 .. L
         /\ Place(k + 1) = IF Place(k) = L THEN 1 ELSE Place(k) + 1
<1>1. L \in Nat /\ L >= 1 /\ k - 1 \in Int /\ (k - 1) + 1 = (k + 1) - 1
  BY FrameShape
<1>2. /\ (k - 1) % L \in 0 .. L - 1
      /\ ((k - 1) + 1) % L = IF (k - 1) % L = L - 1 THEN 0 ELSE ((k - 1) % L) + 1
  BY <1>1, ModRange, ModNext
<1>3. Place(k) = ((k - 1) % L) + 1 /\ Place(k + 1) = (((k - 1) + 1) % L) + 1
  BY <1>1 DEF Place, L
<1> QED BY <1>1, <1>2, <1>3

\* A sync word ends at place Start + W, and after it in its frame there is
\* only payload.
LEMMA EndPlaces ==
  ASSUME NEW e \in Ends
  PROVE  /\ e \in Nat /\ e >= 1 /\ Place(e) = Start + W
         /\ \A k \in Nat : e <= k /\ e > k - Place(k) => Place(k) >= Start + W
<1> DEFINE c == Start + W
<1>0. L \in Nat /\ L >= 1 /\ c \in 1 .. L
  BY FrameShape, Sizes
<1>1. PICK f \in 0 .. Frames - 1 : e = f * Len(Frame) + Start + W
  BY DEF Ends
<1>2. f \in Int /\ f >= 0
  BY Sizes
<1>3. e = L * f + c
  <2>1. f * Len(Frame) \in Nat /\ f * Len(Frame) = L * f
    BY <1>0, <1>2 DEF L
  <2> QED BY <1>1, <2>1, Sizes
<1> HIDE DEF c
<1>4. L * f \in Nat
  BY <1>0, <1>2
<1>5. e \in Nat /\ e >= 1
  BY <1>0, <1>3, <1>4
<1>6. Place(e) = c
  <2>1. e - 1 = L * f + (c - 1) /\ c - 1 \in 0 .. L - 1
    BY <1>0, <1>3, <1>4
  <2>2. (L * f + (c - 1)) % L = c - 1
    BY <1>0, <1>2, <2>1, ModUnique
  <2>3. Place(e) = ((e - 1) % L) + 1
    BY DEF Place, L
  <2> QED BY <1>0, <2>1, <2>2, <2>3
<1>7. ASSUME NEW k \in Nat, e <= k, e > k - Place(k)
      PROVE  Place(k) >= c
  <2> DEFINE d == (k - 1) \div L
             r == (k - 1) % L
  <2>1. d \in Int /\ r \in 0 .. L - 1 /\ k - 1 = L * d + r
    <3>1. k - 1 \in Int
      OBVIOUS
    <3> QED BY <1>0, <3>1, ModRange
  <2>2. Place(k) = r + 1
    BY DEF Place, L
  <2> HIDE DEF d, r
  <2> DEFINE x == L * d
             y == L * f
  <2>3. x \in Int /\ y \in Int
    BY <1>0, <1>2, <2>1
  <2>4. f < d => y + L <= x
    BY <1>0, <1>2, <2>1, Grows
  <2>5. d < f => x + L <= y
    BY <1>0, <1>2, <2>1, Grows
  <2>6. d = f => x = y
    OBVIOUS
  <2>7. k - 1 = x + r /\ e = y + c
    BY <1>3, <2>1
  <2> HIDE DEF x, y
  <2>8. ~(f < d)
    BY <1>0, <1>7, <2>1, <2>2, <2>3, <2>4, <2>7
  <2>9. ~(d < f)
    BY <1>0, <1>7, <2>1, <2>2, <2>3, <2>5, <2>7
  <2>10. x = y
    BY <1>2, <2>1, <2>6, <2>8, <2>9
  <2> QED BY <1>0, <1>7, <2>1, <2>2, <2>3, <2>7, <2>10
<1> QED BY <1>5, <1>6, <1>7 DEF c

-----------------------------------------------------------------------------
(* The scramblers in step.                                                 *)

LEMMA KeyIsBit == \A lfsr : Key(lfsr) \in Bit
<1> TAKE lfsr
<1> DEFINE T == {i \in TAPS : lfsr[i] = 1}
<1>1. IsFiniteSet(T)
  <2>1. IsFiniteSet(0 .. STATE_BITS - 1)
    BY Sizes, FS_Interval
  <2> QED BY <2>1, Sizes, FS_Subset
<1>2. Cardinality(T) \in Nat
  BY <1>1, FS_CardinalityType
<1> HIDE DEF T
<1>3. Cardinality(T) % 2 \in {0, 1}
  BY <1>2
<1> QED BY <1>3 DEF Key, T, Bit

\* With the key they were scrambled with bits come out as they went in.
LEMMA Descrambled ==
  ASSUME NEW a \in Bit, NEW k \in Bit
  PROVE  /\ Xor(a, k) \in Bit /\ Xor(Xor(a, k), k) = a
         /\ Xor(Flip(Xor(a, k)), k) # a
BY DEF Bit, Xor, Flip

\* In a frame whose sync word was found, with no bit lost, the two registers are equal.
InStep ==
  /\ pos \in Nat /\ at \in 0 .. pos /\ state \in {"SEARCHING", "DATA"}
  /\ slipped \in BOOLEAN /\ expected \in BOOLEAN
  /\ expected \/ slipped
  /\ state = "SEARCHING" => ~slipped
  /\ state = "DATA" /\ ~slipped => at \in Ends
  /\ pos = 0 \/ ~InPayload(pos) => tx_scrambler = Seed
  /\ state = "DATA" /\ ~slipped /\ at > pos - Place(pos) => rx_scrambler = tx_scrambler

LEMMA InStepInit == Init => InStep
<1> SUFFICES ASSUME Init PROVE InStep
  OBVIOUS
<1>1. /\ pos \in Nat /\ pos = 0 /\ at \in 0 .. pos /\ state = "SEARCHING" /\ tx_scrambler = Seed
      /\ slipped = FALSE /\ expected = TRUE
  BY DEF Init
<1> QED BY <1>1 DEF InStep

\* What every step that passes a bit of the line does to the sender.
LEMMA Passed ==
  ASSUME InStep, Pass
  PROVE  /\ pos' = pos + 1 /\ pos' \in Nat /\ pos' # 0 /\ at <= pos
         /\ Place(pos') \in 1 .. L /\ Place(pos) \in 1 .. L
         /\ Place(pos') = 1 \/ Place(pos') = Place(pos) + 1
         /\ InPayload(pos)' => tx_scrambler' = Advance(tx_scrambler)
         /\ ~InPayload(pos)' => tx_scrambler' = Seed
<1>1. pos \in Nat /\ pos' = pos + 1 /\ at <= pos
  BY DEF InStep, Pass
<1>2. Place(pos) \in 1 .. L /\ Place(pos + 1) = IF Place(pos) = L THEN 1 ELSE Place(pos) + 1
  BY <1>1, PlaceNext
<1>3. Place(pos + 1) \in 1 .. L
  BY <1>1, PlaceNext
<1>4. InPayload(pos)' <=> InPayload(pos + 1)
  BY <1>1 DEF InPayload, Place
<1> QED BY <1>1, <1>2, <1>3, <1>4 DEF Pass

LEMMA InStepSearch ==
  ASSUME InStep, Pass, NEW b, Search(b)
  PROVE  InStep'
<1>1. /\ state = "SEARCHING" /\ ~slipped /\ expected /\ expected' = expected
      /\ \/ /\ state' = "DATA" /\ at' = pos' /\ rx_scrambler' = Seed
            /\ slipped' = (TRUE /\ pos' \notin Ends)
         \/ state' = state /\ at' = at /\ slipped' = (FALSE /\ pos' \notin Ends)
  BY DEF Search, InStep
<1>2. /\ pos' \in Nat /\ pos' # 0 /\ pos' = pos + 1 /\ at \in 0 .. pos
      /\ ~InPayload(pos)' => tx_scrambler' = Seed
  BY Passed DEF InStep
<1>3. CASE state' = "DATA" /\ at' = pos' /\ rx_scrambler' = Seed /\ slipped' = (TRUE /\ pos' \notin Ends)
  <2>1. ~slipped' => pos' \in Ends /\ ~InPayload(pos)'
    <3> SUFFICES ASSUME pos' \in Ends PROVE ~InPayload(pos)'
      BY <1>3
    <3>1. Place(pos') = Start + W
      BY EndPlaces
    <3> QED BY <3>1, Sizes DEF InPayload
  <2>2. at' \in 0 .. pos'
    BY <1>2, <1>3
  <2>3. slipped' \in BOOLEAN
    BY <1>3
  <2> QED BY <1>1, <1>2, <1>3, <2>1, <2>2, <2>3 DEF InStep
<1>4. CASE state' = state /\ at' = at /\ slipped' = (FALSE /\ pos' \notin Ends)
  <2>1. ~slipped' /\ slipped' \in BOOLEAN
    BY <1>4
  <2>2. at' \in 0 .. pos'
    <3>1. pos \in Nat /\ at \in 0 .. pos + 1
      BY <1>2 DEF InStep
    <3> QED BY <1>2, <1>4, <3>1
  <2>3. expected' \in BOOLEAN /\ expected'
    BY <1>1
  <2> QED BY <1>1, <1>2, <1>4, <2>1, <2>2, <2>3 DEF InStep
<1> QED BY <1>1, <1>3, <1>4

\* While nothing slipped, the next bit of the payload is scrambled and
\* descrambled with the same key.
LEMMA SameKey ==
  ASSUME InStep, Pass, state = "DATA", ~slipped, at > pos' - Place(pos')
  PROVE  rx_scrambler = tx_scrambler /\ InPayload(pos)' /\ at > pos - Place(pos)
<1>1. /\ pos' = pos + 1 /\ pos \in Nat /\ at \in Nat /\ at <= pos
      /\ Place(pos') \in 1 .. L /\ Place(pos) \in 1 .. L
      /\ Place(pos') = 1 \/ Place(pos') = Place(pos) + 1
      /\ L \in Nat
  BY Passed, FrameShape DEF InStep
<1>2. Place(pos') = Place(pos) + 1 /\ at > pos - Place(pos)
  BY <1>1
<1>3. Place(pos) >= Start + W
  BY <1>1, EndPlaces, <1>2 DEF InStep
<1>4. Place(pos') > Start + W
  BY <1>1, <1>2, <1>3, Sizes
<1> QED BY <1>2, <1>4 DEF InStep, InPayload

LEMMA InStepReceive ==
  ASSUME InStep, NEW flipped \in BOOLEAN, Pass, Receive(IF flipped THEN Flip(Sent) ELSE Sent, flipped)
  PROVE  InStep'
<1> DEFINE b == IF flipped THEN Flip(Sent) ELSE Sent
           n == Place(pos') - Start - W
           here == n > 0 /\ at > pos' - Place(pos')
           out == ScramblerProcess(rx_scrambler, b).bit
           right == out = Payload[n]
<1>1. state = "DATA" /\ at' = at /\ rx_scrambler' = Advance(rx_scrambler)
  BY DEF Receive, ScramblerProcess
<1>0. \/ /\ state' = "DATA" /\ slipped' = slipped
         /\ here => expected' = (right # flipped)
         /\ ~here => expected' = TRUE
      \/ /\ state' = "SEARCHING" /\ slipped' = FALSE
         /\ expected' = (here /\ ~slipped => right # flipped)
  <2>1. \/ /\ state' = state /\ slipped' = slipped
           /\ IF here THEN expected' = (right # flipped) ELSE expected' = TRUE
        \/ /\ state' = "SEARCHING" /\ slipped' = FALSE
           /\ expected' = (here /\ ~slipped => right # flipped)
    BY DEF Receive
  <2> HIDE DEF here, right
  <2> QED BY <1>1, <2>1
<1>2. /\ pos' = pos + 1 /\ pos \in Nat /\ pos' \in Nat /\ pos' # 0 /\ at \in 0 .. pos
      /\ Place(pos') \in 1 .. L
      /\ InPayload(pos)' => tx_scrambler' = Advance(tx_scrambler)
      /\ ~InPayload(pos)' => tx_scrambler' = Seed
  BY Passed DEF InStep
<1>3. ASSUME ~slipped, here PROVE right # flipped
  <2>1. rx_scrambler = tx_scrambler /\ InPayload(pos)'
    BY <1>1, <1>3, SameKey
  <2>2. n \in 1 .. Len(Payload)
    BY SMTT(30), <1>2, <1>3, FrameShape, Sizes
  <2>3. Frame[Place(pos')] = Payload[n] /\ Frame[Place(pos')] \in Bit
    <3>1. Start + W + n = Place(pos')
      BY SMTT(30), <1>2, <2>2, Sizes, FrameShape
    <3>2. Frame[Start + W + n] = Payload[n]
      BY <2>2, FrameShape
    <3> QED BY <1>2, <3>1, <3>2, FrameShape
  <2> DEFINE a == Frame[Place(pos')]
             k == Key(tx_scrambler)
  <2>4. Sent = Xor(a, k)
    <3>1. InPayload(pos + 1) /\ Frame[Place(pos + 1)] = a
      BY <1>2, <2>1 DEF InPayload, Place
    <3> QED BY <3>1 DEF Sent, ScramblerProcess
  <2>5. out = Xor(b, k)
    BY <2>1 DEF ScramblerProcess
  <2>6. a \in Bit /\ k \in Bit
    BY <2>3, KeyIsBit
  <2>7. right <=> Xor(b, k) = a
    BY <2>3, <2>5
  <2> HIDE DEF a, k, right, out
  <2>8. CASE flipped
    <3>1. b = Flip(Xor(a, k))
      BY <2>4, <2>8
    <3>2. Xor(b, k) # a
      BY <2>6, <3>1, Descrambled
    <3>3. ~right
      BY <2>7, <3>2
    <3> QED BY <2>8, <3>3
  <2>9. CASE ~flipped
    <3>1. b = Xor(a, k)
      BY <2>4, <2>9
    <3>2. Xor(b, k) = a
      BY <2>6, <3>1, Descrambled
    <3>3. right
      BY <2>7, <3>2
    <3> QED BY <2>9, <3>3
  <2> QED BY <2>8, <2>9
<1> HIDE DEF b, n, here, out, right
<1>4. expected' \in BOOLEAN
  <2>1. (right # flipped) \in BOOLEAN /\ (here /\ ~slipped => right # flipped) \in BOOLEAN
    OBVIOUS
  <2> QED BY <1>0, <2>1
<1>5. at' \in 0 .. pos'
  BY <1>1, <1>2
<1>6. pos' = 0 \/ ~InPayload(pos)' => tx_scrambler' = Seed
  BY <1>2
<1>7. CASE /\ state' = "DATA" /\ slipped' = slipped
           /\ here => expected' = (right # flipped)
           /\ ~here => expected' = TRUE
  <2>1. expected' \/ slipped'
    <3>1. CASE here /\ ~slipped
      <4>1. right # flipped
        BY <1>3, <3>1
      <4> QED BY <1>7, <3>1, <4>1
    <3>2. CASE ~here
      BY <1>7, <3>2
    <3>3. CASE slipped
      BY <1>7, <3>3
    <3> QED BY <3>1, <3>2, <3>3
  <2>2. ~slipped' /\ at' > pos' - Place(pos') => rx_scrambler' = tx_scrambler'
    <3> SUFFICES ASSUME ~slipped, at > pos' - Place(pos') PROVE rx_scrambler' = tx_scrambler'
      BY <1>1, <1>7
    <3>1. rx_scrambler = tx_scrambler /\ InPayload(pos)'
      BY <1>1, SameKey
    <3> QED BY <1>1, <1>2, <3>1
  <2>3. slipped' \in BOOLEAN /\ (~slipped' => at' \in Ends)
    <3>1. ~slipped => at \in Ends
      BY <1>1 DEF InStep
    <3>2. slipped' \in BOOLEAN
      BY <1>7 DEF InStep
    <3>3. Ends' = Ends
      BY DEF Ends
    <3> QED BY <1>1, <1>7, <3>1, <3>2
  <2> QED BY <1>1, <1>2, <1>4, <1>5, <1>6, <1>7, <2>1, <2>2, <2>3 DEF InStep
<1>8. CASE /\ state' = "SEARCHING" /\ slipped' = FALSE
           /\ expected' = (here /\ ~slipped => right # flipped)
  <2>1. expected'
    <3>1. here /\ ~slipped => right # flipped
      BY <1>3
    <3> QED BY <1>8, <3>1
  <2> QED BY <1>2, <1>4, <1>5, <1>6, <1>8, <2>1 DEF InStep
<1> QED BY <1>0, <1>7, <1>8

LEMMA InStepLose ==
  ASSUME InStep, Lose
  PROVE  InStep'
<1>1. /\ state' = state /\ at' = at /\ rx_scrambler' = rx_scrambler /\ expected' = expected
      /\ slipped' = (state = "DATA") /\ Pass
  BY DEF Lose
<1>2. /\ pos' = pos + 1 /\ pos \in Nat /\ pos' \in Nat /\ pos' # 0 /\ at \in 0 .. pos
      /\ ~InPayload(pos)' => tx_scrambler' = Seed
  BY <1>1, Passed DEF InStep
<1>3. at' \in 0 .. pos'
  BY <1>1, <1>2
<1>4. CASE state = "DATA"
  <2>1. slipped' = TRUE /\ expected' \in BOOLEAN /\ state' = "DATA"
    BY <1>1, <1>4 DEF InStep
  <2> QED BY <1>2, <1>3, <2>1 DEF InStep
<1>5. CASE state = "SEARCHING"
  <2>1. slipped' = FALSE /\ expected' \in BOOLEAN /\ state' = "SEARCHING" /\ expected'
    BY <1>1, <1>5 DEF InStep
  <2> QED BY <1>2, <1>3, <2>1 DEF InStep
<1> QED BY <1>4, <1>5 DEF InStep

LEMMA InStepTimeout ==
  ASSUME InStep, Timeout
  PROVE  InStep'
<1>1. /\ state' = "SEARCHING" /\ at' = at /\ slipped' = FALSE /\ expected' = TRUE /\ Pass
  BY DEF Timeout
<1>2. /\ pos' = pos + 1 /\ pos \in Nat /\ pos' \in Nat /\ pos' # 0 /\ at \in 0 .. pos
      /\ ~InPayload(pos)' => tx_scrambler' = Seed
  BY <1>1, Passed DEF InStep
<1>3. at' \in 0 .. pos'
  BY <1>1, <1>2
<1> QED BY <1>1, <1>2, <1>3 DEF InStep

LEMMA InStepReset ==
  ASSUME InStep, RxReset
  PROVE  InStep'
<1>1. /\ state' = "SEARCHING" /\ at' = at /\ slipped' = FALSE /\ expected' = TRUE
      /\ pos' = pos /\ tx_scrambler' = tx_scrambler
  BY DEF RxReset
<1>2. InPayload(pos)' <=> InPayload(pos)
  BY <1>1 DEF InPayload, Place
<1> QED BY <1>1, <1>2 DEF InStep

LEMMA InStepStep == InStep /\ [Next]_vars => InStep'
<1> SUFFICES ASSUME InStep, [Next]_vars PROVE InStep'
  OBVIOUS
<1>1. ASSUME NEW flipped \in BOOLEAN, Hear(flipped) PROVE InStep'
  <2>1. /\ Pass
        /\ \/ Search(IF flipped THEN Flip(Sent) ELSE Sent)
           \/ Receive(IF flipped THEN Flip(Sent) ELSE Sent, flipped)
    BY <1>1 DEF Hear
  <2> QED BY <2>1, InStepSearch, InStepReceive
<1>2. CASE UNCHANGED vars
  <2>1. /\ pos' = pos /\ at' = at /\ state' = state /\ slipped' = slipped /\ expected' = expected
        /\ tx_scrambler' = tx_scrambler /\ rx_scrambler' = rx_scrambler
    BY <1>2 DEF vars
  <2>2. Place(pos') = Place(pos) /\ (InPayload(pos)' <=> InPayload(pos))
    BY <2>1 DEF InPayload, Place
  <2> QED BY <2>1, <2>2 DEF InStep
<1> QED BY <1>1, <1>2, InStepLose, InStepTimeout, InStepReset DEF Next

\* With no bit lost since the sync word, a bit comes out of the descrambler wrong
\* exactly if it was flipped on the air.
THEOREM ScramblersInStep == Spec => []FlipStaysLocal
<1>1. InStep => FlipStaysLocal
  BY DEF InStep, FlipStaysLocal
<1> QED BY <1>1, InStepInit, InStepStep, PTL DEF Spec

-----------------------------------------------------------------------------
(* The sync word in the correlator.                                        *)

Registers == {r \in Seq(Bit) : Len(r) = W}

\* Which of the last j bits of a register differ from the first j of the word.
Wrong(reg, j) == {i \in 1 .. j : reg[W - j + i] # SYNC_WORD[i]}

LEMMA WrongFinite ==
  ASSUME NEW reg, NEW j \in Nat
  PROVE  IsFiniteSet(Wrong(reg, j)) /\ Cardinality(Wrong(reg, j)) \in Nat
<1>1. IsFiniteSet(1 .. j)
  BY FS_Interval
<1>2. Wrong(reg, j) \subseteq 1 .. j
  BY DEF Wrong
<1> QED BY <1>1, <1>2, FS_Subset, FS_CardinalityType

LEMMA Pushed ==
  ASSUME NEW reg \in Registers, NEW b \in Bit
  PROVE  /\ Push(reg, b) \in Registers /\ Push(reg, b)[W] = b
         /\ \A i \in 1 .. W - 1 : Push(reg, b)[i] = reg[i + 1]
<1>1. reg \in Seq(Bit) /\ Len(reg) = W /\ W \in Nat /\ W >= 1
  BY Sizes DEF Registers
<1>2. reg # <<>>
  BY <1>1, EmptySeq
<1>3. /\ Tail(reg) \in Seq(Bit) /\ Len(Tail(reg)) = W - 1
      /\ \A i \in 1 .. W - 1 : Tail(reg)[i] = reg[i + 1]
  BY <1>1, <1>2, HeadTailProperties
<1> DEFINE t == Tail(reg)
<1>4. /\ Append(t, b) \in Seq(Bit) /\ Len(Append(t, b)) = Len(t) + 1
      /\ \A i \in 1 .. Len(t) : Append(t, b)[i] = t[i]
      /\ Append(t, b)[Len(t) + 1] = b
  BY <1>3, AppendProperties
<1> QED BY <1>1, <1>3, <1>4 DEF Push, Registers

\* One more bit of the word: one more is wrong at most if it is.
LEMMA WrongNext ==
  ASSUME NEW reg \in Registers, NEW b \in Bit, NEW j \in 1 .. W, NEW e \in Nat,
         Cardinality(Wrong(reg, j - 1)) <= e
  PROVE  Cardinality(Wrong(Push(reg, b), j)) <= IF b = SYNC_WORD[j] THEN e ELSE e + 1
<1> DEFINE S == Wrong(reg, j - 1)
           T == Wrong(Push(reg, b), j)
<1>0. W \in Nat /\ W >= 1 /\ j - 1 \in Nat
  BY Sizes
<1>1. IsFiniteSet(S) /\ Cardinality(S) \in Nat /\ IsFiniteSet(T) /\ Cardinality(T) \in Nat
  BY <1>0, WrongFinite
<1>2. ASSUME NEW i \in T, i # j PROVE i \in S
  <2>1. i \in 1 .. j - 1 /\ W - j + i \in 1 .. W - 1 /\ W - j + i + 1 = W - (j - 1) + i
    BY <1>0, <1>2 DEF Wrong
  <2>2. Push(reg, b)[W - j + i] = reg[W - j + i + 1]
    BY <2>1, Pushed
  <2>3. Push(reg, b)[W - j + i] # SYNC_WORD[i]
    BY <1>2 DEF Wrong
  <2> QED BY <2>1, <2>2, <2>3 DEF Wrong
<1>3. b = SYNC_WORD[j] => j \notin T
  <2>1. W - j + j = W
    BY <1>0
  <2>2. Push(reg, b)[W - j + j] = b
    BY <2>1, Pushed
  <2> QED BY <2>2 DEF Wrong
<1> HIDE DEF S, T
<1>4. CASE b = SYNC_WORD[j]
  <2>1. T \subseteq S
    BY <1>2, <1>3, <1>4
  <2>2. Cardinality(T) <= Cardinality(S)
    BY <1>1, <2>1, FS_Subset
  <2>3. Cardinality(S) <= e
    BY DEF S
  <2>4. Cardinality(T) <= e
    BY <1>1, <2>2, <2>3
  <2> QED BY <1>4, <2>4 DEF T
<1>5. CASE b # SYNC_WORD[j]
  <2>1. T \subseteq S \cup {j}
    BY <1>2
  <2>2. IsFiniteSet(S \cup {j}) /\ Cardinality(S \cup {j}) \in Nat /\ Cardinality(S \cup {j}) <= Cardinality(S) + 1
    <3>1. /\ IsFiniteSet(S \cup {j})
          /\ Cardinality(S \cup {j}) = IF j \in S THEN Cardinality(S) ELSE Cardinality(S) + 1
      BY <1>1, FS_AddElement
    <3>2. Cardinality(S \cup {j}) \in Nat
      BY <3>1, FS_CardinalityType
    <3> QED BY <1>1, <3>1, <3>2
  <2>3. Cardinality(T) <= Cardinality(S \cup {j})
    BY <2>1, <2>2, FS_Subset
  <2>4. Cardinality(S) <= e
    BY DEF S
  <2>5. Cardinality(T) <= e + 1
    BY <1>1, <2>2, <2>3, <2>4
  <2> QED BY <1>5, <2>5 DEF T
<1> QED BY <1>4, <1>5

\* The popcount filter lets through whatever is close enough to the sync word.
FilterPasses ==
  /\ POP_MIN + (W - SYNC_THRESHOLD) <= Popcount(SYNC_WORD)
  /\ Popcount(SYNC_WORD) + (W - SYNC_THRESHOLD) <= POP_MAX

LEMMA CloseCorrelates ==
  ASSUME FilterPasses, NEW reg \in Registers,
         Cardinality(Wrong(reg, W)) <= W - SYNC_THRESHOLD
  PROVE  Correlates(reg, W)
<1> DEFINE X == Wrong(reg, W)
           M == {i \in 1 .. W : reg[i] = SYNC_WORD[i]}
           P == {i \in 1 .. W : reg[i] = 1}
           Q == {i \in 1 .. W : SYNC_WORD[i] = 1}
<1>0. /\ W \in Nat /\ SYNC_THRESHOLD \in 0 .. W /\ POP_MIN \in Nat /\ POP_MAX \in Nat
      /\ Matches(reg) = Cardinality(M) /\ Popcount(reg) = Cardinality(P)
      /\ Popcount(SYNC_WORD) = Cardinality(Q)
  BY Sizes DEF Matches, Popcount
<1>1. X = {i \in 1 .. W : reg[i] # SYNC_WORD[i]}
  <2>1. \A i \in 1 .. W : W - W + i = i
    BY <1>0
  <2> QED BY <2>1 DEF Wrong
<1>2. IsFiniteSet(1 .. W) /\ Cardinality(1 .. W) = W
  BY <1>0, FS_Interval
<1>3. /\ M \cup X = 1 .. W /\ P \subseteq Q \cup X /\ Q \subseteq P \cup X
      /\ M \subseteq 1 .. W /\ X \subseteq 1 .. W /\ P \subseteq 1 .. W /\ Q \subseteq 1 .. W
  BY <1>1
<1> HIDE DEF X, M, P, Q
<1>4. IsFiniteSet(M) /\ IsFiniteSet(X) /\ IsFiniteSet(P) /\ IsFiniteSet(Q)
  BY <1>2, <1>3, FS_Subset
<1>5. /\ Cardinality(M) \in Nat /\ Cardinality(X) \in Nat /\ Cardinality(P) \in Nat
      /\ Cardinality(Q) \in Nat
  BY <1>4, FS_CardinalityType
<1>6. \A A, B : IsFiniteSet(A) /\ IsFiniteSet(B) =>
        IsFiniteSet(A \cup B) /\ Cardinality(A \cup B) <= Cardinality(A) + Cardinality(B)
  <2> TAKE A, B
  <2> SUFFICES ASSUME IsFiniteSet(A), IsFiniteSet(B)
               PROVE  IsFiniteSet(A \cup B) /\ Cardinality(A \cup B) <= Cardinality(A) + Cardinality(B)
    OBVIOUS
  <2>1. IsFiniteSet(A \cup B) /\ IsFiniteSet(A \cap B)
        /\ Cardinality(A \cup B) = Cardinality(A) + Cardinality(B) - Cardinality(A \cap B)
    <3>1. IsFiniteSet(A \cap B)
      BY FS_Subset
    <3> QED BY <3>1, FS_Union
  <2>2. Cardinality(A) \in Nat /\ Cardinality(B) \in Nat /\ Cardinality(A \cap B) \in Nat
    BY <2>1, FS_CardinalityType
  <2> QED BY <2>1, <2>2
<1>7. W <= Cardinality(M) + Cardinality(X)
  BY <1>2, <1>3, <1>4, <1>6
<1>8. Cardinality(P) <= Cardinality(Q) + Cardinality(X)
  <2>1. IsFiniteSet(Q \cup X) /\ Cardinality(Q \cup X) <= Cardinality(Q) + Cardinality(X)
    BY <1>4, <1>6
  <2>2. Cardinality(P) <= Cardinality(Q \cup X) /\ Cardinality(Q \cup X) \in Nat
    BY <1>3, <2>1, FS_Subset, FS_CardinalityType
  <2> QED BY <1>5, <2>1, <2>2
<1>9. Cardinality(Q) <= Cardinality(P) + Cardinality(X)
  <2>1. IsFiniteSet(P \cup X) /\ Cardinality(P \cup X) <= Cardinality(P) + Cardinality(X)
    BY <1>4, <1>6
  <2>2. Cardinality(Q) <= Cardinality(P \cup X) /\ Cardinality(P \cup X) \in Nat
    BY <1>3, <2>1, FS_Subset, FS_CardinalityType
  <2> QED BY <1>5, <2>1, <2>2
<1>10. Cardinality(X) <= W - SYNC_THRESHOLD
  BY DEF X
<1>11. Cardinality(M) >= SYNC_THRESHOLD
  BY <1>0, <1>5, <1>7, <1>10
<1>12. Cardinality(P) \in POP_MIN .. POP_MAX
  BY <1>0, <1>5, <1>8, <1>9, <1>10 DEF FilterPasses
<1> QED BY <1>0, <1>11, <1>12 DEF Correlates

\* With the bits of the sync word so far all taken in, the register holds them but
\* for the errs that were flipped.
Heard ==
  /\ pos \in Nat /\ corr_reg \in Registers /\ corr_bits \in 0 .. W
  /\ run \in 0 .. W /\ errs \in Nat
  /\ state = "SEARCHING" => corr_bits >= run
  /\ state = "SEARCHING" /\ InSync(pos) /\ run >= Place(pos) - Start =>
       Cardinality(Wrong(corr_reg, Place(pos) - Start)) <= errs

FoundInv == Heard /\ FoundAtEnd

LEMMA ZerosFit == Zeros \in Registers
<1>1. W \in Nat /\ \A i \in 1 .. W : 0 \in Bit
  BY Sizes DEF Bit
<1>2. [i \in 1 .. W |-> 0] \in Seq(Bit) /\ Len([i \in 1 .. W |-> 0]) = W
  BY <1>1
<1> QED BY <1>2 DEF Zeros, Registers

LEMMA FoundInit == Init => FoundInv
<1> SUFFICES ASSUME Init PROVE FoundInv
  OBVIOUS
<1>1. /\ pos = 0 /\ state = "SEARCHING" /\ corr_reg = Zeros /\ corr_bits = 0 /\ run = 0 /\ errs = 0
      /\ W \in Nat /\ W >= 1 /\ Start \in Nat
  BY Sizes DEF Init
<1>2. ~(InSync(pos) /\ run >= Place(pos) - Start)
  <2>1. Place(0) \in Int
    BY PlaceNext, FrameShape
  <2> QED BY <1>1, <2>1 DEF InSync
<1>3. Heard
  BY <1>1, <1>2, ZerosFit DEF Heard
<1>4. FoundAtEnd
  BY <1>1 DEF FoundAtEnd
<1> QED BY <1>3, <1>4 DEF FoundInv

\* What a step that loses track of the sync word leaves behind.
LEMMA NoRun ==
  ASSUME FoundInv, run' = 0, pos' \in Nat, errs' \in Nat, corr_reg' \in Registers, corr_bits' \in 0 .. W
  PROVE  FoundInv'
<1>1. W \in Nat /\ W >= 1 /\ Start \in Nat /\ Place(pos)' \in Int
  <2>1. Place(pos') \in Int
    BY PlaceNext, FrameShape
  <2>2. Place(pos)' = Place(pos')
    BY DEF Place
  <2> QED BY <2>1, <2>2, Sizes
<1>2. ~(InSync(pos)' /\ run' >= Place(pos)' - Start)
  BY <1>1 DEF InSync
<1>3. Heard'
  BY <1>1, <1>2 DEF Heard
<1>4. FoundAtEnd'
  BY <1>1 DEF FoundAtEnd
<1> QED BY <1>3, <1>4 DEF FoundInv

LEMMA FlipIsBit == \A a \in Bit : Flip(a) \in Bit /\ Flip(a) # a
BY DEF Flip, Bit

\* The next bit on the line is a bit, and in a sync word it is a bit of it.
LEMMA SentFacts ==
  ASSUME pos \in Nat
  PROVE  /\ Sent \in Bit
         /\ InSync(pos + 1) => /\ Place(pos + 1) - Start \in 1 .. W
                               /\ Sent = SYNC_WORD[Place(pos + 1) - Start]
<1>1. Place(pos + 1) \in 1 .. L /\ Frame[Place(pos + 1)] \in Bit
  <2>1. pos + 1 \in Nat
    OBVIOUS
  <2>2. Place(pos + 1) \in 1 .. L
    BY <2>1, PlaceNext
  <2> QED BY <2>2, FrameShape
<1>2. Sent \in Bit
  <2>1. CASE InPayload(pos + 1)
    <3>1. Sent = Xor(Frame[Place(pos + 1)], Key(tx_scrambler))
      BY <2>1 DEF Sent, ScramblerProcess
    <3> QED BY <1>1, <3>1, KeyIsBit, Descrambled
  <2>2. CASE ~InPayload(pos + 1)
    BY <1>1, <2>2 DEF Sent
  <2> QED BY <2>1, <2>2
<1>3. ASSUME InSync(pos + 1)
      PROVE  /\ Place(pos + 1) - Start \in 1 .. W
             /\ Sent = SYNC_WORD[Place(pos + 1) - Start]
  <2> DEFINE p == Place(pos + 1)
             j == p - Start
  <2>1. p \in Start + 1 .. Start + W
    BY <1>3 DEF InSync
  <2>2. ~InPayload(pos + 1)
    BY <2>1, Sizes DEF InPayload
  <2>3. Sent = Frame[p]
    BY <2>2 DEF Sent
  <2> HIDE DEF p
  <2>4. j \in 1 .. W /\ Start + j = p
    BY <2>1, Sizes
  <2>5. Frame[Start + j] = SYNC_WORD[j]
    BY <2>4, FrameShape
  <2> QED BY <2>3, <2>4, <2>5 DEF p
<1> QED BY <1>2, <1>3

\* A bit taken in: the word so far has at most one more wrong bit.
LEMMA WrongSoFar ==
  ASSUME FoundInv, state = "SEARCHING", Pass, NEW flipped \in BOOLEAN,
         NEW b, b = IF flipped THEN Flip(Sent) ELSE Sent,
         run' = IF run < W THEN run + 1 ELSE W,
         errs' = IF ~InSync(pos') THEN 0
                 ELSE (IF InSync(pos) THEN errs ELSE 0) + (IF flipped THEN 1 ELSE 0)
  PROVE  /\ b \in Bit /\ errs' \in Nat
         /\ InSync(pos') /\ run' >= Place(pos') - Start =>
              Cardinality(Wrong(Push(corr_reg, b), Place(pos') - Start)) <= errs'
<1>1. /\ pos \in Nat /\ pos' = pos + 1 /\ corr_reg \in Registers /\ errs \in Nat /\ run \in 0 .. W
      /\ W \in Nat /\ W >= 1 /\ Start \in Nat /\ L \in Nat
  BY Sizes, FrameShape DEF FoundInv, Heard, Pass
<1>2. /\ Sent \in Bit
      /\ InSync(pos') => /\ Place(pos') - Start \in 1 .. W
                         /\ Sent = SYNC_WORD[Place(pos') - Start]
  BY <1>1, SentFacts
<1>3. b \in Bit /\ errs' \in Nat
  BY <1>1, <1>2, FlipIsBit
<1>4. ASSUME InSync(pos'), run' >= Place(pos') - Start
      PROVE  Cardinality(Wrong(Push(corr_reg, b), Place(pos') - Start)) <= errs'
  <2> DEFINE j == Place(pos') - Start
             e == IF InSync(pos) THEN errs ELSE 0
  <2>1. j \in 1 .. W /\ Sent = SYNC_WORD[j] /\ e \in Nat
    BY <1>1, <1>2, <1>4
  <2>2. b = SYNC_WORD[j] <=> ~flipped
    BY <1>2, <2>1, FlipIsBit
  <2>3. errs' = IF b = SYNC_WORD[j] THEN e ELSE e + 1
    BY <1>4, <2>1, <2>2
  <2>4. Place(pos) \in 1 .. L /\ Place(pos') = IF Place(pos) = L THEN 1 ELSE Place(pos) + 1
    BY <1>1, PlaceNext
  <2>5. Cardinality(Wrong(corr_reg, j - 1)) <= e
    <3>1. CASE j = 1
      <4>1. Wrong(corr_reg, j - 1) = {}
        BY <3>1 DEF Wrong
      <4>2. Cardinality(Wrong(corr_reg, j - 1)) = 0
        BY <4>1, FS_EmptySet
      <4> QED BY <2>1, <4>2
    <3>2. CASE j # 1
      <4>1. Place(pos') # 1 /\ Place(pos) - Start = j - 1 /\ j - 1 \in 1 .. W
        BY <1>1, <2>1, <2>4, <3>2
      <4>2. InSync(pos)
        BY <1>1, <2>4, <4>1 DEF InSync
      <4>3. run >= j - 1
        BY <1>1, <1>4, <2>1
      <4>4. Cardinality(Wrong(corr_reg, Place(pos) - Start)) <= errs
        BY <4>1, <4>2, <4>3 DEF FoundInv, Heard
      <4> QED BY <4>1, <4>2, <4>4
    <3> QED BY <3>1, <3>2
  <2> HIDE DEF j, e
  <2>6. Cardinality(Wrong(Push(corr_reg, b), j)) <= errs'
    BY <1>1, <1>3, <2>1, <2>3, <2>5, WrongNext
  <2> QED BY <2>6 DEF j
<1> QED BY <1>3, <1>4

LEMMA FoundSearch ==
  ASSUME FilterPasses, FoundInv, NEW flipped \in BOOLEAN, Hear(flipped),
         Search(IF flipped THEN Flip(Sent) ELSE Sent)
  PROVE  FoundInv'
<1> DEFINE b == IF flipped THEN Flip(Sent) ELSE Sent
           reg == Push(corr_reg, b)
           bits == IF corr_bits < W THEN corr_bits + 1 ELSE W
           found == Push(sync_accumulator, b) = SYNC_WORD \/ Correlates(reg, bits)
<1>1. /\ Pass /\ state = "SEARCHING"
      /\ corr_reg' = (IF found THEN Zeros ELSE reg)
      /\ corr_bits' = (IF found THEN 0 ELSE bits)
      /\ state' = (IF found THEN "DATA" ELSE state)
      /\ at' = (IF found THEN pos' ELSE at)
      /\ run' = (IF run < W THEN run + 1 ELSE W)
      /\ errs' = IF ~InSync(pos') THEN 0
                 ELSE (IF InSync(pos) THEN errs ELSE 0) + (IF flipped THEN 1 ELSE 0)
  BY DEF Hear, Search
<1>2. /\ b \in Bit /\ errs' \in Nat
      /\ InSync(pos') /\ run' >= Place(pos') - Start =>
           Cardinality(Wrong(reg, Place(pos') - Start)) <= errs'
  BY <1>1, WrongSoFar
<1>3. /\ pos \in Nat /\ pos' = pos + 1 /\ corr_reg \in Registers /\ corr_bits \in 0 .. W
      /\ run \in 0 .. W /\ corr_bits >= run /\ W \in Nat /\ W >= 1 /\ Start \in Nat
      /\ SYNC_THRESHOLD \in 0 .. W
  BY <1>1, Sizes DEF FoundInv, Heard, Pass
<1> HIDE DEF b
<1>4. reg \in Registers
  BY <1>2, <1>3, Pushed
<1>5. bits \in 0 .. W /\ run' \in 0 .. W /\ bits >= run'
  BY <1>1, <1>3
<1> HIDE DEF reg
<1>6. /\ InSync(pos)' <=> InSync(pos')
      /\ Place(pos)' = Place(pos') /\ Ends' = Ends
  BY DEF InSync, Place, Ends
<1>7. ASSUME pos' \in Ends, run' = W, errs' <= W - SYNC_THRESHOLD PROVE found
  <2>1. Place(pos') = Start + W
    BY <1>7, EndPlaces
  <2>2. InSync(pos') /\ Place(pos') - Start = W
    BY <1>3, <2>1 DEF InSync
  <2>3. Cardinality(Wrong(reg, W)) <= errs'
    BY <1>2, <1>3, <1>7, <2>2
  <2>4. Cardinality(Wrong(reg, W)) \in Nat
    BY <1>3, WrongFinite
  <2>5. Cardinality(Wrong(reg, W)) <= W - SYNC_THRESHOLD
    BY <1>2, <1>3, <1>7, <2>3, <2>4
  <2>6. Correlates(reg, W)
    BY <1>4, <2>5, CloseCorrelates
  <2>7. bits = W
    BY <1>3, <1>5, <1>7
  <2> QED BY <2>6, <2>7
<1> HIDE DEF bits, found
<1>8. FoundAtEnd'
  <2> SUFFICES ASSUME pos' \in Ends, run' = W, errs' <= W - SYNC_THRESHOLD
               PROVE  state' = "DATA" /\ at' = pos'
    BY <1>6 DEF FoundAtEnd
  <2> QED BY <1>1, <1>7
<1>9. Heard'
  <2>1. pos' \in Nat
    BY <1>3
  <2>2. corr_reg' \in Registers
    BY <1>1, <1>4, ZerosFit
  <2>3. corr_bits' \in 0 .. W
    BY <1>1, <1>3, <1>5
  <2>4. ASSUME state' = "SEARCHING" PROVE corr_bits' >= run' /\ corr_reg' = reg
    BY <1>1, <1>5, <2>4
  <2>5. ASSUME state' = "SEARCHING", InSync(pos)', run' >= Place(pos)' - Start
        PROVE  Cardinality(Wrong(corr_reg', Place(pos)' - Start)) <= errs'
    BY <1>2, <1>6, <2>4, <2>5
  <2>6. Wrong(corr_reg, Place(pos) - Start)' = Wrong(corr_reg', Place(pos)' - Start)
    BY DEF Wrong
  <2> QED BY <1>2, <1>5, <2>1, <2>2, <2>3, <2>4, <2>5, <2>6 DEF Heard
<1> QED BY <1>8, <1>9 DEF FoundInv

LEMMA FoundStep == FilterPasses /\ FoundInv /\ [Next]_vars => FoundInv'
<1> SUFFICES ASSUME FilterPasses, FoundInv, [Next]_vars PROVE FoundInv'
  OBVIOUS
<1>1. /\ pos \in Nat /\ pos + 1 \in Nat /\ errs \in Nat /\ corr_reg \in Registers /\ corr_bits \in 0 .. W
      /\ 0 \in 0 .. W
  BY Sizes DEF FoundInv, Heard
<1>2. ASSUME NEW flipped \in BOOLEAN, Hear(flipped) PROVE FoundInv'
  <2>1. CASE Search(IF flipped THEN Flip(Sent) ELSE Sent)
    BY <1>2, <2>1, FoundSearch
  <2>2. CASE Receive(IF flipped THEN Flip(Sent) ELSE Sent, flipped)
    <3>1. run' = 0 /\ corr_reg' = corr_reg /\ corr_bits' = corr_bits /\ pos' = pos + 1
      BY <1>2, <2>2 DEF Receive, detector, Hear, Pass
    <3>2. errs' \in Nat
      BY <1>1, <1>2 DEF Hear
    <3> QED BY <1>1, <3>1, <3>2, NoRun
  <2> QED BY <1>2, <2>1, <2>2 DEF Hear
<1>3. CASE Lose \/ Timeout
  <2>1. /\ run' = 0 /\ corr_reg' = corr_reg /\ corr_bits' = corr_bits /\ pos' = pos + 1
        /\ errs' = errs
    BY <1>3 DEF Lose, Timeout, detector, Pass
  <2> QED BY <1>1, <2>1, NoRun
<1>4. CASE RxReset
  <2>1. /\ run' = 0 /\ corr_reg' = Zeros /\ corr_bits' = 0 /\ pos' = pos /\ errs' = errs
    BY <1>4 DEF RxReset, ClearDetector
  <2> QED BY <1>1, <2>1, ZerosFit, NoRun
<1>5. CASE UNCHANGED vars
  <2>1. /\ pos' = pos /\ at' = at /\ state' = state /\ corr_reg' = corr_reg /\ corr_bits' = corr_bits
        /\ run' = run /\ errs' = errs
    BY <1>5 DEF vars, detector
  <2>2. Heard' /\ FoundAtEnd'
    BY <2>1 DEF FoundInv, Heard, FoundAtEnd, Wrong, InSync, Place, Ends
  <2> QED BY <2>2 DEF FoundInv
<1> QED BY <1>2, <1>3, <1>4, <1>5 DEF Next

\* A sync word that reached the detector whole, and with few enough bits wrong, is
\* found at its last bit, whatever the registers were left with.
THEOREM IntactWordsFound == FilterPasses => (Spec => []FoundAtEnd)
<1> SUFFICES ASSUME FilterPasses PROVE Spec => []FoundAtEnd
  OBVIOUS
<1>1. FoundInv /\ [Next]_vars => FoundInv'
  BY FoundStep
<1>2. FoundInv => FoundAtEnd
  BY DEF FoundInv
<1> QED BY <1>1, <1>2, FoundInit, PTL DEF Spec

-----------------------------------------------------------------------------
(* Types.                                                                  *)

\* The registers of a scrambler that goes on: a bit in each place, not all zero.
Live == [RegBits -> Bit] \ {Dead}

LEMMA RegFacts ==
  /\ STATE_BITS \in Nat /\ STATE_BITS >= 1
  /\ 0 \in RegBits /\ STATE_BITS - 1 \in RegBits /\ STATE_BITS - 1 \in TAPS
  /\ TAPS \subseteq RegBits
  /\ \A i \in RegBits : i \in Int /\ (i # 0 => i - 1 \in RegBits)
                        /\ (i # STATE_BITS - 1 => i + 1 \in RegBits)
<1>1. STATE_BITS \in Nat /\ STATE_BITS >= 1 /\ TAPS \subseteq RegBits /\ STATE_BITS - 1 \in TAPS
  BY BitSyncAssumption DEF RegBits
<1>2. 0 \in RegBits /\ STATE_BITS - 1 \in RegBits
  BY <1>1 DEF RegBits
<1>3. ASSUME NEW i \in RegBits
      PROVE  i \in Int /\ (i # 0 => i - 1 \in RegBits) /\ (i # STATE_BITS - 1 => i + 1 \in RegBits)
  BY <1>1 DEF RegBits
<1> QED BY <1>1, <1>2, <1>3

LEMMA SeedLives == Seed \in Live
<1>1. Seed \in [RegBits -> Bit]
  BY DEF Seed, Bit
<1>2. Seed[0] = 1 /\ Dead[0] = 0
  BY RegFacts DEF Seed, Dead
<1> QED BY <1>1, <1>2 DEF Live

\* What a shift leaves in each place.
LEMMA Shifted ==
  ASSUME NEW l \in [RegBits -> Bit]
  PROVE  /\ Advance(l) \in [RegBits -> Bit] /\ Advance(l)[0] = Key(l)
         /\ \A i \in RegBits : i # 0 => Advance(l)[i] = l[i - 1]
<1> DEFINE f == [i \in RegBits |-> IF i = 0 THEN Key(l) ELSE l[i - 1]]
<1>1. Advance(l) = f
  BY DEF Advance, Shift
<1>2. ASSUME NEW i \in RegBits PROVE (IF i = 0 THEN Key(l) ELSE l[i - 1]) \in Bit
  BY KeyIsBit, RegFacts
<1>3. f \in [RegBits -> Bit]
  BY <1>2
<1>4. f[0] = Key(l) /\ \A i \in RegBits : i # 0 => f[i] = l[i - 1]
  BY RegFacts
<1> QED BY <1>1, <1>3, <1>4

\* A scrambler that is not all zero never becomes it: its top bit is a tap, so a
\* register with that bit alone has the key 1.
LEMMA AdvanceLives == \A l \in Live : Advance(l) \in Live
<1> SUFFICES ASSUME NEW l \in Live, Advance(l) = Dead PROVE FALSE
  BY Shifted DEF Live
<1> DEFINE top == STATE_BITS - 1
<1>1. l \in [RegBits -> Bit] /\ l # Dead
  BY DEF Live
<1>2. Advance(l)[0] = Key(l) /\ \A i \in RegBits : i # 0 => Advance(l)[i] = l[i - 1]
  BY <1>1, Shifted
<1>3. Key(l) = 0
  BY <1>2, RegFacts DEF Dead
<1>4. ASSUME NEW i \in RegBits, i # top PROVE l[i] = 0
  <2>1. i + 1 \in RegBits /\ i + 1 # 0 /\ (i + 1) - 1 = i
    BY <1>4, RegFacts DEF RegBits
  <2>2. Advance(l)[i + 1] = 0
    BY <2>1 DEF Dead
  <2> QED BY <1>2, <2>1, <2>2
<1>5. l[top] = 1
  <2>1. PICK i \in RegBits : l[i] # Dead[i]
    <3>1. Dead \in [RegBits -> Bit]
      BY DEF Dead, Bit
    <3> QED BY <1>1, <3>1
  <2>2. l[i] # 0 /\ l[i] \in Bit
    BY <1>1, <2>1 DEF Dead
  <2> QED BY <1>4, <2>2 DEF Bit
<1>6. {i \in TAPS : l[i] = 1} = {top}
  <2>1. ASSUME NEW i \in TAPS, l[i] = 1 PROVE i = top
    BY <1>4, <2>1, RegFacts
  <2> QED BY <1>5, <2>1, RegFacts
<1>7. Cardinality({top}) = 1
  BY FS_Singleton
<1>8. Key(l) = Cardinality({top}) % 2
  BY ONLY <1>6 DEF Key
<1>9. 1 % 2 = 1
  OBVIOUS
<1> HIDE DEF top
<1> QED BY ONLY <1>3, <1>7, <1>8, <1>9

\* What TypeOK needs: the registers hold bits, a flip costs a fault, and the bits right
\* since a slip are bits of this frame's payload.
TypeInv ==
  /\ TypeOK
  /\ sync_accumulator \in Registers /\ corr_reg \in Registers
  /\ errs + faults <= MaxFaults
  /\ at > pos - Place(pos) => healed = 0 \/ healed <= Place(pos) - Start - W

LEMMA TypeInit == Init => TypeInv
<1> SUFFICES ASSUME Init PROVE TypeInv
  OBVIOUS
<1>1. /\ pos = 0 /\ at = 0 /\ state = "SEARCHING" /\ sync_accumulator = Zeros /\ corr_reg = Zeros
      /\ corr_bits = 0 /\ tx_scrambler = Seed /\ rx_scrambler = Seed /\ faults = MaxFaults
      /\ resets = 1 /\ run = 0 /\ errs = 0 /\ healed = 0 /\ bits_received = 0
  BY DEF Init
<1>2. {whole, slipped, expected} \subseteq BOOLEAN
  BY DEF Init
<1>3. LineLen \in Nat
  BY Sizes, FrameShape DEF LineLen, L
<1>4. Seed \in [RegBits -> Bit] \ {Dead}
  BY SeedLives DEF Live
<1>5. sync_accumulator \in Registers /\ corr_reg \in Registers
  BY <1>1, ZerosFit
<1>6. TypeOK
  BY <1>1, <1>2, <1>3, <1>4, <1>5, Sizes DEF TypeOK, Registers
<1> QED BY <1>1, <1>5, <1>6, Sizes DEF TypeInv

\* What every step that passes a bit of the line keeps.
LEMMA PassTypes ==
  ASSUME TypeInv, Pass
  PROVE  /\ pos' \in 0 .. LineLen /\ pos' = pos + 1 /\ at \in 0 .. pos /\ at \in 0 .. pos' /\ pos' \in 0 .. pos'
         /\ pos \in Nat /\ pos' \in Nat /\ bits_received \in 0 .. pos
         /\ \A m \in {0, bits_received, bits_received + 1} : m \in 0 .. pos'
         /\ tx_scrambler' \in Live
         /\ Place(pos) \in 1 .. L /\ Place(pos') = IF Place(pos) = L THEN 1 ELSE Place(pos) + 1
         /\ Place(pos') \in 1 .. L /\ Place(pos)' = Place(pos') /\ L \in Nat
<1>1. /\ pos \in 0 .. LineLen /\ at \in 0 .. pos /\ tx_scrambler \in Live
      /\ bits_received \in 0 .. pos
  BY DEF TypeInv, TypeOK, Live
<1>2. LineLen \in Nat
  BY Sizes, FrameShape DEF LineLen, L
<1>3. pos < LineLen /\ pos' = pos + 1 /\ pos \in Nat /\ pos' \in Nat
  BY <1>1, <1>2 DEF Pass
<1>4. tx_scrambler' \in Live
  BY <1>1, AdvanceLives, SeedLives DEF Pass
<1>5. Place(pos) \in 1 .. L /\ Place(pos + 1) = IF Place(pos) = L THEN 1 ELSE Place(pos) + 1
  BY <1>3, PlaceNext
<1>6. Place(pos') \in 1 .. L
  BY <1>3, PlaceNext
<1>7. Place(pos)' = Place(pos')
  BY DEF Place
<1> QED BY <1>1, <1>2, <1>3, <1>4, <1>5, <1>6, <1>7, FrameShape

\* The history of a Lose or a Timeout: what was right so far is kept or forgotten.
LEMMA HealedKept ==
  ASSUME TypeInv, Pass, at' = at, healed' \in {0, healed}
  PROVE  /\ healed' \in 0 .. Len(Payload)
         /\ at' > pos' - Place(pos)' => healed' = 0 \/ healed' <= Place(pos)' - Start - W
<1>1. healed \in 0 .. Len(Payload) /\ (at > pos - Place(pos) => healed = 0 \/ healed <= Place(pos) - Start - W)
  BY DEF TypeInv, TypeOK
<1>2. healed' \in 0 .. Len(Payload)
  BY <1>1, Sizes
<1>3. ASSUME at > pos' - Place(pos') PROVE healed' = 0 \/ healed' <= Place(pos') - Start - W
  <2>1. Place(pos') = Place(pos) + 1 /\ at > pos - Place(pos) /\ Place(pos) \in Int
    BY <1>3, PassTypes
  <2>2. healed = 0 \/ healed <= Place(pos) - Start - W
    BY <1>1, <2>1
  <2>3. Start \in Int /\ W \in Int /\ healed \in Int
    BY <1>1, Sizes
  <2>4. healed <= Place(pos) - Start - W => healed <= Place(pos') - Start - W
    BY ONLY <2>1, <2>3
  <2>5. healed' = 0 \/ healed' = healed
    OBVIOUS
  <2> QED BY <2>2, <2>4, <2>5
<1> QED BY <1>2, <1>3, PassTypes

LEMMA TypeSearch ==
  ASSUME TypeInv, Pass, NEW b \in Bit, Search(b), faults' \in 0 .. MaxFaults,
         errs' \in 0 .. MaxFaults, errs' + faults' <= MaxFaults, resets' = resets
  PROVE  TypeInv'
<1> DEFINE word == Push(sync_accumulator, b)
           reg == Push(corr_reg, b)
           bits == IF corr_bits < W THEN corr_bits + 1 ELSE W
           found == word = SYNC_WORD \/ Correlates(reg, bits)
<1>1. /\ sync_accumulator' = word
      /\ corr_reg' = (IF found THEN Zeros ELSE reg)
      /\ corr_bits' = (IF found THEN 0 ELSE bits)
      /\ state = "SEARCHING" /\ state' = (IF found THEN "DATA" ELSE state)
      /\ rx_scrambler' = (IF found THEN Seed ELSE rx_scrambler)
      /\ at' = (IF found THEN pos' ELSE at)
      /\ run' = (IF run < W THEN run + 1 ELSE W)
      /\ healed' = 0 /\ bits_received' \in {0, bits_received}
  BY DEF Search
<1>2. {whole', slipped', expected'} \subseteq BOOLEAN
  <2>1. whole' = IF found THEN run' = W ELSE whole
    BY DEF Search
  <2>2. (run' = W) \in BOOLEAN /\ whole \in BOOLEAN /\ expected \in BOOLEAN
    BY DEF TypeInv, TypeOK
  <2>3. whole' \in BOOLEAN
    BY <2>1, <2>2
  <2>4. slipped' \in BOOLEAN /\ expected' = expected
    BY DEF Search
  <2> QED BY <2>2, <2>3, <2>4
<1>3. /\ corr_bits \in 0 .. W /\ run \in 0 .. W /\ rx_scrambler \in Live /\ resets \in 0 .. 1
      /\ sync_accumulator \in Registers /\ corr_reg \in Registers /\ W \in Nat /\ W >= 1
  BY Sizes DEF TypeInv, TypeOK, Live
<1>4. word \in Registers /\ reg \in Registers
  BY <1>3, Pushed
<1>5. bits \in 0 .. W /\ run' \in 0 .. W
  BY <1>1, <1>3
<1> HIDE DEF word, reg, bits, found
<1>6. sync_accumulator' \in Registers /\ corr_reg' \in Registers /\ corr_bits' \in 0 .. W
  BY <1>1, <1>3, <1>4, <1>5, ZerosFit
<1>7. state' \in {"SEARCHING", "DATA"} /\ rx_scrambler' \in Live /\ at' \in 0 .. pos'
  <2>1. at \in 0 .. pos' /\ pos' \in 0 .. pos'
    BY PassTypes
  <2>2. rx_scrambler' \in Live
    BY <1>1, <1>3, SeedLives
  <2> QED BY <1>1, <2>1, <2>2
<1>8. pos' \in 0 .. LineLen /\ tx_scrambler' \in Live /\ bits_received' \in 0 .. pos'
  BY <1>1, PassTypes
<1>9. Len(sync_accumulator') = W /\ Len(corr_reg') = W /\ healed' \in 0 .. Len(Payload)
  BY <1>1, <1>6, Sizes DEF Registers
<1>10. TypeOK'
  BY <1>2, <1>3, <1>5, <1>6, <1>7, <1>8, <1>9 DEF TypeOK, Live
<1> QED BY <1>1, <1>6, <1>10 DEF TypeInv

LEMMA TypeReceive ==
  ASSUME TypeInv, Pass, NEW b, NEW flipped \in BOOLEAN, Receive(b, flipped), faults' \in 0 .. MaxFaults,
         errs' \in 0 .. MaxFaults, errs' + faults' <= MaxFaults, resets' = resets
  PROVE  TypeInv'
<1> DEFINE n == Place(pos') - Start - W
           here == n > 0 /\ at > pos' - Place(pos')
           right == ScramblerProcess(rx_scrambler, b).bit = Payload[n]
<1>1. /\ rx_scrambler' = Advance(rx_scrambler) /\ run' = 0 /\ state' \in {state, "SEARCHING"}
      /\ at' = at
      /\ sync_accumulator' = sync_accumulator /\ corr_reg' = corr_reg /\ corr_bits' = corr_bits
      /\ whole' = whole /\ slipped' \in {slipped, FALSE} /\ bits_received' = bits_received + 1
      /\ healed' \in {0, IF here THEN IF slipped /\ right THEN healed + 1 ELSE 0 ELSE 0}
  BY DEF Receive, ScramblerProcess, detector
<1>2. expected' \in BOOLEAN
  <2>1. \/ expected' = (right # flipped) \/ expected' = TRUE
        \/ expected' = (here /\ ~slipped => right # flipped)
    BY DEF Receive
  <2>2. (right # flipped) \in BOOLEAN /\ (here /\ ~slipped => right # flipped) \in BOOLEAN
    OBVIOUS
  <2> QED BY <2>1, <2>2
<1>3. {whole, slipped} \subseteq BOOLEAN
  BY DEF TypeInv, TypeOK
<1>4. {whole', slipped', expected'} \subseteq BOOLEAN
  BY <1>1, <1>2, <1>3
<1> HIDE DEF right
<1>5. /\ corr_bits \in 0 .. W /\ rx_scrambler \in Live /\ resets \in 0 .. 1 /\ 0 \in 0 .. W
      /\ sync_accumulator \in Registers /\ corr_reg \in Registers /\ W \in Nat /\ W >= 1
      /\ state \in {"SEARCHING", "DATA"} /\ healed \in 0 .. Len(Payload)
      /\ at > pos - Place(pos) => healed = 0 \/ healed <= Place(pos) - Start - W
      /\ Len(sync_accumulator) = W /\ Len(corr_reg) = W
  BY Sizes DEF TypeInv, TypeOK, Live
<1>6. healed' = 0 \/ (healed' \in 0 .. n /\ n \in 0 .. Len(Payload))
  <2> SUFFICES ASSUME here, healed' = healed + 1
               PROVE  healed' \in 0 .. n /\ n \in 0 .. Len(Payload)
    BY <1>1
  <2>1. /\ Place(pos) \in Int /\ Place(pos') = Place(pos) + 1 /\ at > pos - Place(pos)
        /\ Place(pos') \in 1 .. L
    BY PassTypes
  <2>2. healed = 0 \/ healed <= Place(pos) - Start - W
    BY <1>5, <2>1
  <2>3. Start \in Int /\ W \in Int /\ healed \in Nat /\ L = Start + W + Len(Payload) /\ Len(Payload) \in Nat
    BY <1>5, Sizes, FrameShape
  <2>4. n > 0 /\ healed' = healed + 1 /\ n = Place(pos') - Start - W
    OBVIOUS
  <2> HIDE DEF n
  <2> QED BY ONLY <2>1, <2>2, <2>3, <2>4
<1>7. healed' \in 0 .. Len(Payload)
  BY <1>6, Sizes
<1>8. at' > pos' - Place(pos)' => healed' = 0 \/ healed' <= Place(pos)' - Start - W
  BY <1>6, PassTypes
<1>9. rx_scrambler' \in Live
  BY <1>1, <1>5, AdvanceLives
<1>10. /\ pos' \in 0 .. LineLen /\ at' \in 0 .. pos' /\ tx_scrambler' \in Live
       /\ bits_received' \in 0 .. pos'
  BY <1>1, PassTypes
<1>11. TypeOK'
  BY <1>1, <1>4, <1>5, <1>7, <1>9, <1>10 DEF TypeOK, Live
<1> QED BY <1>1, <1>5, <1>8, <1>11 DEF TypeInv

LEMMA TypeHear ==
  ASSUME TypeInv, NEW flipped \in BOOLEAN, Hear(flipped)
  PROVE  TypeInv'
<1> DEFINE b == IF flipped THEN Flip(Sent) ELSE Sent
<1>1. /\ Pass /\ resets' = resets /\ (flipped => faults > 0)
      /\ faults' = (IF flipped THEN faults - 1 ELSE faults)
      /\ errs' = IF ~InSync(pos') THEN 0
                 ELSE (IF InSync(pos) THEN errs ELSE 0) + (IF flipped THEN 1 ELSE 0)
      /\ Search(b) \/ Receive(b, flipped)
  BY DEF Hear
<1>2. faults \in 0 .. MaxFaults /\ errs \in 0 .. MaxFaults /\ errs + faults <= MaxFaults /\ MaxFaults \in Nat
  BY Sizes DEF TypeInv, TypeOK
<1>3. faults' \in 0 .. MaxFaults /\ errs' \in 0 .. MaxFaults /\ errs' + faults' <= MaxFaults
  <2> DEFINE e == IF InSync(pos) THEN errs ELSE 0
  <2>1. e \in 0 .. errs
    BY <1>2
  <2>2. errs' = 0 \/ errs' = e + (IF flipped THEN 1 ELSE 0)
    BY <1>1
  <2> HIDE DEF e
  <2>3. CASE flipped
    <3>1. faults' = faults - 1 /\ faults > 0 /\ (errs' = 0 \/ errs' = e + 1)
      BY <1>1, <2>2, <2>3
    <3> QED BY ONLY <1>2, <2>1, <3>1
  <2>4. CASE ~flipped
    <3>1. faults' = faults /\ (errs' = 0 \/ errs' = e)
      BY <1>1, <2>1, <2>2, <2>4, <1>2
    <3> QED BY ONLY <1>2, <2>1, <3>1
  <2> QED BY <2>3, <2>4
<1>4. b \in Bit
  <2>1. Sent \in Bit
    BY <1>1, PassTypes, SentFacts
  <2> QED BY <2>1, FlipIsBit
<1> HIDE DEF b
<1> QED BY <1>1, <1>3, <1>4, TypeSearch, TypeReceive

LEMMA TypeLose ==
  ASSUME TypeInv, Lose \/ Timeout
  PROVE  TypeInv'
<1>1. /\ Pass /\ at' = at /\ errs' = errs /\ run' = 0 /\ rx_scrambler' = rx_scrambler
      /\ sync_accumulator' = sync_accumulator /\ corr_reg' = corr_reg /\ corr_bits' = corr_bits
      /\ whole' = whole /\ healed' \in {0, healed} /\ state' \in {"SEARCHING", state}
      /\ faults' \in {0, faults} /\ bits_received' \in {0, bits_received}
      /\ resets' = resets \/ (resets > 0 /\ resets' = resets - 1)
      /\ slipped' = (state = "DATA") \/ slipped' = FALSE
      /\ expected' = expected \/ expected' = TRUE
  BY DEF Lose, Timeout, detector
<1>2. /\ errs \in 0 .. MaxFaults /\ faults \in 0 .. MaxFaults /\ errs + faults <= MaxFaults
      /\ resets \in 0 .. 1 /\ MaxFaults \in Nat /\ whole \in BOOLEAN /\ expected \in BOOLEAN
      /\ state \in {"SEARCHING", "DATA"} /\ rx_scrambler \in Live /\ corr_bits \in 0 .. W
      /\ sync_accumulator \in Registers /\ corr_reg \in Registers /\ 0 \in 0 .. W
      /\ Len(sync_accumulator) = W /\ Len(corr_reg) = W
  BY Sizes DEF TypeInv, TypeOK, Live
<1>3. faults' \in 0 .. MaxFaults /\ errs' + faults' <= MaxFaults /\ resets' \in 0 .. 1
  <2>1. errs' = errs /\ (faults' = 0 \/ faults' = faults)
    BY <1>1
  <2>2. faults' \in 0 .. MaxFaults /\ errs' + faults' <= MaxFaults
    BY ONLY <1>2, <2>1
  <2>3. resets' \in 0 .. 1
    BY <1>1, <1>2
  <2> QED BY <2>2, <2>3
<1>4. {whole', slipped', expected'} \subseteq BOOLEAN
  <2>1. slipped' \in BOOLEAN
    BY <1>1
  <2>2. expected' \in BOOLEAN
    BY <1>1, <1>2
  <2> QED BY <1>1, <1>2, <2>1, <2>2
<1>5. /\ healed' \in 0 .. Len(Payload)
      /\ at' > pos' - Place(pos)' => healed' = 0 \/ healed' <= Place(pos)' - Start - W
  BY <1>1, HealedKept
<1>6. /\ pos' \in 0 .. LineLen /\ at' \in 0 .. pos' /\ tx_scrambler' \in Live
      /\ bits_received' \in 0 .. pos'
  BY <1>1, PassTypes
<1>7. TypeOK'
  BY <1>1, <1>2, <1>3, <1>4, <1>5, <1>6 DEF TypeOK, Live
<1> QED BY <1>1, <1>2, <1>3, <1>5, <1>7 DEF TypeInv

LEMMA TypeReset ==
  ASSUME TypeInv, RxReset
  PROVE  TypeInv'
<1>1. /\ pos' = pos /\ at' = at /\ errs' = errs /\ faults' = faults /\ run' = 0
      /\ rx_scrambler' = Seed /\ tx_scrambler' = tx_scrambler /\ state' = "SEARCHING"
      /\ sync_accumulator' = Zeros /\ corr_reg' = Zeros /\ corr_bits' = 0
      /\ whole' = whole /\ healed' = 0 /\ resets > 0 /\ resets' = resets - 1
      /\ slipped' = FALSE /\ expected' = TRUE /\ bits_received' = 0
  BY DEF RxReset, ClearDetector
<1>2. resets \in 0 .. 1 /\ whole \in BOOLEAN /\ 0 \in 0 .. W /\ bits_received' \in 0 .. pos'
  <2>1. pos \in Nat /\ bits_received' = 0 /\ pos' = pos
    BY <1>1, Sizes DEF TypeInv, TypeOK
  <2> QED BY <2>1, Sizes DEF TypeInv, TypeOK
<1>3. resets' \in 0 .. 1
  BY <1>1, <1>2
<1>4. Zeros \in Registers /\ Len(Zeros) = W /\ Seed \in Live /\ 0 \in 0 .. Len(Payload)
  BY ZerosFit, SeedLives, Sizes DEF Registers
<1>5. {whole', slipped', expected'} \subseteq BOOLEAN
  BY <1>1, <1>2
<1>6. /\ sync_accumulator' \in Registers /\ corr_reg' \in Registers /\ rx_scrambler' \in Live
      /\ Len(sync_accumulator') = W /\ Len(corr_reg') = W /\ corr_bits' \in 0 .. W /\ run' \in 0 .. W
      /\ healed' \in 0 .. Len(Payload)
  BY <1>1, <1>2, <1>4
<1>7. TypeOK'
  BY <1>1, <1>2, <1>3, <1>5, <1>6 DEF TypeInv, TypeOK, Live
<1> QED BY <1>1, <1>6, <1>7 DEF TypeInv

LEMMA TypeStep == TypeInv /\ [Next]_vars => TypeInv'
<1> SUFFICES ASSUME TypeInv, [Next]_vars PROVE TypeInv'
  OBVIOUS
<1>1. CASE UNCHANGED vars
  <2>1. /\ pos' = pos /\ at' = at /\ state' = state /\ sync_accumulator' = sync_accumulator
        /\ corr_reg' = corr_reg /\ corr_bits' = corr_bits /\ tx_scrambler' = tx_scrambler
        /\ rx_scrambler' = rx_scrambler /\ faults' = faults /\ resets' = resets /\ run' = run
        /\ errs' = errs /\ whole' = whole /\ slipped' = slipped /\ expected' = expected
        /\ healed' = healed /\ bits_received' = bits_received
    BY <1>1 DEF vars, detector
  <2>2. Place(pos)' = Place(pos)
    BY <2>1 DEF Place
  <2>3. TypeOK'
    BY <2>1 DEF TypeInv, TypeOK
  <2> QED BY <2>1, <2>2, <2>3 DEF TypeInv
<1> QED BY <1>1, TypeHear, TypeLose, TypeReset DEF Next

\* Neither scrambler ever leaves its width or runs down to zero, where every bit would
\* be sent in the clear; the detector's registers keep their width.
THEOREM BitSyncTypeCorrect == Spec => []TypeOK
<1>1. TypeInv => TypeOK
  BY DEF TypeInv
<1> QED BY <1>1, TypeInit, TypeStep, PTL DEF Spec

-----------------------------------------------------------------------------
(* What a slip leaves.                                                     *)

\* An even number of taps: a register that is all ones has the key 0.
EvenTaps == Cardinality(TAPS) % 2 = 0

\* The bits after the sync word of a frame that slipped.
InSlip == state = "DATA" /\ slipped /\ at > pos - Place(pos)

\* There the sender's register is one step ahead of the receiver's, and as many bits as
\* were right in a row its lowest bits are the same: a bit is right only if the two
\* keys are, and the receiver's key is the sender's lowest bit.
SlipInv ==
  /\ healed \in Nat /\ healed < STATE_BITS
  /\ slipped => faults = 0
  /\ ~InSlip => healed = 0
  /\ InSlip => \/ Len(Payload) = 0 /\ healed = 0
               \/ /\ InPayload(pos) /\ tx_scrambler = Advance(rx_scrambler)
                  /\ \A i \in RegBits : i <= healed => tx_scrambler[i] = tx_scrambler[0]

LEMMA SlipInit == Init => SlipInv
<1> SUFFICES ASSUME Init PROVE SlipInv
  OBVIOUS
<1>1. healed = 0 /\ slipped = FALSE
  BY DEF Init
<1> QED BY <1>1, RegFacts DEF SlipInv, InSlip

\* A step after which nothing is slipped.
LEMMA NoSlip ==
  ASSUME ~slipped', healed' = 0
  PROVE  SlipInv'
BY RegFacts DEF SlipInv, InSlip

\* Registers one step apart stay so.
LEMMA OneApart ==
  ASSUME InStep, Pass, InPayload(pos)', tx_scrambler = Advance(rx_scrambler),
         rx_scrambler' = Advance(rx_scrambler)
  PROVE  tx_scrambler' = Advance(rx_scrambler')
BY Passed

\* A word found one bit late: the sender has scrambled one bit already.
LEMMA SlipSearch ==
  ASSUME InStep, TypeInv, OnlyAtEnds', Pass, NEW b, Search(b)
  PROVE  SlipInv'
<1>1. /\ healed' = 0
      /\ \/ state' = "DATA" /\ at' = pos' /\ rx_scrambler' = Seed /\ slipped' = (TRUE /\ pos' \notin Ends)
         \/ slipped' = (FALSE /\ pos' \notin Ends)
  BY DEF Search
<1>2. CASE ~slipped'
  BY <1>1, <1>2, NoSlip
<1>3. CASE slipped'
  <2>1. state' = "DATA" /\ at' = pos' /\ rx_scrambler' = Seed /\ pos' \notin Ends
    BY <1>1, <1>3
  <2>2. faults' = 0 /\ pos' - 1 \in Ends
    BY <2>1 DEF OnlyAtEnds, Ends
  <2>3. /\ pos' = pos + 1 /\ pos \in Nat /\ Place(pos)' = Place(pos')
        /\ Place(pos) \in 1 .. L /\ Place(pos') = IF Place(pos) = L THEN 1 ELSE Place(pos) + 1
    BY PassTypes
  <2>4. Place(pos) = Start + W
    <3>1. pos \in Ends
      BY <2>2, <2>3
    <3> QED BY <3>1, EndPlaces
  <2>5. CASE Len(Payload) = 0
    BY <1>1, <2>2, <2>5, RegFacts DEF SlipInv
  <2>6. CASE Len(Payload) # 0
    <3>1. Place(pos') = Start + W + 1
      BY <2>3, <2>4, <2>6, FrameShape, Sizes
    <3>2. InPayload(pos)' /\ ~InPayload(pos)
      BY <2>3, <2>4, <3>1, Sizes DEF InPayload
    <3>3. tx_scrambler = Seed
      BY <3>2 DEF InStep
    <3>4. tx_scrambler' = Advance(Seed)
      BY <3>2, <3>3, Passed
    <3>5. \A i \in RegBits : i <= healed' => tx_scrambler'[i] = tx_scrambler'[0]
      BY <1>1 DEF RegBits
    <3> QED BY <1>1, <2>1, <2>2, <3>2, <3>4, <3>5, RegFacts DEF SlipInv, InSlip
  <2> QED BY <2>5, <2>6
<1> QED BY <1>2, <1>3

\* Of registers that do not run down, the one whose bits are all the same has only ones.
LEMMA AllOnes ==
  ASSUME EvenTaps, NEW l \in Live, \A i \in RegBits : l[i] = l[0]
  PROVE  l[0] = 1 /\ Key(l) = 0
<1>1. l \in [RegBits -> Bit] /\ l # Dead
  BY DEF Live
<1>2. PICK i \in RegBits : l[i] # Dead[i]
  <2>1. Dead \in [RegBits -> Bit]
    BY DEF Dead, Bit
  <2> QED BY <1>1, <2>1
<1>3. l[i] # 0 /\ l[i] \in Bit
  BY <1>1, <1>2 DEF Dead
<1>4. l[0] = 1
  BY <1>3 DEF Bit
<1>5. {j \in TAPS : l[j] = 1} = TAPS
  <2>1. ASSUME NEW j \in TAPS PROVE l[j] = 1
    BY <1>4, RegFacts
  <2> QED BY <2>1
<1>6. Key(l) = Cardinality(TAPS) % 2
  BY ONLY <1>5 DEF Key
<1> QED BY <1>4, <1>6 DEF EvenTaps

\* A bit right after the slip: one more of the low bits is the same, and there are
\* fewer such bits than the register has.
LEMMA OneMoreSame ==
  ASSUME EvenTaps, NEW t \in Live, NEW h \in Nat, h < STATE_BITS,
         \A i \in RegBits : i <= h => t[i] = t[0], Key(t) = t[0]
  PROVE  /\ h + 1 < STATE_BITS
         /\ \A i \in RegBits : i <= h + 1 => Advance(t)[i] = Advance(t)[0]
<1>1. t \in [RegBits -> Bit]
  BY DEF Live
<1>2. Advance(t)[0] = Key(t) /\ \A i \in RegBits : i # 0 => Advance(t)[i] = t[i - 1]
  BY <1>1, Shifted
<1>3. h # STATE_BITS - 1
  <2> SUFFICES ASSUME h = STATE_BITS - 1 PROVE FALSE
    OBVIOUS
  <2>1. \A i \in RegBits : i <= h
    BY RegFacts DEF RegBits
  <2>2. t[0] = 1 /\ Key(t) = 0
    BY <2>1, AllOnes
  <2> QED BY <2>2
<1>4. h + 1 < STATE_BITS
  BY <1>3, RegFacts
<1>5. ASSUME NEW i \in RegBits, i <= h + 1 PROVE Advance(t)[i] = Advance(t)[0]
  <2>1. CASE i = 0
    BY <2>1
  <2>2. CASE i # 0
    <3>1. i - 1 \in RegBits /\ i - 1 <= h
      BY <1>5, <2>2, RegFacts
    <3> QED BY <1>2, <2>2, <3>1
  <2> QED BY <2>1, <2>2
<1> QED BY <1>4, <1>5

\* A bit descrambled with another key than it was scrambled with comes out wrong.
LEMMA RightKeys ==
  ASSUME NEW a \in Bit, NEW k \in Bit, NEW m \in Bit, Xor(Xor(a, k), m) = a
  PROVE  k = m
BY DEF Bit, Xor

LEMMA Offset ==
  ASSUME NEW s \in Nat, NEW w \in Nat, NEW m \in Nat, NEW p \in 1 .. s + w + m, p > s + w
  PROVE  p - s - w \in 1 .. m
OBVIOUS

LEMMA SlipReceive ==
  ASSUME EvenTaps, InStep, TypeInv, SlipInv, Pass, NEW flipped \in BOOLEAN, flipped => faults > 0,
         faults' = IF flipped THEN faults - 1 ELSE faults,
         Receive(IF flipped THEN Flip(Sent) ELSE Sent, flipped)
  PROVE  SlipInv'
<1> DEFINE b == IF flipped THEN Flip(Sent) ELSE Sent
           n == Place(pos') - Start - W
           here == n > 0 /\ at > pos' - Place(pos')
           right == ScramblerProcess(rx_scrambler, b).bit = Payload[n]
<1> SUFFICES ASSUME state' = state, slipped' = slipped,
                    healed' = (IF here THEN IF slipped /\ right THEN healed + 1 ELSE 0 ELSE 0)
             PROVE  SlipInv'
  <2>1. \/ /\ state' = state /\ slipped' = slipped
           /\ healed' = (IF here THEN IF slipped /\ right THEN healed + 1 ELSE 0 ELSE 0)
        \/ slipped' = FALSE /\ healed' = 0
    BY DEF Receive
  <2> QED BY <2>1, NoSlip
<1>1. /\ state = "DATA" /\ state' = "DATA" /\ at' = at /\ slipped' = slipped
      /\ rx_scrambler' = Advance(rx_scrambler)
      /\ healed' = (IF here THEN IF slipped /\ right THEN healed + 1 ELSE 0 ELSE 0)
  BY DEF Receive, ScramblerProcess
<1>2. /\ pos' = pos + 1 /\ pos \in Nat /\ at \in 0 .. pos /\ Place(pos)' = Place(pos')
      /\ Place(pos) \in 1 .. L /\ Place(pos') = IF Place(pos) = L THEN 1 ELSE Place(pos) + 1
      /\ Place(pos') \in 1 .. L /\ L \in Nat
  BY PassTypes
<1>3. CASE ~slipped
  <2>1. ~slipped' /\ healed' = 0
    BY <1>1, <1>3
  <2> QED BY <2>1, NoSlip
<1>4. CASE slipped /\ ~(at > pos' - Place(pos'))
  <2>1. healed' = 0 /\ ~InSlip'
    BY <1>1, <1>2, <1>4 DEF InSlip
  <2>2. faults' = 0
    BY <1>4 DEF SlipInv
  <2> QED BY <2>1, <2>2, RegFacts DEF SlipInv
<1>5. CASE slipped /\ at > pos' - Place(pos')
  <2>1. faults = 0 /\ ~flipped /\ faults' = 0
    BY <1>5 DEF SlipInv
  <2>2. Place(pos') = Place(pos) + 1 /\ InSlip
    BY <1>1, <1>2, <1>5 DEF InSlip
  <2>3. InSlip'
    BY <1>1, <1>2, <1>5 DEF InSlip
  <2>4. CASE Len(Payload) = 0
    <3>1. ~(n > 0)
      BY <1>2, <2>4, FrameShape, Sizes
    <3>2. healed' = 0
      BY <1>1, <3>1
    <3> QED BY <2>1, <2>3, <2>4, <3>2, RegFacts DEF SlipInv
  <2>5. CASE Len(Payload) # 0
    <3>1. /\ InPayload(pos) /\ tx_scrambler = Advance(rx_scrambler)
          /\ \A i \in RegBits : i <= healed => tx_scrambler[i] = tx_scrambler[0]
          /\ healed \in Nat /\ healed < STATE_BITS
      BY <2>2, <2>5 DEF SlipInv
    <3>2. InPayload(pos)'
      BY <1>2, <2>2, <3>1, Sizes DEF InPayload
    <3>3. tx_scrambler' = Advance(tx_scrambler) /\ tx_scrambler' = Advance(rx_scrambler')
      BY <1>1, <3>1, <3>2, OneApart, Passed
    <3>4. tx_scrambler \in Live /\ rx_scrambler \in [RegBits -> Bit]
      BY DEF TypeInv, TypeOK, Live
    <3>5. tx_scrambler[0] = Key(rx_scrambler)
      BY <3>1, <3>4, Shifted
    <3>6. CASE healed' = 0
      <4>1. \A i \in RegBits : i <= 0 => tx_scrambler'[i] = tx_scrambler'[0]
        BY DEF RegBits
      <4> QED BY <2>1, <2>3, <3>2, <3>3, <3>6, <4>1, RegFacts DEF SlipInv
    <3>7. CASE healed' # 0
      <4>1. right /\ healed' = healed + 1
        BY <1>1, <3>7
      <4>2. Key(tx_scrambler) = Key(rx_scrambler)
        <5> DEFINE a == Payload[n]
                   k == Key(tx_scrambler)
                   m == Key(rx_scrambler)
        <5>1. n \in 1 .. Len(Payload)
          <6>1. Place(pos') \in 1 .. Start + W + Len(Payload) /\ Place(pos') > Start + W
            BY <1>2, <3>2, FrameShape DEF InPayload
          <6> QED BY <6>1, Sizes, Offset
        <5>2. Frame[Place(pos')] = a /\ a \in Bit
          <6>1. Start + W + n = Place(pos')
            BY <1>2, <5>1, Sizes, FrameShape
          <6>2. Frame[Start + W + n] = Payload[n]
            BY <5>1, FrameShape
          <6> QED BY <1>2, <6>1, <6>2, FrameShape
        <5>3. Sent = Xor(a, k)
          <6>1. InPayload(pos + 1) /\ Frame[Place(pos + 1)] = a
            BY <1>2, <3>2, <5>2 DEF InPayload, Place
          <6> QED BY <6>1 DEF Sent, ScramblerProcess
        <5>4. b = Xor(a, k)
          BY <2>1, <5>3
        <5>5. Xor(b, m) = a
          BY <4>1 DEF ScramblerProcess
        <5>6. k \in Bit /\ m \in Bit
          BY KeyIsBit
        <5> HIDE DEF a, k, m, b, right, n
        <5>7. k = m
          BY <5>2, <5>4, <5>5, <5>6, RightKeys
        <5> QED BY <5>7 DEF k, m
      <4>3. /\ healed + 1 < STATE_BITS
            /\ \A i \in RegBits : i <= healed + 1 => tx_scrambler'[i] = tx_scrambler'[0]
        <5>1. Key(tx_scrambler) = tx_scrambler[0]
          BY <3>5, <4>2
        <5>2. /\ healed + 1 < STATE_BITS
              /\ \A i \in RegBits : i <= healed + 1 => Advance(tx_scrambler)[i] = Advance(tx_scrambler)[0]
          BY <3>1, <3>4, <5>1, OneMoreSame
        <5> QED BY <3>3, <5>2
      <4>4. healed' \in Nat /\ healed' < STATE_BITS
        BY <3>1, <4>1, <4>3
      <4>5. \A i \in RegBits : i <= healed' => tx_scrambler'[i] = tx_scrambler'[0]
        BY <4>1, <4>3
      <4> QED BY <2>1, <2>3, <3>2, <3>3, <4>4, <4>5 DEF SlipInv
    <3> QED BY <3>6, <3>7
  <2> QED BY <2>4, <2>5
<1> QED BY <1>3, <1>4, <1>5

\* The bit that is lost puts the sender one step ahead.
LEMMA SlipLose ==
  ASSUME InStep, TypeInv, SlipInv, Lose
  PROVE  SlipInv'
<1>1. /\ Pass /\ faults > 0 /\ faults' = 0 /\ state' = state /\ at' = at /\ healed' = healed
      /\ rx_scrambler' = rx_scrambler /\ slipped' = (state = "DATA")
  BY DEF Lose
<1>2. ~slipped /\ healed = 0
  BY <1>1 DEF SlipInv, InSlip
<1>3. Place(pos)' = Place(pos')
  BY DEF Place
<1>4. ASSUME InSlip'
      PROVE  InPayload(pos)' /\ tx_scrambler' = Advance(rx_scrambler')
  <2>1. state = "DATA" /\ at > pos' - Place(pos')
    BY <1>1, <1>3, <1>4 DEF InSlip
  <2>2. rx_scrambler = tx_scrambler /\ InPayload(pos)'
    BY <1>1, <1>2, <2>1, SameKey
  <2> QED BY <1>1, <2>2, Passed
<1>5. \A i \in RegBits : i <= 0 => tx_scrambler'[i] = tx_scrambler'[0]
  BY DEF RegBits
<1>6. healed' = 0 /\ healed' \in Nat /\ healed' < STATE_BITS
  BY <1>1, <1>2, RegFacts
<1> QED BY <1>1, <1>4, <1>5, <1>6 DEF SlipInv

LEMMA SlipStep == EvenTaps /\ InStep /\ TypeInv /\ SlipInv /\ OnlyAtEnds' /\ [Next]_vars => SlipInv'
<1> SUFFICES ASSUME EvenTaps, InStep, TypeInv, SlipInv, OnlyAtEnds', [Next]_vars PROVE SlipInv'
  OBVIOUS
<1>1. ASSUME NEW flipped \in BOOLEAN, Hear(flipped) PROVE SlipInv'
  <2>1. /\ Pass /\ (flipped => faults > 0) /\ faults' = (IF flipped THEN faults - 1 ELSE faults)
        /\ \/ Search(IF flipped THEN Flip(Sent) ELSE Sent)
           \/ Receive(IF flipped THEN Flip(Sent) ELSE Sent, flipped)
    BY <1>1 DEF Hear
  <2> QED BY <2>1, SlipSearch, SlipReceive
<1>2. CASE Timeout \/ RxReset
  <2>1. slipped' = FALSE /\ healed' = 0
    BY <1>2 DEF Timeout, RxReset
  <2> QED BY <2>1, NoSlip
<1>3. CASE UNCHANGED vars
  <2>1. /\ pos' = pos /\ at' = at /\ state' = state /\ slipped' = slipped /\ healed' = healed
        /\ faults' = faults /\ tx_scrambler' = tx_scrambler /\ rx_scrambler' = rx_scrambler
    BY <1>3 DEF vars
  <2>2. Place(pos)' = Place(pos) /\ (InPayload(pos)' <=> InPayload(pos))
    BY <2>1 DEF InPayload, Place
  <2>3. InSlip' <=> InSlip
    BY <2>1, <2>2 DEF InSlip
  <2> QED BY <2>1, <2>2, <2>3 DEF SlipInv
<1> QED BY <1>1, <1>2, <1>3, SlipLose DEF Next

\* With an even number of taps, and wherever words are found only at their ends or one
\* bit late, a lost bit is never made good: no STATE_BITS bits of the frame in a row
\* come out right, whatever it carries.
THEOREM SlipsStay == EvenTaps => (Spec /\ []OnlyAtEnds => []SlipNeverHeals)
<1> SUFFICES ASSUME EvenTaps PROVE Spec /\ []OnlyAtEnds => []SlipNeverHeals
  OBVIOUS
<1>1. InStep /\ TypeInv /\ SlipInv /\ OnlyAtEnds' /\ [Next]_vars => SlipInv'
  BY SlipStep
<1>2. SlipInv => SlipNeverHeals
  BY DEF SlipInv, SlipNeverHeals
<1> QED BY <1>1, <1>2, InStepInit, InStepStep, TypeInit, TypeStep, SlipInit, PTL DEF Spec
=============================================================================
