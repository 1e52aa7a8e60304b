--------------------------- MODULE BitRingProofs ---------------------------
(***************************************************************************)
(* Proofs about the ring of rb_bits.c, for every size of the ring and      *)
(* every number of bits in a byte.                                         *)
(*                                                                         *)
(* The inductive invariant is RingInv: the ranges of the fields            *)
(* (RingTypeOK), how the two bit counters relate (RingShape), how many     *)
(* bits the fields stand for (RingCounts) and where those bits are         *)
(* (RingContents).  RingContents alone is not inductive: a put is only     *)
(* right because the positions it ORs into are zero, and a get because the *)
(* byte it moves to has a bit.                                             *)
(***************************************************************************)
EXTENDS BitRing, SequenceTheorems, TLAPS

RingInv == RingTypeOK /\ RingShape /\ RingCounts /\ RingContents

-----------------------------------------------------------------------------
(* Arithmetic of bytes and slots.                                          *)

\* Multiplication by the constant SIZE_BYTE, in the three forms used below:
\* one more byte is SIZE_BYTE more bits, and bytes do not overlap.
LEMMA BitsFacts ==
  /\ \A n \in Nat : Bits(n) \in Nat
  /\ Bits(0) = 0
  /\ \A n \in Nat : Bits(n + 1) = Bits(n) + SIZE_BYTE
  /\ \A m, n \in Nat : m < n => Bits(m) + SIZE_BYTE <= Bits(n)
<1>1. \A n \in Nat : Bits(n) \in Nat
  BY SizeAssumption DEF Bits
<1>2. Bits(0) = 0
  BY SizeAssumption DEF Bits
<1>3. \A n \in Nat : Bits(n + 1) = Bits(n) + SIZE_BYTE
  BY SizeAssumption DEF Bits
<1>4. ASSUME NEW m \in Nat, NEW n \in Nat, m < n
      PROVE  Bits(m) + SIZE_BYTE <= Bits(n)
  <2>1. PICK d \in Nat : n = (m + 1) + d
    <3>1. n - (m + 1) \in Nat /\ n = (m + 1) + (n - (m + 1))
      BY <1>4
    <3> QED BY <3>1
  <2>2. Bits(n) = Bits(m + 1) + Bits(d)
    BY <2>1, SizeAssumption DEF Bits
  <2> QED BY <2>2, <1>1, <1>3
<1> QED BY <1>1, <1>2, <1>3, <1>4

\* Succ stays in the ring.
LEMMA SuccInSlot == \A i \in Slot : Succ(i) \in Slot
BY SizeAssumption DEF Slot, Succ

\* Opening a byte is one byte more between the indices.
LEMMA UsedHeadMoves ==
  ASSUME NEW h \in Slot, NEW t \in Slot, Succ(h) # t
  PROVE  (IF Succ(h) >= t THEN Succ(h) - t ELSE Succ(h) - t + BUFFER_SIZE)
           = (IF h >= t THEN h - t ELSE h - t + BUFFER_SIZE) + 1
BY SizeAssumption DEF Slot, Succ

\* Leaving a byte is one byte less between the indices.
LEMMA UsedTailMoves ==
  ASSUME NEW h \in Slot, NEW t \in Slot, h # t
  PROVE  (IF h >= Succ(t) THEN h - Succ(t) ELSE h - Succ(t) + BUFFER_SIZE)
           = (IF h >= t THEN h - t ELSE h - t + BUFFER_SIZE) - 1
BY SizeAssumption DEF Slot, Succ

\* Counting slots from i: no two counts below the size give the same slot,
\* and counting from the next slot is counting one further.
LEMMA AheadFacts ==
  ASSUME NEW i \in Slot
  PROVE  /\ \A d \in 0 .. (BUFFER_SIZE - 1) : Ahead(i, d) \in Slot
         /\ \A d, e \in 0 .. (BUFFER_SIZE - 1) : Ahead(i, d) = Ahead(i, e) => d = e
         /\ \A d \in 0 .. (BUFFER_SIZE - 2) : Ahead(Succ(i), d) = Ahead(i, d + 1)
         /\ Ahead(i, 0) = i
BY SizeAssumption DEF Slot, Succ, Ahead

\* Two positions (d, k) and (e, j) of the ring are the same bit only if they
\* are the same byte and the same position in it.
LEMMA PositionUnique ==
  ASSUME NEW d \in Nat, NEW e \in Nat, NEW k \in Pos, NEW j \in Pos,
         Bits(d) + k = Bits(e) + j
  PROVE  d = e /\ k = j
<1>1. CASE d < e
  BY <1>1, BitsFacts, SizeAssumption DEF Pos
<1>2. CASE e < d
  BY <1>2, BitsFacts, SizeAssumption DEF Pos
<1>3. CASE d = e
  <2>1. Bits(d) = Bits(e) /\ Bits(d) \in Nat
    BY <1>3, BitsFacts
  <2> QED BY <1>3, <2>1, SizeAssumption DEF Pos
<1> QED BY <1>1, <1>2, <1>3

-----------------------------------------------------------------------------
(* The inductive invariant.                                                *)

\* rb_init leaves an empty ring, whatever malloc returned.
LEMMA InitIInv == RingInit => RingInv
<1> SUFFICES ASSUME RingInit PROVE RingInv
  OBVIOUS
<1>1. RingTypeOK
  BY SizeAssumption DEF RingInit, RingTypeOK, Slot, Bit, Result
<1>2. Used = 0
  BY DEF RingInit, Used
<1>3. RingShape
  BY <1>2, SizeAssumption DEF RingInit, RingShape
<1>4. RingCounts
  BY <1>2, BitsFacts DEF RingInit, RingCounts, Stored, Zero, Pos
<1>5. RingContents
  BY DEF RingInit, RingContents
<1> QED BY <1>1, <1>3, <1>4, <1>5 DEF RingInv

\* Facts every step below starts from: the two tests put_bits and get_bits make
\* on the indices are exactly "one byte short of the ring" and "no whole byte".
LEMMA Facts ==
  ASSUME RingTypeOK
  PROVE  /\ Used \in 0 .. (BUFFER_SIZE - 1)
         /\ Used = 0 <=> head = tail
         /\ Used = BUFFER_SIZE - 1 <=> Succ(head) = tail
         /\ Ahead(tail, Used) = head
         /\ Bits(Used) \in Nat
         /\ Len(pending) \in Nat
<1>1. head \in Slot /\ tail \in Slot /\ pending \in Seq(Bit)
  BY DEF RingTypeOK
<1>2. /\ Used \in 0 .. (BUFFER_SIZE - 1)
      /\ Used = 0 <=> head = tail
      /\ Used = BUFFER_SIZE - 1 <=> Succ(head) = tail
      /\ Ahead(tail, Used) = head
  BY <1>1, SizeAssumption DEF Used, Slot, Succ, Ahead
<1>3. Used \in Nat
  BY <1>2, SizeAssumption
<1> QED BY <1>1, <1>2, <1>3, BitsFacts, LenProperties

\* put_bits into the byte being written keeps the invariant: the position was
\* zero, so the OR stores the bit, and it is the position after the last one.
LEMMA PutSameByteIInv ==
  ASSUME RingInv, NEW b \in Bit, PutSameByte(b)
  PROVE  RingInv'
<1> USE DEF RingInv
<1>0. /\ head \in Slot /\ tail \in Slot
      /\ count_put \in 0 .. SIZE_BYTE /\ count_get \in 0 .. SIZE_BYTE
      /\ buf \in [Slot -> Byte] /\ pending \in Seq(Bit)
      /\ count_put # SIZE_BYTE
  BY DEF RingTypeOK, PutSameByte
<1>1. count_put \in Pos /\ count_put' = count_put + 1
  BY <1>0, SizeAssumption DEF PutSameByte, Pos
<1>2. /\ head' = head /\ tail' = tail /\ count_get' = count_get /\ Used' = Used
      /\ pending' = Append(pending, b)
  BY DEF PutSameByte, Used
<1>3. buf' = [buf EXCEPT ![head] = [buf[head] EXCEPT ![count_put] = b]]
  <2>1. buf[head][count_put] = 0
    BY <1>1 DEF RingCounts, Pos
  <2>2. OrBit(buf[head], count_put, b) = [buf[head] EXCEPT ![count_put] = b]
    BY <2>1, <1>0, <1>1 DEF OrBit, Bit, Byte
  <2> QED BY <2>2 DEF PutSameByte
<1>4. buf' \in [Slot -> Byte]
  BY <1>0, <1>1, <1>3 DEF Byte
<1>5. RingTypeOK'
  <2>1. pending' \in Seq(Bit)
    BY <1>0, <1>2, AppendProperties
  <2>2. count_put' \in 0 .. SIZE_BYTE
    BY <1>1, SizeAssumption DEF Pos
  <2>3. ret' \in [op : {"init", "put", "get", "reset"}, ok : {0, 1}, bit : Bit]
    BY DEF PutSameByte, Result
  <2> QED BY <2>1, <2>2, <2>3, <1>0, <1>2, <1>4 DEF RingTypeOK
<1>6. RingShape'
  <2>1. Used # BUFFER_SIZE - 1
    BY Facts DEF PutSameByte
  <2> QED BY <2>1, <1>0, <1>1, <1>2 DEF RingShape
<1>7. /\ Len(pending') = Len(pending) + 1
      /\ \A n \in 1 .. Len(pending) : pending'[n] = pending[n]
      /\ pending'[Len(pending) + 1] = b
  BY <1>0, <1>2, AppendProperties
<1>8. RingCounts'
  <2>1. Len(pending') = Stored'
    BY <1>0, <1>1, <1>2, <1>7, Facts DEF RingCounts, Stored
  <2>2. ASSUME NEW k \in Pos, k >= count_put'
        PROVE  buf'[head'][k] = 0
    BY <2>2, <1>0, <1>1, <1>2, <1>3 DEF RingCounts, Pos, Byte
  <2> QED BY <2>1, <2>2 DEF RingCounts
<1>9. RingContents'
  <2> SUFFICES ASSUME NEW d \in 0 .. Used, NEW k \in Pos,
                      Bits(d) + k - count_get + 1 \in 1 .. Len(pending')
               PROVE  buf'[Ahead(tail, d)][k] = pending'[Bits(d) + k - count_get + 1]
    BY <1>2 DEF RingContents
  <2> DEFINE n == Bits(d) + k - count_get + 1
  <2>1. d \in 0 .. (BUFFER_SIZE - 1) /\ d \in Nat /\ Bits(d) \in Nat /\ k \in Nat
    BY Facts, BitsFacts, SizeAssumption DEF Pos
  <2>2. Len(pending) = Bits(Used) + count_put - count_get
    BY DEF RingCounts, Stored
  <2>3. CASE n = Len(pending) + 1
    <3>1. Bits(d) + k = Bits(Used) + count_put
      <4>1. count_put \in Nat /\ count_get \in Nat /\ Bits(Used) \in Nat
        BY <1>0, Facts, SizeAssumption
      <4>2. Bits(d) + k - count_get = Bits(Used) + count_put - count_get
        BY <2>1, <2>2, <2>3, <4>1
      <4> QED BY SMTT(30), <4>1, <4>2, <2>1
    <3>2. d = Used /\ k = count_put
      BY <3>1, <1>1, <2>1, Facts, PositionUnique
    <3>3. Ahead(tail, d) = head
      BY <3>2, Facts
    <3> QED BY <3>2, <3>3, <2>3, <1>0, <1>1, <1>3, <1>7 DEF Byte
  <2>4. CASE n # Len(pending) + 1
    <3>1. n \in 1 .. Len(pending)
      BY <2>4, <1>7, Facts
    <3>2. buf[Ahead(tail, d)][k] = pending[n]
      BY <3>1 DEF RingContents
    <3>3. ~(Ahead(tail, d) = head /\ k = count_put)
      <4> SUFFICES ASSUME Ahead(tail, d) = head, k = count_put PROVE FALSE
        OBVIOUS
      <4>1. d = Used
        BY Facts, AheadFacts, <1>0, <2>1
      <4> QED BY <4>1, <2>2, <3>1, <2>1, <1>0, Facts
    <3>4. Ahead(tail, d) \in Slot
      BY <1>0, <2>1, AheadFacts
    <3> QED BY <3>1, <3>2, <3>3, <3>4, <1>0, <1>1, <1>3, <1>7 DEF Byte
  <2> QED BY <2>3, <2>4
<1> QED BY <1>5, <1>6, <1>8, <1>9

\* put_bits that opens a byte keeps the invariant: the byte is cleared before
\* the OR, and its first position follows the last one of the byte before it.
LEMMA PutNextByteIInv ==
  ASSUME RingInv, NEW b \in Bit, PutNextByte(b)
  PROVE  RingInv'
<1> USE DEF RingInv
<1>0. /\ head \in Slot /\ tail \in Slot /\ Succ(head) \in Slot
      /\ count_put = SIZE_BYTE /\ count_get \in 0 .. SIZE_BYTE
      /\ buf \in [Slot -> Byte] /\ pending \in Seq(Bit)
      /\ Succ(head) # tail
  BY SuccInSlot DEF RingTypeOK, PutNextByte
<1>1. /\ head' = Succ(head) /\ tail' = tail
      /\ count_put' = 1 /\ count_get' = count_get
      /\ pending' = Append(pending, b)
      /\ Used' = Used + 1
  BY <1>0, UsedHeadMoves DEF PutNextByte, Used
<1>2. buf' = [buf EXCEPT ![Succ(head)] = [Zero EXCEPT ![0] = b]]
  <2>1. OrBit(Zero, 0, b) = [Zero EXCEPT ![0] = b]
    BY SizeAssumption DEF OrBit, Bit, Zero, Pos
  <2> QED BY <2>1 DEF PutNextByte
<1>3. [Zero EXCEPT ![0] = b] \in Byte
  BY SizeAssumption DEF Zero, Byte, Bit, Pos
<1>4. RingTypeOK'
  <2>1. pending' \in Seq(Bit)
    BY <1>0, <1>1, AppendProperties
  <2>2. ret' \in [op : {"init", "put", "get", "reset"}, ok : {0, 1}, bit : Bit]
    BY DEF PutNextByte, Result
  <2>3. buf' \in [Slot -> Byte]
    BY <1>0, <1>2, <1>3
  <2> QED BY <2>1, <2>2, <2>3, <1>0, <1>1, SizeAssumption DEF RingTypeOK
<1>5. /\ Used \in 0 .. (BUFFER_SIZE - 2) /\ Used \in Nat
      /\ Bits(Used) \in Nat /\ Bits(Used') = Bits(Used) + SIZE_BYTE
  <2>1. Used \in 0 .. (BUFFER_SIZE - 1) /\ Used # BUFFER_SIZE - 1
    BY <1>0, Facts
  <2>2. Used \in 0 .. (BUFFER_SIZE - 2) /\ Used \in Nat
    BY <2>1, SizeAssumption
  <2> QED BY <2>2, <1>1, BitsFacts
<1>6. RingShape'
  <2>1. head' # tail'
    BY <1>0, <1>1
  <2> QED BY <2>1, <1>1 DEF RingShape
<1>7. /\ Len(pending') = Len(pending) + 1
      /\ \A n \in 1 .. Len(pending) : pending'[n] = pending[n]
      /\ pending'[Len(pending) + 1] = b
  BY <1>0, <1>1, AppendProperties
<1>8. Len(pending) = Bits(Used) + SIZE_BYTE - count_get
  BY <1>0 DEF RingCounts, Stored
<1>9. RingCounts'
  <2>1. Len(pending') = Stored'
    BY <1>0, <1>1, <1>5, <1>7, <1>8, SizeAssumption DEF Stored
  <2>2. ASSUME NEW k \in Pos, k >= count_put'
        PROVE  buf'[head'][k] = 0
    BY <2>2, <1>0, <1>1, <1>2, SizeAssumption DEF Pos, Zero
  <2> QED BY <2>1, <2>2 DEF RingCounts
<1>10. RingContents'
  <2> SUFFICES ASSUME NEW d \in 0 .. Used', NEW k \in Pos,
                      Bits(d) + k - count_get + 1 \in 1 .. Len(pending')
               PROVE  buf'[Ahead(tail, d)][k] = pending'[Bits(d) + k - count_get + 1]
    BY <1>1 DEF RingContents
  <2> DEFINE n == Bits(d) + k - count_get + 1
  <2>1. d \in 0 .. (BUFFER_SIZE - 1) /\ d \in Nat /\ Bits(d) \in Nat /\ k \in Nat
    BY <1>1, <1>5, BitsFacts, SizeAssumption DEF Pos
  <2>2. Ahead(tail, Used') = Succ(head)
    <3>1. RingTypeOK' => Ahead(tail', Used') = head'
      BY <1>0, <1>1, SizeAssumption DEF Used, Slot, Ahead
    <3> QED BY <3>1, <1>1, <1>4
  <2>3. CASE d = Used'
    <3>1. n <= Len(pending) + 1 /\ n \in Int
      BY <1>0, <1>7, <2>1, Facts
    <3>2. n = Len(pending) + 1 + k
      BY SMTT(30), <2>3, <1>0, <1>5, <1>8, <2>1, SizeAssumption
    <3>3. k = 0 /\ n = Len(pending) + 1
      BY <3>1, <3>2, <2>1, Facts
    <3> QED BY <3>3, <2>2, <2>3, <1>0, <1>2, <1>7, SizeAssumption DEF Zero, Pos
  <2>4. CASE d # Used'
    <3>1. d \in 0 .. Used
      BY <2>4, <1>1, <1>5
    <3>2. Bits(d) <= Bits(Used)
      <4>1. CASE d = Used
        BY <4>1, <1>5
      <4>2. CASE d < Used
        BY <4>2, <1>5, <2>1, BitsFacts, SizeAssumption
      <4> QED BY <4>1, <4>2, <3>1, <1>5
    <3>3. n \in 1 .. Len(pending)
      BY SMTT(30), <3>2, <1>0, <1>5, <1>7, <1>8, <2>1, SizeAssumption DEF Pos
    <3>4. buf[Ahead(tail, d)][k] = pending[n]
      BY <3>1, <3>3 DEF RingContents
    <3>5. Ahead(tail, d) # Succ(head) /\ Ahead(tail, d) \in Slot
      <4>1. Used' \in 0 .. (BUFFER_SIZE - 1)
        BY <1>1, <1>5, SizeAssumption
      <4> QED BY <4>1, <2>1, <2>2, <2>4, <1>0, AheadFacts
    <3> QED BY <3>3, <3>4, <3>5, <1>0, <1>2, <1>7
  <2> QED BY <2>3, <2>4
<1> QED BY <1>4, <1>6, <1>9, <1>10

\* What removing the oldest bit does to the history.
LEMMA TailFacts ==
  ASSUME NEW s \in Seq(Bit), Len(s) >= 1
  PROVE  /\ Tail(s) \in Seq(Bit) /\ Len(Tail(s)) = Len(s) - 1
         /\ \A n \in 1 .. Len(Tail(s)) : Tail(s)[n] = s[n + 1]
         /\ Head(s) = s[1] /\ s # <<>>
<1>1. s # <<>>
  BY EmptySeq
<1> QED BY <1>1, HeadTailProperties

\* get_bits from the byte being read finds the oldest accepted bit and keeps
\* the invariant.
LEMMA GetSameByteIInv ==
  ASSUME RingInv, GetSameByte
  PROVE  RingInv' /\ pending # <<>> /\ buf[tail][count_get] = Head(pending)
<1> USE DEF RingInv
<1>0. /\ head \in Slot /\ tail \in Slot
      /\ count_put \in 0 .. SIZE_BYTE /\ count_get \in 0 .. SIZE_BYTE
      /\ buf \in [Slot -> Byte] /\ pending \in Seq(Bit)
      /\ ~IsEmpty /\ count_get # SIZE_BYTE
  BY DEF RingTypeOK, GetSameByte
<1>1. count_get \in Pos /\ count_get' = count_get + 1
  BY <1>0, SizeAssumption DEF GetSameByte, Pos
<1>2. /\ head' = head /\ tail' = tail /\ count_put' = count_put /\ Used' = Used
      /\ buf' = buf /\ pending' = Tail(pending)
  BY DEF GetSameByte, Used
<1>3. Len(pending) = Bits(Used) + count_put - count_get /\ Bits(Used) \in Nat
  BY Facts DEF RingCounts, Stored
<1>4. Len(pending) >= 1
  <2>1. CASE head = tail
    BY <2>1, <1>0, <1>3, Facts, BitsFacts DEF RingShape, IsEmpty
  <2>2. CASE head # tail
    <3>1. Bits(Used) >= SIZE_BYTE
      BY <2>2, Facts, BitsFacts, SizeAssumption
    <3>2. count_put >= 1
      BY <2>2, <1>0 DEF RingShape
    <3> QED BY <3>1, <3>2, <1>0, <1>3, SizeAssumption
  <2> QED BY <2>1, <2>2
<1>5. /\ pending' \in Seq(Bit) /\ Len(pending') = Len(pending) - 1
      /\ \A n \in 1 .. Len(pending') : pending'[n] = pending[n + 1]
      /\ Head(pending) = pending[1] /\ pending # <<>>
  BY <1>0, <1>2, <1>4, TailFacts
<1>6. buf[tail][count_get] = Head(pending)
  <2>1. 0 \in 0 .. Used /\ Bits(0) + count_get - count_get + 1 = 1
    BY <1>0, Facts, BitsFacts, SizeAssumption
  <2>2. 1 \in 1 .. Len(pending)
    BY <1>4, Facts
  <2>3. buf[Ahead(tail, 0)][count_get] = pending[Bits(0) + count_get - count_get + 1]
    BY <2>1, <2>2, <1>1 DEF RingContents
  <2> QED BY <2>1, <2>3, <1>0, <1>5, AheadFacts
<1>7. RingTypeOK'
  <2>1. buf[tail][count_get] \in Bit
    BY <1>0, <1>1 DEF Byte
  <2>2. ret' \in [op : {"init", "put", "get", "reset"}, ok : {0, 1}, bit : Bit]
    BY <2>1 DEF GetSameByte, Result
  <2> QED BY <2>2, <1>0, <1>1, <1>2, <1>5, SizeAssumption DEF RingTypeOK, Pos
<1>8. RingShape'
  <2>1. head' = tail' => count_get' <= count_put'
    BY <1>0, <1>1, <1>2 DEF RingShape, IsEmpty
  <2>2. count_put # 0
    BY <1>0 DEF RingShape, IsEmpty
  <2> QED BY <2>1, <2>2, <1>2 DEF RingShape
<1>9. RingCounts'
  BY <1>0, <1>1, <1>2, <1>3, <1>5 DEF RingCounts, Stored
<1>10. RingContents'
  <2> SUFFICES ASSUME NEW d \in 0 .. Used, NEW k \in Pos,
                      Bits(d) + k - (count_get + 1) + 1 \in 1 .. Len(pending')
               PROVE  buf[Ahead(tail, d)][k] = pending'[Bits(d) + k - (count_get + 1) + 1]
    BY <1>1, <1>2 DEF RingContents
  <2> DEFINE n == Bits(d) + k - (count_get + 1) + 1
  <2>1. Bits(d) \in Nat /\ k \in Nat
    BY Facts, BitsFacts, SizeAssumption DEF Pos
  <2>2. n + 1 = Bits(d) + k - count_get + 1 /\ n + 1 \in 1 .. Len(pending)
    BY SMTT(30), <2>1, <1>0, <1>5, Facts
  <2>3. buf[Ahead(tail, d)][k] = pending[n + 1]
    BY <2>2 DEF RingContents
  <2> QED BY <2>3, <1>5
<1> QED BY <1>5, <1>6, <1>7, <1>8, <1>9, <1>10

\* get_bits that leaves an exhausted byte finds the oldest accepted bit in the
\* first position of the next one, and keeps the invariant.
LEMMA GetNextByteIInv ==
  ASSUME RingInv, GetNextByte
  PROVE  RingInv' /\ pending # <<>> /\ buf[Succ(tail)][0] = Head(pending)
<1> USE DEF RingInv
<1>0. /\ head \in Slot /\ tail \in Slot /\ Succ(tail) \in Slot
      /\ count_put \in 0 .. SIZE_BYTE /\ count_get = SIZE_BYTE
      /\ buf \in [Slot -> Byte] /\ pending \in Seq(Bit)
      /\ 0 \in Pos
  BY SuccInSlot, SizeAssumption DEF RingTypeOK, GetNextByte, Pos
<1>1. head # tail
  <2> SUFFICES ASSUME head = tail PROVE FALSE
    OBVIOUS
  <2>1. count_get <= count_put
    BY DEF RingShape
  <2>2. count_put = SIZE_BYTE
    BY <2>1, <1>0, SizeAssumption
  <2> QED BY <2>2, <1>0 DEF GetNextByte, IsEmpty
<1>2. /\ head' = head /\ tail' = Succ(tail)
      /\ count_put' = count_put /\ count_get' = 1
      /\ buf' = buf /\ pending' = Tail(pending)
      /\ Used' = Used - 1
  BY <1>0, <1>1, UsedTailMoves DEF GetNextByte, Used
<1>3. /\ Used \in 1 .. (BUFFER_SIZE - 1) /\ Used' \in Nat
      /\ Bits(Used') \in Nat /\ Bits(Used) = Bits(Used') + SIZE_BYTE
  <2>1. Used \in 0 .. (BUFFER_SIZE - 1) /\ Used # 0
    BY <1>1, Facts
  <2>2. Used \in 1 .. (BUFFER_SIZE - 1) /\ Used' \in Nat /\ Used = Used' + 1
    BY <2>1, <1>2, SizeAssumption
  <2> QED BY <2>2, BitsFacts
<1>4. Len(pending) = Bits(Used') + count_put
  BY <1>0, <1>3, SizeAssumption DEF RingCounts, Stored
<1>5. count_put >= 1 /\ Len(pending) >= 1
  BY <1>0, <1>1, <1>3, <1>4, SizeAssumption DEF RingShape
<1>6. /\ pending' \in Seq(Bit) /\ Len(pending') = Len(pending) - 1
      /\ \A n \in 1 .. Len(pending') : pending'[n] = pending[n + 1]
      /\ Head(pending) = pending[1] /\ pending # <<>>
  BY <1>0, <1>2, <1>5, TailFacts
<1>7. \A d \in 0 .. Used' : /\ d + 1 \in 0 .. Used /\ d \in 0 .. (BUFFER_SIZE - 2)
                            /\ Bits(d) \in Nat /\ Bits(d + 1) = Bits(d) + SIZE_BYTE
  <2> SUFFICES ASSUME NEW d \in 0 .. Used'
               PROVE  /\ d + 1 \in 0 .. Used /\ d \in 0 .. (BUFFER_SIZE - 2)
                      /\ Bits(d) \in Nat /\ Bits(d + 1) = Bits(d) + SIZE_BYTE
    OBVIOUS
  <2>1. d \in Nat /\ d + 1 \in 0 .. Used /\ d \in 0 .. (BUFFER_SIZE - 2)
    BY <1>2, <1>3, SizeAssumption
  <2> QED BY <2>1, BitsFacts
<1>8. ASSUME NEW d \in 0 .. Used', NEW k \in Pos,
             Bits(d) + k + 1 \in 1 .. Len(pending)
      PROVE  buf[Ahead(Succ(tail), d)][k] = pending[Bits(d) + k + 1]
  <2>1. Bits(d + 1) + k - count_get + 1 = Bits(d) + k + 1
    BY <1>0, <1>7, SizeAssumption DEF Pos
  <2>2. buf[Ahead(tail, d + 1)][k] = pending[Bits(d + 1) + k - count_get + 1]
    BY <2>1, <1>7, <1>8 DEF RingContents
  <2> QED BY <2>1, <2>2, <1>0, <1>7, AheadFacts
<1>9. buf[Succ(tail)][0] = Head(pending)
  <2>1. 0 \in 0 .. Used' /\ Bits(0) + 0 + 1 = 1 /\ 1 \in 1 .. Len(pending)
    BY <1>3, <1>5, BitsFacts, Facts
  <2>2. buf[Ahead(Succ(tail), 0)][0] = pending[Bits(0) + 0 + 1]
    BY <2>1, <1>0, <1>8
  <2> QED BY <2>1, <2>2, <1>0, <1>6, AheadFacts
<1>10. RingTypeOK'
  <2>1. buf[Succ(tail)][0] \in Bit
    BY <1>0 DEF Byte
  <2>2. ret' \in [op : {"init", "put", "get", "reset"}, ok : {0, 1}, bit : Bit]
    BY <2>1 DEF GetNextByte, Result
  <2> QED BY <2>2, <1>0, <1>2, <1>6, SizeAssumption DEF RingTypeOK
<1>11. RingShape'
  <2>1. Used' # BUFFER_SIZE - 1
    BY <1>2, <1>3, SizeAssumption
  <2> QED BY <2>1, <1>2, <1>5 DEF RingShape
<1>12. RingCounts'
  BY <1>0, <1>2, <1>3, <1>4, <1>6 DEF RingCounts, Stored
<1>13. RingContents'
  <2> SUFFICES ASSUME NEW d \in 0 .. Used', NEW k \in Pos,
                      Bits(d) + k - 1 + 1 \in 1 .. Len(pending')
               PROVE  buf[Ahead(Succ(tail), d)][k] = pending'[Bits(d) + k - 1 + 1]
    BY <1>2 DEF RingContents
  <2>1. k \in Nat
    BY SizeAssumption DEF Pos
  <2>2. /\ Bits(d) + k - 1 + 1 = Bits(d) + k
        /\ Bits(d) + k \in 1 .. Len(pending')
        /\ Bits(d) + k + 1 \in 1 .. Len(pending)
    BY <2>1, <1>6, <1>7, Facts
  <2> QED BY <2>2, <1>6, <1>8
<1> QED BY <1>6, <1>9, <1>10, <1>11, <1>12, <1>13

\* rb_reset keeps the invariant: it leaves an empty ring.
LEMMA ResetIInv ==
  ASSUME RingInv, Reset
  PROVE  RingInv'
<1>1. Used' = 0
  BY SizeAssumption DEF Reset, Used
<1>2. RingTypeOK'
  BY SizeAssumption DEF RingInv, RingTypeOK, Reset, Result, Slot, Byte, Zero, Bit
<1>3. RingShape'
  BY <1>1, SizeAssumption DEF Reset, RingShape
<1>4. RingCounts'
  <2>1. buf'[0] = Zero
    BY SizeAssumption DEF RingInv, RingTypeOK, Reset, Slot
  <2>2. Len(pending') = 0 /\ Stored' = 0
    BY <1>1, BitsFacts DEF Reset, Stored
  <2>3. head' = 0
    BY DEF Reset
  <2> QED BY <2>1, <2>2, <2>3 DEF RingCounts, Zero
<1>5. RingContents'
  BY DEF Reset, RingContents
<1> QED BY <1>2, <1>3, <1>4, <1>5 DEF RingInv

\* The calls that change nothing but their result keep the invariant.
LEMMA NoChangeIInv ==
  ASSUME RingInv, UNCHANGED <<head, tail, count_put, count_get, buf, pending>>,
         ret' \in [op : {"init", "put", "get", "reset"}, ok : {0, 1}, bit : Bit]
  PROVE  RingInv'
<1>1. Used' = Used
  BY DEF Used
<1>2. RingTypeOK'
  BY DEF RingInv, RingTypeOK
<1>3. RingShape' /\ RingCounts' /\ RingContents'
  BY <1>1 DEF RingInv, RingShape, RingCounts, RingContents, Stored
<1> QED BY <1>2, <1>3 DEF RingInv

LEMMA NextIInv ==
  ASSUME RingInv, [RingNext]_ringVars
  PROVE  RingInv'
<1>1. ASSUME NEW b \in Bit, PutFull(b) PROVE RingInv'
  BY <1>1, NoChangeIInv DEF PutFull, Result
<1>2. ASSUME NEW b \in Bit, PutSameByte(b) PROVE RingInv'
  BY <1>2, PutSameByteIInv
<1>3. ASSUME NEW b \in Bit, PutNextByte(b) PROVE RingInv'
  BY <1>3, PutNextByteIInv
<1>4. CASE GetEmpty
  BY <1>4, NoChangeIInv DEF GetEmpty, Result, Bit
<1>5. CASE GetSameByte
  BY <1>5, GetSameByteIInv
<1>6. CASE GetNextByte
  BY <1>6, GetNextByteIInv
<1>7. CASE Reset
  BY <1>7, ResetIInv
<1>8. CASE UNCHANGED ringVars
  BY <1>8, NoChangeIInv DEF ringVars, RingInv, RingTypeOK
<1> QED BY <1>1, <1>2, <1>3, <1>4, <1>5, <1>6, <1>7, <1>8 DEF RingNext, Put, Get

\* The ring's fields, its counts and its contents are right after every call,
\* for every size of the ring.
THEOREM RingCorrect == RingSpec => []RingInv
BY InitIInv, NextIInv, PTL DEF RingSpec

\* The control fields stay in range (rb_bits.c indexes buf with them).
THEOREM TypeCorrect == RingSpec => []RingTypeOK
<1>1. RingInv => RingTypeOK
  BY DEF RingInv
<1> QED BY <1>1, RingCorrect, PTL

\* put_bits and get_bits agree about where the data ends, and what is between
\* the reader and the writer is what was accepted, in order.
THEOREM ContentsCorrect == RingSpec => [](RingShape /\ RingCounts /\ RingContents)
<1>1. RingInv => RingShape /\ RingCounts /\ RingContents
  BY DEF RingInv
<1> QED BY <1>1, RingCorrect, PTL

\* The fields of the two ends agree with each other and with the number of bits
\* accepted and not yet returned, for every size of the ring.
THEOREM EndsAgree == RingSpec => []RingAgrees
<1>1. RingInv => RingAgrees
  BY DEF RingInv, RingAgrees
<1> QED BY <1>1, RingCorrect, PTL

-----------------------------------------------------------------------------
(* The ring implements the bounded queue of BitFifo.                       *)

\* A put is refused only when more than BUFFER_SIZE-2 bytes' worth of bits
\* wait, and accepted only when fewer than Capacity wait.
LEMMA Admission ==
  ASSUME RingInv
  PROVE  /\ Succ(head) = tail => Len(pending) > Guaranteed
         /\ Succ(head) # tail => Len(pending) < Capacity
<1> USE DEF RingInv
<1>0. /\ count_put \in 0 .. SIZE_BYTE /\ count_get \in 0 .. SIZE_BYTE
      /\ SIZE_BYTE \in Nat /\ Used \in 0 .. (BUFFER_SIZE - 1)
      /\ Bits(Used) \in Nat
      /\ Len(pending) = Bits(Used) + count_put - count_get
  BY Facts, SizeAssumption DEF RingTypeOK, RingCounts, Stored
<1>1. /\ BUFFER_SIZE - 2 \in Nat /\ BUFFER_SIZE - 1 = (BUFFER_SIZE - 2) + 1
      /\ Bits(BUFFER_SIZE - 2) \in Nat
      /\ Bits(BUFFER_SIZE - 1) = Bits(BUFFER_SIZE - 2) + SIZE_BYTE
  <2>1. BUFFER_SIZE - 2 \in Nat /\ BUFFER_SIZE - 1 = (BUFFER_SIZE - 2) + 1
    BY SizeAssumption
  <2> QED BY <2>1, BitsFacts
<1>2. CASE Succ(head) = tail
  <2>1. Used = BUFFER_SIZE - 1 /\ count_put = 1
    BY <1>2, Facts DEF RingShape
  <2> QED BY <2>1, <1>0, <1>1, <1>2 DEF Guaranteed
<1>3. CASE Succ(head) # tail
  <2>1. Used # BUFFER_SIZE - 1 /\ Used \in Nat
    BY <1>3, <1>0, Facts
  <2>2. Used < BUFFER_SIZE - 1
    BY <2>1, <1>0, SizeAssumption
  <2>3. Bits(Used) + SIZE_BYTE <= Bits(BUFFER_SIZE - 1)
    BY <2>1, <2>2, <1>1, BitsFacts
  <2> QED BY <2>3, <1>0, <1>1, <1>3 DEF Capacity
<1> QED BY <1>2, <1>3

\* Every call of the ring is a call of the queue, or changes nothing.
LEMMA StepImplements ==
  ASSUME RingInv, [RingNext]_ringVars
  PROVE  [Fifo!Next]_<<pending, ret>>
<1> USE DEF Fifo!Next, Fifo!Result, Result
<1>1. ASSUME NEW b \in Bit, PutFull(b)
      PROVE  Fifo!Refuse(b)
  BY <1>1, Admission DEF PutFull, Fifo!Refuse
<1>2. ASSUME NEW b \in Bit, PutSameByte(b) \/ PutNextByte(b)
      PROVE  Fifo!Accept(b)
  BY <1>2, Admission DEF PutSameByte, PutNextByte, Fifo!Accept
<1>3. CASE GetEmpty
  <2>1. head = tail /\ count_get = count_put
    BY <1>3 DEF GetEmpty, IsEmpty
  <2>2. Len(pending) = 0
    <3>1. Used = 0 /\ Bits(Used) = 0
      BY <2>1, Facts, BitsFacts DEF RingInv
    <3>2. count_put \in Nat /\ Len(pending) = Bits(Used) + count_put - count_get
      BY SizeAssumption DEF RingInv, RingTypeOK, RingCounts, Stored
    <3> QED BY <2>1, <3>1, <3>2
  <2>3. pending = <<>>
    BY <2>2, EmptySeq DEF RingInv, RingTypeOK
  <2> QED BY <1>3, <2>3 DEF GetEmpty, Fifo!Nothing
<1>4. CASE GetSameByte
  BY <1>4, GetSameByteIInv DEF GetSameByte, Fifo!Take
<1>5. CASE GetNextByte
  BY <1>5, GetNextByteIInv DEF GetNextByte, Fifo!Take
<1>6. CASE Reset
  BY <1>6 DEF Reset, Fifo!Clear
<1>7. CASE UNCHANGED ringVars
  BY <1>7 DEF ringVars
<1> QED BY <1>1, <1>2, <1>3, <1>4, <1>5, <1>6, <1>7
        DEF RingNext, Put, Get, Bit, Fifo!Bit

\* rb_bits.c is a bounded FIFO of bits, for every size of the ring.
THEOREM RingImplementsFifo == RingSpec => ImplementsFifo
<1>1. RingInit => Fifo!Init
  BY DEF RingInit, Fifo!Init, Fifo!Result, Result
<1> QED BY <1>1, RingCorrect, StepImplements, PTL DEF ImplementsFifo, Fifo!Spec, RingSpec
=============================================================================
