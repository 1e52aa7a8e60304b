------------------------- MODULE TransmitterProofs -------------------------
(***************************************************************************)
(* Proofs about the transmit path, for every size of the ring, every set   *)
(* of frame lengths and every interleaving of main and the callback.       *)
(*                                                                         *)
(* OnlyOversizeCut is not inductive: it says nothing of how much of the    *)
(* room main.c asked for is left.  TxRoom does: what is still to push of   *)
(* a frame that fits is never more than Room, the number of puts the ring  *)
(* is sure to take even if the callback takes nothing out meanwhile.       *)
(***************************************************************************)
EXTENDS Transmitter, BitRingProofs

Room == Bits(BUFFER_SIZE - 1 - Used) - count_put + 1

TxRoom ==
  /\ pc = "overhead" => \A L \in Lens : Fits(L) => left + FrameBits(L) <= Room
  /\ pc = "read" => \A L \in Lens : Fits(L) => FrameBits(L) <= Room
  /\ pc = "frame" => frame \in Lens /\ (Fits(frame) => left <= Room)

TxInv == RingInv /\ TypeOK /\ TxRoom /\ OnlyOversizeCut

-----------------------------------------------------------------------------
(* What a call does to the room.                                           *)

\* The room is a number, and it is gone exactly when put_bits refuses.
LEMMA RoomFacts ==
  ASSUME RingInv
  PROVE  /\ Room \in Nat
         /\ Refused <=> Room = 0
         /\ Used \in 0 .. (BUFFER_SIZE - 1)
         /\ BUFFER_SIZE - 1 - Used \in Nat
         /\ Bits(BUFFER_SIZE - 1 - Used) \in Nat
         /\ count_put \in 0 .. SIZE_BYTE
<1>1. /\ Used \in 0 .. (BUFFER_SIZE - 1)
      /\ Refused <=> Used = BUFFER_SIZE - 1
      /\ count_put \in 0 .. SIZE_BYTE
      /\ Used = BUFFER_SIZE - 1 => count_put = 1
  BY Facts DEF RingInv, RingTypeOK, RingShape, Refused
<1>2. BUFFER_SIZE - 1 - Used \in Nat
  BY <1>1, SizeAssumption
<1>3. Bits(BUFFER_SIZE - 1 - Used) \in Nat
  BY <1>2, BitsFacts
<1>4. CASE Used = BUFFER_SIZE - 1
  <2>1. Bits(BUFFER_SIZE - 1 - Used) = 0
    <3>1. BUFFER_SIZE - 1 - Used = 0
      BY <1>4, SizeAssumption
    <3> QED BY <3>1, BitsFacts
  <2>2. Room = 0
    BY <1>1, <1>4, <2>1 DEF Room
  <2> QED BY <1>1, <1>2, <1>3, <1>4, <2>2
<1>5. CASE Used # BUFFER_SIZE - 1
  <2>1. 0 < BUFFER_SIZE - 1 - Used
    BY <1>1, <1>5, SizeAssumption
  <2>2. SIZE_BYTE <= Bits(BUFFER_SIZE - 1 - Used)
    <3>1. 0 \in Nat /\ Bits(0) + SIZE_BYTE <= Bits(BUFFER_SIZE - 1 - Used)
      BY <1>2, <2>1, BitsFacts
    <3> QED BY <3>1, BitsFacts, SizeAssumption
  <2>3. Room \in Nat /\ Room # 0
    BY <1>1, <1>3, <2>2, SizeAssumption DEF Room
  <2> QED BY <1>1, <1>2, <1>3, <1>5, <2>3
<1> QED BY <1>4, <1>5

\* A put keeps the ring's invariant and, while there is room, uses one bit of it.
LEMMA PutRoom ==
  ASSUME RingInv, NEW b \in Bit, Put(b)
  PROVE  RingInv' /\ (Room > 0 => Room' = Room - 1)
<1>1. CASE PutFull(b)
  <2>1. RingInv'
    BY <1>1, NoChangeIInv DEF PutFull, Result
  <2>2. Room = 0
    BY <1>1, RoomFacts DEF PutFull, Refused
  <2> QED BY <2>1, <2>2
<1>2. CASE PutSameByte(b)
  <2>1. RingInv'
    BY <1>2, PutSameByteIInv
  <2>2. Used' = Used /\ count_put' = count_put + 1
    BY <1>2 DEF PutSameByte, Used
  <2>3. Room' = Bits(BUFFER_SIZE - 1 - Used) - (count_put + 1) + 1
    BY <2>2 DEF Room, Bits
  <2>4. Room' = Room - 1
    BY <2>3, RoomFacts, SizeAssumption DEF Room
  <2> QED BY <2>1, <2>4
<1>3. CASE PutNextByte(b)
  <2>1. RingInv'
    BY <1>3, PutNextByteIInv
  <2>2. count_put = SIZE_BYTE /\ count_put' = 1 /\ Used' = Used + 1
    <3>1. head \in Slot /\ tail \in Slot
      BY DEF RingInv, RingTypeOK
    <3> QED BY <1>3, <3>1, UsedHeadMoves DEF PutNextByte, Used
  <2>3. Room' = Bits(BUFFER_SIZE - 1 - (Used + 1)) - 1 + 1
    BY <2>2 DEF Room, Bits
  <2>4. Used + 1 \in 0 .. (BUFFER_SIZE - 1)
    <3>1. Used # BUFFER_SIZE - 1
      BY <1>3, Facts DEF PutNextByte, RingInv
    <3> QED BY <3>1, RoomFacts, SizeAssumption
  <2>5. /\ BUFFER_SIZE - 1 - (Used + 1) \in Nat
        /\ BUFFER_SIZE - 1 - Used = (BUFFER_SIZE - 1 - (Used + 1)) + 1
    BY <2>4, RoomFacts, SizeAssumption
  <2>6. /\ Bits(BUFFER_SIZE - 1 - (Used + 1)) \in Nat
        /\ Bits(BUFFER_SIZE - 1 - Used) = Bits(BUFFER_SIZE - 1 - (Used + 1)) + SIZE_BYTE
    BY <2>5, BitsFacts
  <2>7. Room' = Room - 1
    BY <2>2, <2>3, <2>6, SizeAssumption DEF Room
  <2> QED BY <2>1, <2>7
<1> QED BY <1>1, <1>2, <1>3 DEF Put

\* A get keeps the ring's invariant and never takes room away.
LEMMA GetRoom ==
  ASSUME RingInv, Get
  PROVE  RingInv' /\ Room' \in Nat /\ Room' >= Room
<1>1. CASE GetEmpty
  <2>1. RingInv'
    BY <1>1, NoChangeIInv DEF GetEmpty, Result, Bit
  <2>2. Room' = Room
    BY <1>1 DEF GetEmpty, Room, Used, Bits
  <2> QED BY <2>1, <2>2, RoomFacts
<1>2. CASE GetSameByte
  <2>1. RingInv'
    BY <1>2, GetSameByteIInv
  <2>2. Room' = Room
    BY <1>2 DEF GetSameByte, Room, Used, Bits
  <2> QED BY <2>1, <2>2, RoomFacts
<1>3. CASE GetNextByte
  <2>1. RingInv'
    BY <1>3, GetNextByteIInv
  <2>2. head \in Slot /\ tail \in Slot /\ head # tail
    <3>1. head = tail => count_get = count_put
      BY <1>3, SizeAssumption DEF GetNextByte, RingInv, RingTypeOK, RingShape
    <3> QED BY <1>3, <3>1 DEF GetNextByte, IsEmpty, RingInv, RingTypeOK
  <2>3. count_put' = count_put /\ Used' = Used - 1
    BY <1>3, <2>2, UsedTailMoves DEF GetNextByte, Used
  <2>4. Room' = Bits(BUFFER_SIZE - 1 - (Used - 1)) - count_put + 1
    BY <2>3 DEF Room, Bits
  <2>5. BUFFER_SIZE - 1 - (Used - 1) = (BUFFER_SIZE - 1 - Used) + 1
    BY RoomFacts, SizeAssumption
  <2>6. Bits(BUFFER_SIZE - 1 - (Used - 1)) = Bits(BUFFER_SIZE - 1 - Used) + SIZE_BYTE
    BY <2>5, RoomFacts, BitsFacts
  <2>7. Room' = Room + SIZE_BYTE
    BY <2>4, <2>6, RoomFacts, SizeAssumption DEF Room
  <2> QED BY <2>1, <2>7, RoomFacts, SizeAssumption
<1> QED BY <1>1, <1>2, <1>3 DEF Get

\* The free space main.c computes stands for this much room at least.
LEMMA AdmitRoom ==
  ASSUME RingInv, Free >= MAX_TX_FRAME_BYTES
  PROVE  /\ Bits(MAX_TX_FRAME_BYTES - 2) \in Nat
         /\ Bits(MAX_TX_FRAME_BYTES - 2) + 1 <= Room
<1> DEFINE n == BUFFER_SIZE - 1 - Used
           m == MAX_TX_FRAME_BYTES - 2
<1>1. m \in Nat /\ n \in Nat /\ m < n
  BY RoomFacts, SizeAssumption, TransmitterAssumption DEF Free
<1>2. Bits(m) \in Nat /\ Bits(m) + SIZE_BYTE <= Bits(n)
  BY <1>1, BitsFacts
<1> QED BY <1>2, RoomFacts, SizeAssumption DEF Room

LEMMA FrameBitsNat == \A L \in Lens : L \in Nat /\ FrameBits(L) \in Nat
BY BitsFacts, TransmitterAssumption DEF FrameBits

-----------------------------------------------------------------------------
(* The invariant.                                                          *)

LEMMA InitTx == Init => TxInv
<1> SUFFICES ASSUME Init PROVE TxInv
  OBVIOUS
<1>1. RingInv
  BY InitIInv DEF Init
<1>2. TypeOK
  <2>1. raced \in BOOLEAN /\ cut \in SUBSET Lens
    BY Zenon DEF Init
  <2>2. /\ irs \in 0 .. IR_COUNT
        /\ arrived \in 0 .. MaxPackets /\ taken \in 0 .. MaxPackets
        /\ errors \in 0 .. MaxReadErrors
        /\ taken <= arrived /\ left \in Nat
    BY TransmitterAssumption DEF Init
  <2> QED BY <2>1, <2>2 DEF Init, TypeOK
<1>3. TxRoom /\ OnlyOversizeCut
  BY DEF Init, TxRoom, OnlyOversizeCut
<1> QED BY <1>1, <1>2, <1>3 DEF TxInv

\* The steps of main that leave the ring alone.
LEMMA RestTx ==
  ASSUME TxInv, UNCHANGED ringVars,
         IrBegin \/ WarmUpDone \/ Arrive \/ Admit \/ OverheadDone
           \/ ReadFails \/ Read \/ FrameDone \/ UNCHANGED txVars
  PROVE  TxInv'
<1>1. RingInv' /\ Room' = Room /\ Room \in Nat
  <2>1. RingInv' <=> RingInv
    BY DEF ringVars, RingInv, RingTypeOK, RingShape, RingCounts, RingContents,
           Stored, Used, Bits
  <2> QED BY <2>1, RoomFacts DEF TxInv, ringVars, Room, Used, Bits
<1> USE DEF TxInv
<1>2. CASE IrBegin
  <2>1. Bits(IR_LEN) \in Nat
    BY BitsFacts, TransmitterAssumption
  <2>2. left' \in Nat
    BY <1>2, <2>1, TransmitterAssumption DEF IrBegin, FrameBits
  <2>3. irs' \in 0 .. IR_COUNT
    BY <1>2, TransmitterAssumption DEF IrBegin, TypeOK
  <2>4. TypeOK'
    BY <1>2, <2>2, <2>3 DEF IrBegin, TypeOK
  <2>5. TxRoom' /\ OnlyOversizeCut'
    BY <1>2 DEF IrBegin, TxRoom, OnlyOversizeCut
  <2> QED BY <1>1, <2>4, <2>5
<1>3. CASE WarmUpDone
  BY <1>1, <1>3 DEF WarmUpDone, TypeOK, TxRoom, OnlyOversizeCut
<1>4. CASE Arrive
  BY <1>1, <1>4, TransmitterAssumption DEF Arrive, TypeOK, TxRoom, OnlyOversizeCut
<1>5. CASE Admit
  <2>1. TypeOK'
    BY <1>5, TransmitterAssumption DEF Admit, TypeOK
  <2>2. ASSUME NEW L \in Lens, Fits(L)
        PROVE  OVERHEAD + FrameBits(L) <= Room
    BY <1>1, <1>5, <2>2, AdmitRoom, FrameBitsNat, TransmitterAssumption DEF Admit, Fits
  <2>3. TxRoom' /\ OnlyOversizeCut'
    BY <1>1, <1>5, <2>2 DEF Admit, TxRoom, OnlyOversizeCut
  <2> QED BY <1>1, <2>1, <2>3
<1>6. CASE OverheadDone
  <2>1. TypeOK' /\ OnlyOversizeCut'
    BY <1>6 DEF OverheadDone, TypeOK, OnlyOversizeCut
  <2>2. TxRoom'
    BY <1>1, <1>6, FrameBitsNat DEF OverheadDone, TxRoom
  <2> QED BY <1>1, <2>1, <2>2
<1>7. CASE ReadFails
  BY <1>1, <1>7, TransmitterAssumption DEF ReadFails, TypeOK, TxRoom, OnlyOversizeCut
<1>8. CASE Read
  <2>1. PICK L \in Lens : frame' = L /\ left' = FrameBits(L)
    BY <1>8 DEF Read
  <2>2. TypeOK' /\ OnlyOversizeCut'
    BY <1>8, <2>1, FrameBitsNat, TransmitterAssumption
       DEF Read, TypeOK, OnlyOversizeCut
  <2>3. TxRoom'
    BY <1>1, <1>8, <2>1 DEF Read, TxRoom
  <2> QED BY <1>1, <2>2, <2>3
<1>9. CASE FrameDone
  BY <1>1, <1>9 DEF FrameDone, TypeOK, TxRoom, OnlyOversizeCut
<1>10. CASE UNCHANGED txVars
  BY <1>1, <1>10 DEF txVars, TypeOK, TxRoom, OnlyOversizeCut
<1> QED BY <1>2, <1>3, <1>4, <1>5, <1>6, <1>7, <1>8, <1>9, <1>10

\* The steps of main that push a bit.
LEMMA PushTx ==
  ASSUME TxInv, IrBit \/ OverheadBit \/ FrameBit \/ FrameCut
  PROVE  TxInv'
<1> USE DEF TxInv
<1>1. /\ RingInv' /\ Room \in Nat /\ (Room > 0 => Room' = Room - 1)
      /\ Refused <=> Room = 0
  <2>1. Put(1) /\ 1 \in Bit
    BY DEF IrBit, OverheadBit, FrameBit, FrameCut, Bit
  <2> QED BY <2>1, PutRoom, RoomFacts
<1>2. left \in Nat /\ left > 0 /\ left - 1 \in Nat
  BY DEF IrBit, OverheadBit, FrameBit, FrameCut, TypeOK
<1>3. CASE IrBit
  BY <1>1, <1>2, <1>3 DEF IrBit, TypeOK, TxRoom, OnlyOversizeCut
<1>4. CASE OverheadBit
  <2>1. TypeOK' /\ OnlyOversizeCut'
    BY <1>2, <1>4 DEF OverheadBit, TypeOK, OnlyOversizeCut
  <2>2. ASSUME NEW L \in Lens, Fits(L)
        PROVE  left' + FrameBits(L) <= Room'
    <3>1. left + FrameBits(L) <= Room /\ FrameBits(L) \in Nat
      BY <1>4, <2>2, FrameBitsNat DEF OverheadBit, TxRoom
    <3>2. left' = left - 1
      BY <1>4 DEF OverheadBit
    <3> QED BY <1>1, <1>2, <3>1, <3>2
  <2>3. pc' = "overhead"
    BY <1>4 DEF OverheadBit
  <2>4. TxRoom'
    BY <2>2, <2>3 DEF TxRoom
  <2> QED BY <1>1, <2>1, <2>4
<1>5. CASE FrameBit
  <2>1. TypeOK' /\ OnlyOversizeCut'
    BY <1>2, <1>5 DEF FrameBit, TypeOK, OnlyOversizeCut
  <2>2. TxRoom'
    BY <1>1, <1>2, <1>5 DEF FrameBit, TxRoom
  <2> QED BY <1>1, <2>1, <2>2
<1>6. CASE FrameCut
  <2>1. frame \in Lens /\ ~Fits(frame)
    BY <1>1, <1>2, <1>6 DEF FrameCut, TxRoom
  <2>2. TypeOK' /\ OnlyOversizeCut'
    BY <1>6, <2>1 DEF FrameCut, TypeOK, OnlyOversizeCut
  <2>3. TxRoom'
    BY <1>6 DEF FrameCut, TxRoom
  <2> QED BY <1>1, <2>2, <2>3
<1> QED BY <1>3, <1>4, <1>5, <1>6

\* The steps of the callback.
LEMMA CallbackTx ==
  ASSUME TxInv, Callback
  PROVE  TxInv'
<1> USE DEF TxInv
<1>1. Get /\ UNCHANGED <<pc, left, irs, arrived, taken, errors, frame, cut>>
      /\ cb' \in {"first", "second"} /\ raced' \in BOOLEAN
  BY DEF Callback, SymbolFirst, SymbolSecond, SymbolHalf, SymbolIdle, TypeOK
<1>2. RingInv' /\ Room' >= Room /\ Room \in Nat /\ Room' \in Nat
  BY <1>1, GetRoom, RoomFacts
<1>3. TypeOK' /\ OnlyOversizeCut'
  BY <1>1 DEF TypeOK, OnlyOversizeCut
<1>4. TxRoom'
  <2>1. \A L \in Lens : FrameBits(L) \in Nat
    BY FrameBitsNat
  <2>2. left \in Nat
    BY DEF TypeOK
  <2>3. pc' = "overhead" => \A L \in Lens : Fits(L) => left' + FrameBits(L) <= Room'
    BY <1>1, <1>2, <2>1, <2>2 DEF TxRoom
  <2>4. pc' = "read" => \A L \in Lens : Fits(L) => FrameBits(L) <= Room'
    BY <1>1, <1>2, <2>1 DEF TxRoom
  <2>5. pc' = "frame" => frame' \in Lens /\ (Fits(frame') => left' <= Room')
    BY <1>1, <1>2, <2>2 DEF TxRoom, Fits
  <2> QED BY <2>3, <2>4, <2>5 DEF TxRoom
<1> QED BY <1>2, <1>3, <1>4

LEMMA NextTx ==
  ASSUME TxInv, [Next]_vars
  PROVE  TxInv'
<1>1. CASE IrBegin \/ WarmUpDone \/ Arrive \/ Admit \/ OverheadDone
             \/ ReadFails \/ Read \/ FrameDone
  <2>1. UNCHANGED ringVars
    BY <1>1 DEF IrBegin, WarmUpDone, Arrive, Admit, OverheadDone, ReadFails,
                Read, FrameDone
  <2> QED BY <1>1, <2>1, RestTx
<1>2. CASE IrBit \/ OverheadBit \/ FrameBit \/ FrameCut
  BY <1>2, PushTx
<1>3. CASE Callback
  BY <1>3, CallbackTx
<1>4. CASE UNCHANGED vars
  BY <1>4, RestTx DEF vars
<1> QED BY <1>1, <1>2, <1>3, <1>4 DEF Next, Main

\* The states of main and of the callback are those of their code.
THEOREM TxTypeCorrect == Spec => []TypeOK
<1>1. TxInv => TypeOK
  BY DEF TxInv
<1> QED BY <1>1, InitTx, NextTx, PTL DEF Spec

\* The ring main and the callback share stays right under their interleaving:
\* what the callback takes is what main put, in order.
THEOREM TxRingCorrect == Spec => []RingInv
<1>1. TxInv => RingInv
  BY DEF TxInv
<1> QED BY <1>1, InitTx, NextTx, PTL DEF Spec

\* Every step of main is a call of put_bits with a bit, or leaves the ring alone;
\* every step of the callback is a call of get_bits.
LEMMA TxStepsTheRing == ASSUME [Next]_vars PROVE [RingNext]_ringVars
<1>1. CASE IrBit \/ OverheadBit \/ FrameBit \/ FrameCut
  <2>1. Put(1) /\ 1 \in Bit
    BY <1>1 DEF IrBit, OverheadBit, FrameBit, FrameCut, Bit
  <2> QED BY <2>1 DEF RingNext
<1>2. CASE Callback
  <2>1. Get
    BY <1>2 DEF Callback, SymbolFirst, SymbolSecond, SymbolHalf, SymbolIdle
  <2> QED BY <2>1 DEF RingNext
<1>3. CASE IrBegin \/ WarmUpDone \/ Arrive \/ Admit \/ OverheadDone
             \/ ReadFails \/ Read \/ FrameDone
  BY <1>3 DEF IrBegin, WarmUpDone, Arrive, Admit, OverheadDone, ReadFails, Read, FrameDone
<1>4. CASE UNCHANGED vars
  BY <1>4 DEF vars
<1> QED BY <1>1, <1>2, <1>3, <1>4 DEF Next, Main

\* What the callback takes out of the ring is what main put in, bit for bit and
\* in order, and a bit is refused only when the ring is nearly full: the transmit
\* path, whatever main and the callback do, implements the bounded queue.
THEOREM TxImplementsFifo == Spec => ImplementsFifo
<1>1. Init => Fifo!Init
  BY DEF Init, RingInit, Fifo!Init, Fifo!Result, Result
<1>2. RingInv /\ [Next]_vars => [Fifo!Next]_<<pending, ret>>
  BY TxStepsTheRing, StepImplements
<1> QED BY <1>1, <1>2, TxRingCorrect, PTL DEF ImplementsFifo, Fifo!Spec, Spec

\* For every size of the ring, room asked for and set of lengths, no bit of an
\* admitted frame that fits is refused.
THEOREM AdmittedFrameFits == Spec => []OnlyOversizeCut
<1>1. TxInv => OnlyOversizeCut
  BY DEF TxInv
<1> QED BY <1>1, InitTx, NextTx, PTL DEF Spec

\* What the documents promise of the backpressure is true where every frame fits:
\* the run that violates it needs a frame longer than the room asked for.
THEOREM NoCutWhenAllFit == (\A L \in Lens : Fits(L)) => (Spec => []NoFrameCut)
<1> SUFFICES ASSUME \A L \in Lens : Fits(L) PROVE Spec => []NoFrameCut
  OBVIOUS
<1>1. TxInv => NoFrameCut
  BY DEF TxInv, TypeOK, OnlyOversizeCut, NoFrameCut
<1> QED BY <1>1, InitTx, NextTx, PTL DEF Spec

-----------------------------------------------------------------------------
(* Frames start on a symbol.                                               *)

IrBits == OVERHEAD + FrameBits(IR_LEN)

\* What the code's sizes have in common (16 + 32, 16 and 8 bits; 8 warm-up
\* packets of 288 bits in a ring of 16384 bytes; 1024 bytes asked for): every
\* part of a frame is a whole number of symbols, the empty ring takes all the
\* warm-up packets, and the room asked for takes at least the overhead.
CodeSizes ==
  /\ OVERHEAD % 2 = 0 /\ HEADER % 2 = 0 /\ SIZE_BYTE % 2 = 0
  /\ IR_COUNT * IrBits <= Bits(BUFFER_SIZE - 1) + 1
  /\ OVERHEAD <= Bits(MAX_TX_FRAME_BYTES - 2) + 1

\* 1 when the callback holds the first bit of a symbol.
Half == IF cb = "second" THEN 1 ELSE 0

\* WholeSymbols says nothing during a push, nor that the bits whose refusal
\* nobody looks at are accepted.  Symbols does: what is still to push makes up
\* for the odd bit, and the room for it is there.
Symbols ==
  /\ pc \in {"sleep", "poll", "read"} => left = 0
  /\ pc \in {"sleep", "ir"} => left + irs * IrBits <= Room
  /\ pc = "overhead" => left <= Room
  /\ (~raced /\ cut = {}) => (Len(pending) + left) % 2 = Half

LEMMA EvenBits ==
  ASSUME CodeSizes
  PROVE  /\ \A n \in Nat : Bits(n) \in Nat /\ Bits(n) % 2 = 0
         /\ IrBits \in Nat /\ IrBits % 2 = 0
         /\ \A L \in Lens : FrameBits(L) \in Nat /\ FrameBits(L) % 2 = 0
<1>1. \A n \in Nat : Bits(n) \in Nat /\ Bits(n) % 2 = 0
  <2> SUFFICES ASSUME NEW n \in Nat PROVE Bits(n) \in Nat /\ Bits(n) % 2 = 0
    OBVIOUS
  <2> DEFINE m == SIZE_BYTE \div 2
  <2>1. m \in Nat /\ SIZE_BYTE = 2 * m
    BY SizeAssumption DEF CodeSizes
  <2>2. Bits(n) = 2 * (m * n) /\ m * n \in Nat
    BY <2>1 DEF Bits
  <2> QED BY <2>2
<1>2. \A n \in Nat : FrameBits(n) \in Nat /\ FrameBits(n) % 2 = 0
  BY <1>1, TransmitterAssumption DEF FrameBits, CodeSizes
<1>3. IrBits \in Nat /\ IrBits % 2 = 0
  <2>1. FrameBits(IR_LEN) \in Nat /\ FrameBits(IR_LEN) % 2 = 0
    BY <1>2, TransmitterAssumption
  <2> QED BY <2>1, TransmitterAssumption DEF IrBits, CodeSizes
<1>4. Lens \subseteq Nat
  BY TransmitterAssumption
<1> QED BY <1>1, <1>2, <1>3, <1>4

LEMMA EvenSum ==
  ASSUME NEW a \in Nat, NEW b \in Nat, b % 2 = 0
  PROVE  (a + b) % 2 = a % 2
OBVIOUS

\* A put that finds room adds one bit to those that wait.
LEMMA PutPending ==
  ASSUME RingInv, NEW b \in Bit, Put(b), Room > 0
  PROVE  Len(pending') = Len(pending) + 1 /\ Len(pending) \in Nat
<1>1. pending' = Append(pending, b)
  BY RoomFacts DEF Put, PutFull, PutSameByte, PutNextByte, Refused
<1> QED BY <1>1, AppendProperties DEF RingInv, RingTypeOK

\* A get takes one, and only from a ring that has one.
LEMMA GetPending ==
  ASSUME RingInv, Get
  PROVE  /\ Len(pending) \in Nat
         /\ IsEmpty => pending' = pending /\ Len(pending) = 0
         /\ ~IsEmpty => Len(pending) >= 1 /\ Len(pending') = Len(pending) - 1
<1>1. pending \in Seq(Bit) /\ Len(pending) \in Nat
  BY DEF RingInv, RingTypeOK
<1>2. IsEmpty => Len(pending) = 0
  <2> SUFFICES ASSUME IsEmpty PROVE Len(pending) = 0
    OBVIOUS
  <2>1. Used = 0 /\ Bits(Used) = 0 /\ count_get = count_put
    BY Facts, BitsFacts DEF IsEmpty, RingInv
  <2>2. count_put \in Nat /\ Len(pending) = Bits(Used) + count_put - count_get
    BY SizeAssumption DEF RingInv, RingTypeOK, RingCounts, Stored
  <2> QED BY <2>1, <2>2
<1>3. IsEmpty => pending' = pending
  BY DEF Get, GetEmpty, GetSameByte, GetNextByte
<1>4. ASSUME ~IsEmpty PROVE Len(pending) >= 1 /\ Len(pending') = Len(pending) - 1
  <2>1. pending' = Tail(pending) /\ (GetSameByte \/ GetNextByte)
    BY <1>4 DEF Get, GetEmpty, GetSameByte, GetNextByte
  <2>2. pending # <<>>
    BY <2>1, GetSameByteIInv, GetNextByteIInv
  <2>3. Len(pending) >= 1
    BY <2>2, <1>1, EmptySeq
  <2> QED BY <2>1, <2>3, <1>1, TailFacts
<1> QED BY <1>1, <1>2, <1>3, <1>4

LEMMA InitSymbols ==
  ASSUME CodeSizes, Init
  PROVE  Symbols
<1>1. Used = 0 /\ count_put = 0 /\ Len(pending) = 0 /\ left = 0 /\ irs = IR_COUNT
      /\ pc = "sleep" /\ cb = "first"
  BY DEF Init, RingInit, Used
<1>2. Room = Bits(BUFFER_SIZE - 1) + 1 /\ BUFFER_SIZE - 1 \in Nat
  <2>1. BUFFER_SIZE - 1 - Used = BUFFER_SIZE - 1 /\ BUFFER_SIZE - 1 \in Nat
    BY <1>1, SizeAssumption
  <2>2. Bits(BUFFER_SIZE - 1) \in Nat
    BY <2>1, BitsFacts
  <2> QED BY <1>1, <2>1, <2>2 DEF Room
<1>3. left + irs * IrBits <= Room
  <2>1. IrBits \in Nat /\ IR_COUNT \in Nat
    BY EvenBits, TransmitterAssumption
  <2> QED BY <1>1, <1>2, <2>1 DEF CodeSizes
<1>4. (Len(pending) + left) % 2 = Half
  BY <1>1 DEF Half
<1> QED BY <1>1, <1>3, <1>4 DEF Symbols

\* The steps of main that leave the ring alone.
LEMMA RestSymbols ==
  ASSUME CodeSizes, TxInv, Symbols, UNCHANGED ringVars,
         IrBegin \/ WarmUpDone \/ Arrive \/ Admit \/ OverheadDone
           \/ ReadFails \/ Read \/ FrameDone \/ UNCHANGED txVars
  PROVE  Symbols'
<1>1. Room' = Room /\ Room \in Nat /\ Len(pending') = Len(pending) /\ Len(pending) \in Nat
  <2>1. Room' = Room /\ Len(pending') = Len(pending)
    BY DEF ringVars, Room, Used, Bits
  <2> QED BY <2>1, RoomFacts, Facts DEF TxInv, RingInv
<1>2. left \in Nat /\ irs \in Nat /\ IrBits \in Nat /\ IrBits % 2 = 0
  BY EvenBits, TransmitterAssumption DEF TxInv, TypeOK
<1>3. CASE IrBegin
  <2>1. /\ pc' = "ir" /\ left' = IrBits /\ irs' = irs - 1 /\ irs > 0 /\ left = 0
        /\ UNCHANGED <<cb, cut, raced>>
    BY <1>3 DEF IrBegin, IrBits, Symbols
  <2>2. left' + irs' * IrBits <= Room'
    <3>1. irs * IrBits <= Room
      <4>1. irs * IrBits \in Nat /\ 0 + irs * IrBits <= Room
        BY <1>2, <1>3, <2>1 DEF IrBegin, Symbols
      <4> QED BY <4>1
    <3>2. IrBits + (irs - 1) * IrBits = irs * IrBits
      BY <1>2
    <3> QED BY <3>1, <3>2, <2>1, <1>1
  <2>3. (~raced /\ cut = {}) => (Len(pending) + left') % 2 = Half
    BY <1>1, <1>2, <2>1 DEF Symbols
  <2> QED BY <2>1, <2>2, <2>3, <1>1 DEF Symbols, Half
<1>4. CASE WarmUpDone
  BY <1>1, <1>4 DEF WarmUpDone, Symbols, Half
<1>5. CASE Arrive
  BY <1>1, <1>5 DEF Arrive, Symbols, Half, IrBits, FrameBits, Bits
<1>6. CASE Admit
  <2>1. left' <= Room'
    BY <1>1, <1>6, AdmitRoom, TransmitterAssumption DEF Admit, TxInv, CodeSizes
  <2>2. pc' = "overhead" /\ left = 0 /\ left' = OVERHEAD /\ UNCHANGED <<cb, cut, raced>>
    BY <1>6 DEF Admit, Symbols
  <2>3. (~raced /\ cut = {}) => (Len(pending) + left') % 2 = Half
    BY <1>1, <2>2, TransmitterAssumption DEF Symbols, CodeSizes
  <2> QED BY <2>1, <2>2, <2>3, <1>1 DEF Symbols, Half
<1>7. CASE OverheadDone
  BY <1>1, <1>7 DEF OverheadDone, Symbols, Half
<1>8. CASE ReadFails
  BY <1>1, <1>8 DEF ReadFails, Symbols, Half
<1>9. CASE Read
  <2>1. PICK L \in Lens : left' = FrameBits(L)
    BY <1>9 DEF Read
  <2>2. pc' = "frame" /\ left = 0 /\ UNCHANGED <<cb, cut, raced>>
    BY <1>9 DEF Read, Symbols
  <2>3. (~raced /\ cut = {}) => (Len(pending) + left') % 2 = Half
    <3>1. FrameBits(L) \in Nat /\ FrameBits(L) % 2 = 0
      BY EvenBits
    <3>2. (~raced /\ cut = {}) => Len(pending) % 2 = Half
      BY <1>1, <2>2 DEF Symbols
    <3> QED BY <3>1, <3>2, <1>1, <2>1, EvenSum
  <2> QED BY <2>2, <2>3, <1>1 DEF Symbols, Half
<1>10. CASE FrameDone
  BY <1>1, <1>10 DEF FrameDone, Symbols, Half
<1>11. CASE UNCHANGED txVars
  BY <1>1, <1>11 DEF txVars, Symbols, Half, IrBits, FrameBits, Bits
<1> QED BY <1>3, <1>4, <1>5, <1>6, <1>7, <1>8, <1>9, <1>10, <1>11

\* The steps of main that push a bit.
LEMMA PushSymbols ==
  ASSUME CodeSizes, TxInv, Symbols, IrBit \/ OverheadBit \/ FrameBit \/ FrameCut
  PROVE  Symbols'
<1>1. /\ Put(1) /\ 1 \in Bit /\ RingInv
      /\ left \in Nat /\ left > 0 /\ irs \in Nat
      /\ IrBits \in Nat /\ irs * IrBits \in Nat
  BY EvenBits, TransmitterAssumption
     DEF IrBit, OverheadBit, FrameBit, FrameCut, Bit, TxInv, TypeOK
<1>2. Room \in Nat /\ (Refused <=> Room = 0) /\ (Room > 0 => Room' = Room - 1)
  BY <1>1, PutRoom, RoomFacts
<1>3. CASE FrameCut
  <2>1. pc' = "poll" /\ left' = 0 /\ cut' # {}
    BY <1>3 DEF FrameCut
  <2> QED BY <2>1 DEF Symbols
<1>4. CASE IrBit \/ OverheadBit \/ FrameBit
  <2>1. Room > 0
    BY <1>1, <1>2, <1>4 DEF IrBit, OverheadBit, FrameBit, Symbols, Accepted
  <2>2. Len(pending') = Len(pending) + 1 /\ Len(pending) \in Nat /\ Room' = Room - 1
    BY <1>1, <1>2, <2>1, PutPending
  <2>3. left' = left - 1 /\ UNCHANGED <<irs, cb, cut, raced>>
    BY <1>4 DEF IrBit, OverheadBit, FrameBit
  <2>4. Len(pending') + left' = Len(pending) + left
    BY <2>2, <2>3, <1>1
  <2>5. (~raced' /\ cut' = {}) => (Len(pending') + left') % 2 = Half'
    BY <2>3, <2>4 DEF Symbols, Half
  <2>6. CASE IrBit
    <3>1. pc = "ir" /\ pc' = IF left = 1 THEN "sleep" ELSE "ir"
      BY <2>6 DEF IrBit
    <3>2. left' + irs' * IrBits <= Room'
      <4>1. left + irs * IrBits <= Room
        BY <3>1 DEF Symbols
      <4> QED BY <4>1, <2>2, <2>3, <1>1, <1>2
    <3>3. pc' \in {"sleep", "poll", "read"} => left' = 0
      BY <3>1, <2>3, <1>1
    <3>4. pc' # "overhead"
      BY <3>1
    <3>5. IrBits' = IrBits
      BY DEF IrBits, FrameBits, Bits
    <3> QED BY <3>2, <3>3, <3>4, <3>5, <2>5 DEF Symbols
  <2>7. CASE OverheadBit
    <3>1. pc = "overhead" /\ pc' = "overhead"
      BY <2>7 DEF OverheadBit
    <3>2. left' <= Room'
      BY <3>1, <2>2, <2>3, <1>1, <1>2 DEF Symbols
    <3> QED BY <3>1, <3>2, <2>5 DEF Symbols
  <2>8. CASE FrameBit
    <3>1. pc' = "frame"
      BY <2>8 DEF FrameBit
    <3> QED BY <3>1, <2>5 DEF Symbols
  <2> QED BY <1>4, <2>6, <2>7, <2>8
<1> QED BY <1>3, <1>4

\* The steps of the callback.
LEMMA CallbackSymbols ==
  ASSUME CodeSizes, TxInv, Symbols, Callback
  PROVE  Symbols'
<1>1. Get /\ RingInv /\ UNCHANGED <<pc, left, irs, cut>>
  BY DEF Callback, SymbolFirst, SymbolSecond, SymbolHalf, SymbolIdle, TxInv
<1>2. Room' >= Room /\ Room \in Nat /\ Room' \in Nat
  BY <1>1, GetRoom, RoomFacts
<1>3. left \in Nat /\ irs * IrBits \in Nat /\ IrBits' = IrBits
  <2>1. IrBits' = IrBits
    BY DEF IrBits, FrameBits, Bits
  <2>2. left \in Nat /\ irs \in Nat /\ IrBits \in Nat
    BY EvenBits, TransmitterAssumption DEF TxInv, TypeOK
  <2> QED BY <2>1, <2>2
<1>4. /\ pc' \in {"sleep", "poll", "read"} => left' = 0
      /\ pc' \in {"sleep", "ir"} => left' + irs' * IrBits' <= Room'
      /\ pc' = "overhead" => left' <= Room'
  BY <1>1, <1>2, <1>3 DEF Symbols
<1>5. ASSUME ~raced', cut' = {} PROVE (Len(pending') + left') % 2 = Half'
  <2>1. CASE SymbolFirst
    <3>1. cb = "first" /\ cb' = "second" /\ ~IsEmpty /\ raced' = raced
      BY <2>1 DEF SymbolFirst
    <3>2. (Len(pending) + left) % 2 = 0
      BY <1>1, <1>5, <3>1 DEF Symbols, Half
    <3>3. Len(pending') = Len(pending) - 1 /\ Len(pending) \in Nat
      BY <1>1, <3>1, GetPending
    <3> QED BY <1>1, <1>3, <3>1, <3>2, <3>3 DEF Half
  <2>2. CASE SymbolSecond
    <3>1. cb = "second" /\ cb' = "first" /\ ~IsEmpty /\ raced' = raced
      BY <2>2 DEF SymbolSecond
    <3>2. (Len(pending) + left) % 2 = 1
      BY <1>1, <1>5, <3>1 DEF Symbols, Half
    <3>3. Len(pending') = Len(pending) - 1 /\ Len(pending) \in Nat
      BY <1>1, <3>1, GetPending
    <3> QED BY <1>1, <1>3, <3>1, <3>2, <3>3 DEF Half
  <2>3. CASE SymbolHalf
    <3>1. cb = "second" /\ IsEmpty /\ ~raced /\ ~Pushing
      <4>1. cb = "second" /\ IsEmpty /\ raced' = (raced \/ Pushing)
        BY <2>3 DEF SymbolHalf
      <4> QED BY <4>1, <1>5, Zenon
    <3>2. left = 0
      BY <3>1 DEF Pushing, Symbols, TxInv, TypeOK
    <3>3. Len(pending) = 0
      BY <1>1, <3>1, GetPending
    <3>4. (0 + 0) % 2 = 1
      BY <1>1, <1>5, <3>1, <3>2, <3>3 DEF Symbols, Half
    <3> QED BY <3>4
  <2>4. CASE SymbolIdle
    <3>1. cb = "first" /\ cb' = "first" /\ IsEmpty /\ (raced => ~Pushing)
      <4>1. cb = "first" /\ cb' = cb /\ IsEmpty /\ raced' = (raced /\ Pushing)
        BY <2>4 DEF SymbolIdle
      <4> QED BY <4>1, <1>5, Zenon
    <3>2. pending' = pending /\ Len(pending) = 0
      BY <1>1, <3>1, GetPending
    <3>3. CASE raced
      <4>1. left = 0
        BY <3>1, <3>3 DEF Pushing, Symbols, TxInv, TypeOK
      <4> QED BY <1>1, <3>1, <3>2, <4>1 DEF Half
    <3>4. CASE ~raced
      BY <1>1, <1>5, <3>1, <3>2, <3>4 DEF Symbols, Half
    <3> QED BY <3>3, <3>4
  <2> QED BY <2>1, <2>2, <2>3, <2>4 DEF Callback
<1> QED BY <1>4, <1>5 DEF Symbols

LEMMA NextSymbols ==
  ASSUME CodeSizes, TxInv, Symbols, [Next]_vars
  PROVE  Symbols'
<1>1. CASE IrBegin \/ WarmUpDone \/ Arrive \/ Admit \/ OverheadDone
             \/ ReadFails \/ Read \/ FrameDone
  <2>1. UNCHANGED ringVars
    BY <1>1 DEF IrBegin, WarmUpDone, Arrive, Admit, OverheadDone, ReadFails,
                Read, FrameDone
  <2> QED BY <1>1, <2>1, RestSymbols
<1>2. CASE IrBit \/ OverheadBit \/ FrameBit \/ FrameCut
  BY <1>2, PushSymbols
<1>3. CASE Callback
  BY <1>3, CallbackSymbols
<1>4. CASE UNCHANGED vars
  BY <1>4, RestSymbols DEF vars
<1> QED BY <1>1, <1>2, <1>3, <1>4 DEF Next, Main

\* With sizes related as the code's are, however main and the callback
\* interleave: between pushes the ring holds whole symbols, unless a frame was
\* cut or the callback overtook main in the middle of a push.
THEOREM FramesOnSymbols == CodeSizes => (Spec => []WholeSymbols)
<1> SUFFICES ASSUME CodeSizes PROVE Spec => []WholeSymbols
  OBVIOUS
<1>1. TxInv /\ Symbols => WholeSymbols
  <2> SUFFICES ASSUME TxInv, Symbols, ~Pushing, ~raced, cut = {}
               PROVE  Len(pending) % 2 = Half
    BY DEF WholeSymbols, Half
  <2>1. left = 0
    BY DEF Pushing, Symbols, TxInv, TypeOK
  <2>2. Len(pending) \in Nat
    BY Facts DEF TxInv, RingInv
  <2> QED BY <2>1, <2>2 DEF Symbols
<1>2. Init => TxInv /\ Symbols
  BY InitTx, InitSymbols
<1>3. TxInv /\ Symbols /\ [Next]_vars => TxInv' /\ Symbols'
  BY NextTx, NextSymbols
<1> QED BY <1>1, <1>2, <1>3, PTL DEF Spec
=============================================================================
