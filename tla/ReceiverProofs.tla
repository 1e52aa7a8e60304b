--------------------------- MODULE ReceiverProofs ---------------------------
(***************************************************************************)
(* Proofs about the receive path, the callback and main together, for      *)
(* every frame length, ring size and number of frames.                     *)
(*                                                                         *)
(* The types hold however the two threads meet, and so does OnceInOrder:   *)
(* what waits in rx_rb, is about to be put there or is being read is       *)
(* younger, from its last bit on, than every frame delivered (OrderInv).   *)
(* Everything else is about a main that empties the ring before the next   *)
(* sync word ends (KeepsUp), and follows from one invariant, Joint, of     *)
(* what the two threads and the air know of each other.  None of its parts *)
(* is inductive alone: that the ring holds a whole packet when main is     *)
(* told of it (Counted) needs that the two never work at the same time     *)
(* (Turns), and that main decodes the frame that was sent (Held) needs     *)
(* where the callback is in it (Where, Taken) at every bit, which needs    *)
(* that the ring was empty at its sync word.                               *)
(***************************************************************************)
EXTENDS Receiver, SequenceTheorems, TLAPS

\* A bit on the air or in a buffer; a frame as the peer sends it.
Cell   == Nat \X Nat
Sendable == [len : 1 .. MaxLen, kind : Kinds]

\* What TypeOK leaves out: what the sequences hold, and the variables of the
\* air and of main.
Shapes ==
  /\ frames \in Seq(Sendable) /\ pos \in Nat /\ clean \in BOOLEAN
  /\ faults \in Nat /\ stalls \in 0 .. MaxStalls /\ stalled \in BOOLEAN
  /\ header \in Seq(Cell) /\ rx_rb \in Seq(Cell) /\ read \in Seq(Cell) /\ bit \in Cell
  /\ len \in 0 .. Huge /\ delivered \in Seq(Nat)

TypeInv == TypeOK /\ Shapes

\* The frame now or last on the air.
Current == Len(frames)

\* Main has a packet that it has not decoded yet.
Pending ==
  /\ packet_ready
  /\ mpc \in {"poll", "loadLen", "getHeader", "checkLen", "getPayload", "decode"}

\* The current frame has arrived undamaged so far, or whole.
Sound == IF pos > 0 THEN clean ELSE Current \in intact

Out == {delivered[i] : i \in DOMAIN delivered}

\* The two threads take turns: while main is at a packet, the callback listens.
Turns ==
  /\ ~stalled
  /\ mpc # "poll" => packet_ready
  /\ packet_ready => cpc = "idle" /\ state = "SEARCHING" /\ correlator \in {0, SYNC}
  /\ cpc \in {"put", "count", "resetFields"} => state = "DATA"
  /\ cpc = "resetRing" => state = "SEARCHING"
  /\ state = "DATA" => correlator = SYNC

\* How many bits are in rx_rb and read at every step, sound frame or not.
Counted ==
  /\ state = "DATA" /\ cpc \in {"idle", "put"} => Len(rx_rb) = bits_received
  /\ cpc = "count" => Len(rx_rb) = bits_received + 1
  /\ state = "DATA" /\ cpc # "resetFields" =>
       \/ bits_received < HEADER
       \/ packet_len \in 1 .. MaxLen /\ bits_received < HEADER + packet_len
  /\ EmptyBetweenPackets
  /\ Pending => packet_len \in 1 .. MaxLen /\ Len(read) + Len(rx_rb) = HEADER + packet_len
  /\ mpc \in {"getHeader", "checkLen", "getPayload", "decode"} => len = packet_len
  /\ mpc \notin {"getHeader", "checkLen", "getPayload", "decode"} => read = <<>>
  /\ mpc = "getHeader" => Len(read) < HEADER
  /\ mpc = "checkLen" => Len(read) = HEADER
  /\ mpc = "getPayload" => Len(read) \in HEADER .. HEADER + len - 1
  /\ mpc = "decode" => Len(read) = HEADER + len
  /\ mpc \in {"resetScrambler", "resetCorrelator", "clearReady"} => rx_rb = <<>>

\* The air and the history agree.
AirOK ==
  /\ pos > 0 => frames # <<>> /\ pos < FrameLen(Current) /\ Current \notin intact
  /\ clean => pos > 0
  /\ intact \subseteq 1 .. Current /\ Out \subseteq 1 .. Current
  /\ frames = <<>> => state = "SEARCHING" /\ cpc = "idle" /\ ~packet_ready

\* A bit of the current frame, n its place in it: n is the last one only when all of it passed.
OfCurrent(f, n) == f > 0 => f = Current /\ (n = FrameLen(Current) => pos = 0)

\* The last bit that main has, or will have, of the packet.
LastOf == IF rx_rb = <<>> THEN read[Len(read)] ELSE rx_rb[Len(rx_rb)]

\* The last bit of the current frame is in a buffer only when the frame is over:
\* so a packet that ends with it ends where the frame does.
LastBit ==
  /\ cpc = "put" => OfCurrent(bit[1], bit[2])
  /\ cpc = "count" => OfCurrent(bit[1], SYNC + bit[2]) /\ rx_rb[Len(rx_rb)] = bit
  /\ Pending => OfCurrent(LastOf[1], SYNC + LastOf[2])

\* At bit pos of a sound frame the callback is at bit pos of it too.
Where ==
  /\ Sound /\ pos \in 1 .. SYNC - 1 =>
       state = "SEARCHING" /\ cpc = "idle" /\ ~packet_ready /\ correlator = pos
  /\ Sound /\ pos >= SYNC =>
       /\ state = "DATA" /\ cpc \in {"idle", "put", "count"}
       /\ SYNC + bits_received + (IF cpc = "idle" THEN 0 ELSE 1) = pos
  /\ Sound /\ pos = 0 /\ cpc # "idle" =>
       /\ state = "DATA" /\ cpc \in {"put", "count"}
       /\ bits_received + 1 = HEADER + frames[Current].len
  /\ Sound /\ pos = 0 /\ cpc = "idle" => state = "SEARCHING" /\ (Pending \/ Current \in Out)

\* What the callback has taken in of a sound frame: its bits from the first one on.
Taken ==
  Sound /\ state = "DATA" =>
    /\ scrambler = bits_received + (IF cpc = "count" THEN 1 ELSE 0)
    /\ bits_received < HEADER =>
         Len(header) = bits_received /\ \A i \in 1 .. bits_received : header[i] = <<Current, i>>
    /\ bits_received >= HEADER =>
         packet_len = frames[Current].len /\ flags = frames[Current].kind
    /\ \A i \in 1 .. Len(rx_rb) : rx_rb[i] = <<Current, i>>
    /\ cpc = "put" => bit = <<Current, SYNC + scrambler + 1>>
    /\ cpc = "count" => bit = <<Current, scrambler>>

\* What main has read and what it has yet to read are a sound frame, in order.
Held ==
  Sound /\ Pending =>
    /\ packet_len = frames[Current].len /\ flags = frames[Current].kind
    /\ \A i \in 1 .. Len(read) : read[i] = <<Current, i>>
    /\ \A i \in 1 .. Len(rx_rb) : rx_rb[i] = <<Current, Len(read) + i>>

\* Every intact frame before the current one is out, and the current one is only
\* out when both threads are done with it.
Order ==
  /\ \A g \in intact : g < Current => g \in Out
  /\ Current \in Out => pos = 0 /\ cpc = "idle" /\ state = "SEARCHING" /\ ~Pending

\* With no fault yet every frame is sound and no packet was garbage.
Undamaged ==
  faults = 0 => /\ pos > 0 => clean
                /\ pos = 0 /\ frames # <<>> => Current \in intact
                /\ garbage = 0

-----------------------------------------------------------------------------
LEMMA Sizes ==
  /\ SYNC \in Nat /\ SYNC >= 1 /\ HEADER \in Nat /\ HEADER >= 1
  /\ MaxLen \in Nat /\ MaxLen >= 1 /\ RxCap \in Nat /\ RxCap >= 1
  /\ WRAP \in Nat /\ WRAP > HEADER + MaxLen
  /\ MaxFrames \in Nat /\ MaxFaults \in Nat /\ MaxStalls \in Nat
  /\ Kinds \subseteq Flags /\ Buffer = 2 * MaxLen /\ Huge = 2 * MaxLen + 1
BY ReceiverAssumption DEF Flags, Buffer, Huge

\* A queue of cells: what Append and Tail make of it.
LEMMA Appended ==
  ASSUME NEW s \in Seq(Cell), NEW c \in Cell
  PROVE  /\ Append(s, c) \in Seq(Cell) /\ Append(s, c) # <<>>
         /\ Len(s) \in Nat /\ Len(Append(s, c)) = Len(s) + 1
         /\ \A i \in 1 .. Len(s) : Append(s, c)[i] = s[i]
         /\ Append(s, c)[Len(s) + 1] = c
BY AppendProperties, LenProperties

LEMMA Taken1 ==
  ASSUME NEW s \in Seq(Cell), s # <<>>
  PROVE  /\ Tail(s) \in Seq(Cell) /\ Head(s) \in Cell /\ Head(s) = s[1]
         /\ Len(s) \in Nat /\ Len(s) >= 1 /\ Len(Tail(s)) = Len(s) - 1
         /\ \A i \in 1 .. Len(s) - 1 : Tail(s)[i] = s[i + 1]
BY HeadTailProperties, LenProperties, EmptySeq

LEMMA EmptyCells == <<>> \in Seq(Cell) /\ Len(<<>>) = 0 /\ \A s \in Seq(Cell) : s = <<>> <=> Len(s) = 0
BY EmptySeq

\* The four things the air can bring are cells.
LEMMA AirStep ==
  ASSUME TypeInv, NEW b, Idle(b) \/ Start(b) \/ Continue(b) \/ Damage(b)
  PROVE  /\ b \in Cell /\ Correlate(b) \in 0 .. SYNC
         /\ frames' \in Seq(Sendable) /\ pos' \in Nat /\ clean' \in BOOLEAN /\ faults' \in Nat
<1> USE Sizes
<1>0. Current \in Nat
  BY LenProperties DEF TypeInv, Shapes, Current
<1>1. CASE Idle(b)
  BY <1>1 DEF Idle, Noise, Cell, Correlate, TypeInv, Shapes, TypeOK
<1>2. CASE Start(b)
  <2>1. b \in Cell /\ pos' \in Nat /\ faults' \in Nat
    BY <1>0, <1>2 DEF Start, Cell, TypeInv, Shapes, Current
  <2>2. PICK l \in 1 .. MaxLen, k \in Kinds : frames' = Append(frames, [len |-> l, kind |-> k])
    BY <1>2 DEF Start
  <2>3. frames' \in Seq(Sendable)
    <3>1. [len |-> l, kind |-> k] \in Sendable
      BY DEF Sendable
    <3> QED BY <2>2, <3>1, AppendProperties DEF TypeInv, Shapes
  <2>4. clean' \in BOOLEAN
    BY <1>2 DEF Start
  <2>5. Correlate(b) \in 0 .. SYNC
    BY <2>1 DEF Correlate, Cell
  <2> QED BY <2>1, <2>3, <2>4, <2>5
<1>3. CASE Continue(b)
  <2>1. b \in Cell /\ pos' \in Nat /\ faults' \in Nat /\ frames' \in Seq(Sendable)
    BY <1>0, <1>3 DEF Continue, Cell, TypeInv, Shapes, Current
  <2>2. clean' \in BOOLEAN
    BY <1>3 DEF Continue, TypeInv, Shapes
  <2>3. Correlate(b) \in 0 .. SYNC
    BY <2>1 DEF Correlate, Cell
  <2> QED BY <2>1, <2>2, <2>3
<1>4. CASE Damage(b)
  <2>1. b \in Cell /\ pos' \in Nat /\ faults' \in Nat /\ frames' \in Seq(Sendable)
    BY <1>0, <1>4 DEF Damage, Noise, Cell, TypeInv, Shapes, Current
  <2>2. clean' \in BOOLEAN
    BY <1>4 DEF Damage
  <2>3. Correlate(b) \in 0 .. SYNC
    BY <2>1 DEF Correlate, Cell
  <2> QED BY <2>1, <2>2, <2>3
<1> QED BY <1>1, <1>2, <1>3, <1>4

LEMMA TypeInit == Init => TypeInv
<1> SUFFICES ASSUME Init PROVE TypeInv
  OBVIOUS
<1>1. TypeOK
  <2>1. Len(header) <= HEADER /\ Len(rx_rb) <= RxCap
    <3>1. header = <<>> /\ rx_rb = <<>> /\ Len(<<>>) = 0
      BY EmptyCells DEF Init
    <3> QED BY <3>1, Sizes
  <2>2. bits_received \in 0 .. WRAP - 1 /\ packet_len \in 0 .. Huge
        /\ scrambler \in 0 .. HEADER + MaxLen + 1 /\ correlator \in 0 .. SYNC
    BY Sizes DEF Init
  <2>3. /\ state \in {"SEARCHING", "DATA"} /\ flags \in Flags /\ packet_ready \in BOOLEAN
        /\ cpc = "idle" /\ mpc = "poll" /\ garbage \in {0, 1}
    BY DEF Init, Flags
  <2> QED BY <2>1, <2>2, <2>3 DEF TypeOK
<1>2. Shapes
  <2>1. frames \in Seq(Sendable) /\ delivered \in Seq(Nat)
    BY EmptySeq DEF Init
  <2>2. header \in Seq(Cell) /\ rx_rb \in Seq(Cell) /\ read \in Seq(Cell) /\ bit \in Cell
    BY EmptyCells DEF Init, Noise, Cell
  <2>3. stalls \in 0 .. MaxStalls /\ len \in 0 .. Huge
    BY Sizes DEF Init
  <2> QED BY <2>1, <2>2, <2>3 DEF Init, Shapes
<1> QED BY <1>1, <1>2 DEF TypeInv

LEMMA TypeCbBit ==
  ASSUME TypeInv, CbBit
  PROVE  TypeInv'
<1> USE Sizes
<1>1. PICK b \in {Noise, <<Len(frames), pos + 1>>, <<Len(frames) + 1, 1>>} :
        /\ Idle(b) \/ Start(b) \/ Continue(b) \/ Damage(b)
        /\ Search(b) \/ SyncFound(b) \/ Timeout(b) \/ Data(b)
  BY DEF CbBit
<1>2. /\ b \in Cell /\ Correlate(b) \in 0 .. SYNC
      /\ frames' \in Seq(Sendable) /\ pos' \in Nat /\ clean' \in BOOLEAN /\ faults' \in Nat
  BY <1>1, AirStep
<1>3. UNCHANGED <<stalls, mpc, len, read, delivered, garbage>> /\ stalled' = FALSE
  BY DEF CbBit, main
<1>4. CASE Search(b)
  <2>1. TypeOK'
    BY <1>2, <1>3, <1>4 DEF Search, TypeInv, TypeOK, callback
  <2>2. Shapes'
    BY <1>2, <1>3, <1>4 DEF Search, TypeInv, Shapes, callback
  <2> QED BY <2>1, <2>2 DEF TypeInv
<1>5. CASE SyncFound(b)
  <2>1. TypeOK'
    BY <1>2, <1>3, <1>5, EmptyCells DEF SyncFound, TypeInv, TypeOK, callback
  <2>2. Shapes'
    BY <1>2, <1>3, <1>5, EmptyCells DEF SyncFound, TypeInv, Shapes, callback
  <2> QED BY <2>1, <2>2 DEF TypeInv
<1>6. CASE Timeout(b)
  <2>1. TypeOK'
    BY <1>2, <1>3, <1>6 DEF Timeout, TypeInv, TypeOK, callback
  <2>2. Shapes'
    BY <1>2, <1>3, <1>6 DEF Timeout, TypeInv, Shapes, callback
  <2> QED BY <2>1, <2>2 DEF TypeInv
<1>7. CASE Data(b)
  <2>1. TypeOK'
    BY <1>2, <1>3, <1>7 DEF Data, TypeInv, TypeOK, rx
  <2>2. Shapes'
    BY <1>2, <1>3, <1>7 DEF Data, TypeInv, Shapes, rx
  <2> QED BY <2>1, <2>2 DEF TypeInv
<1> QED BY <1>1, <1>4, <1>5, <1>6, <1>7

\* The bit CbPut stores.
Descrambled == IF bit[1] > 0 /\ bit[2] = SYNC + scrambler + 1
               THEN <<bit[1], scrambler + 1>> ELSE Junk

LEMMA TypeCbPut ==
  ASSUME TypeInv, CbPut
  PROVE  TypeInv'
<1> USE Sizes
<1>1. Descrambled \in Cell
  BY DEF TypeInv, TypeOK, Shapes, Descrambled, Junk, Cell
<1>2. /\ scrambler' = Advance(scrambler) /\ bit' = Descrambled /\ cpc' = "count"
      /\ rx_rb' = IF Len(rx_rb) < RxCap THEN Append(rx_rb, Descrambled) ELSE rx_rb
  BY DEF CbPut, Descrambled
<1>3. scrambler' \in 0 .. HEADER + MaxLen + 1
  BY <1>2 DEF TypeInv, TypeOK, Advance
<1>4. rx_rb' \in Seq(Cell) /\ Len(rx_rb') <= RxCap
  BY <1>1, <1>2, Appended DEF TypeInv, TypeOK, Shapes
<1>5. TypeOK'
  BY <1>2, <1>3, <1>4 DEF CbPut, TypeInv, TypeOK, main, outcome
<1>6. Shapes'
  BY <1>1, <1>2, <1>4 DEF CbPut, TypeInv, Shapes, air, main, outcome
<1> QED BY <1>5, <1>6 DEF TypeInv

LEMMA ReceivedFacts ==
  ASSUME TypeInv
  PROVE  /\ Received \in 0 .. WRAP - 1
         /\ bits_received < HEADER + MaxLen => Received = bits_received + 1
BY Sizes DEF TypeInv, TypeOK, Received

LEMMA TypeCbPayload ==
  ASSUME TypeInv, CbPayload
  PROVE  TypeInv'
<1>1. TypeOK'
  BY ReceivedFacts DEF CbPayload, TypeInv, TypeOK, main, outcome
<1>2. Shapes'
  BY DEF CbPayload, TypeInv, Shapes, air, main, outcome, Noise, Cell
<1> QED BY <1>1, <1>2 DEF TypeInv

LEMMA Shifted ==
  ASSUME NEW h \in Seq(Cell), Len(h) <= HEADER, NEW b \in Cell
  PROVE  /\ Shift(h, b) \in Seq(Cell) /\ Len(Shift(h, b)) <= HEADER
         /\ Len(h) < HEADER => Shift(h, b) = Append(h, b)
<1> USE Sizes
<1>1. CASE Len(h) < HEADER
  BY <1>1, Appended DEF Shift
<1>2. CASE ~(Len(h) < HEADER)
  <2>1. h # <<>> /\ Len(h) = HEADER
    BY <1>2, EmptyCells, LenProperties
  <2>2. Tail(h) \in Seq(Cell) /\ Len(Tail(h)) = HEADER - 1
    BY <2>1, Taken1
  <2> QED BY <1>2, <2>2, Appended DEF Shift
<1> QED BY <1>1, <1>2

LEMMA TypeCbHeader ==
  ASSUME TypeInv, CbHeader
  PROVE  TypeInv'
<1>1. header' \in Seq(Cell) /\ Len(header') <= HEADER
  BY Shifted DEF CbHeader, TypeInv, TypeOK, Shapes
<1>2. TypeOK'
  BY <1>1, ReceivedFacts DEF CbHeader, TypeInv, TypeOK, main, outcome
<1>3. Shapes'
  BY <1>1 DEF CbHeader, TypeInv, Shapes, air, main, outcome, Noise, Cell
<1> QED BY <1>2, <1>3 DEF TypeInv

LEMMA TypeCbHeaderDone ==
  ASSUME TypeInv, CbHeaderDone
  PROVE  TypeInv'
<1>1. packet_len' \in 0 .. Huge /\ flags' \in Flags /\ cpc' \in {"idle", "resetFields"}
  BY DEF CbHeaderDone
<1>2. bits_received' \in 0 .. WRAP - 1 /\ header' = <<>> /\ bit' \in Cell
  BY ReceivedFacts DEF CbHeaderDone, Noise, Cell
<1>3. TypeOK'
  BY <1>1, <1>2, EmptyCells, Sizes DEF CbHeaderDone, TypeInv, TypeOK, main, outcome
<1>4. Shapes'
  BY <1>1, <1>2, EmptyCells DEF CbHeaderDone, TypeInv, Shapes, air, main, outcome
<1> QED BY <1>3, <1>4 DEF TypeInv

LEMMA TypeCbReset ==
  ASSUME TypeInv, CbResetFields \/ CbResetRing
  PROVE  TypeInv'
<1> USE Sizes, EmptyCells
<1>1. CASE CbResetFields
  <2>1. TypeOK'
    BY <1>1 DEF CbResetFields, TypeInv, TypeOK, main, outcome, Flags
  <2>2. Shapes'
    BY <1>1 DEF CbResetFields, TypeInv, Shapes, air, main, outcome
  <2> QED BY <2>1, <2>2 DEF TypeInv
<1>2. CASE CbResetRing
  <2>1. TypeOK'
    BY <1>2 DEF CbResetRing, TypeInv, TypeOK, main, outcome
  <2>2. Shapes'
    BY <1>2 DEF CbResetRing, TypeInv, Shapes, air, main, outcome
  <2> QED BY <2>1, <2>2 DEF TypeInv
<1> QED BY <1>1, <1>2

LEMMA TypeMGet ==
  ASSUME TypeInv, MGetHeader \/ MGetPayload
  PROVE  TypeInv'
<1> USE Sizes, EmptyCells
<1>1. PICK pc, upTo, next :
        MGet(pc, upTo, next) /\ pc \in {"getHeader", "getPayload"} /\ next \in {"checkLen", "decode"}
  BY DEF MGetHeader, MGetPayload
<1>2. /\ read' \in Seq(Cell) /\ rx_rb' \in Seq(Cell) /\ Len(rx_rb') <= RxCap
      /\ len' \in 0 .. Huge /\ mpc' \in {"getHeader", "getPayload", "checkLen", "decode", "resetState"}
  <2>1. CASE rx_rb = <<>>
    BY <1>1, <2>1 DEF MGet, TypeInv, TypeOK, Shapes
  <2>2. CASE rx_rb # <<>>
    <3>1. Head(rx_rb) \in Cell /\ Tail(rx_rb) \in Seq(Cell) /\ Len(Tail(rx_rb)) = Len(rx_rb) - 1
          /\ Len(rx_rb) \in Nat
      BY <2>2, Taken1 DEF TypeInv, Shapes
    <3>2. Append(read, Head(rx_rb)) \in Seq(Cell)
      BY <3>1, Appended DEF TypeInv, Shapes
    <3>3. /\ read' = Append(read, Head(rx_rb)) /\ rx_rb' = Tail(rx_rb) /\ len' = len
          /\ mpc' = next \/ mpc' = pc
      BY <1>1, <2>2 DEF MGet
    <3>4. len' \in 0 .. Huge /\ Len(rx_rb) <= RxCap
      BY <3>3 DEF TypeInv, TypeOK, Shapes
    <3>5. Len(rx_rb') <= RxCap
      BY <3>1, <3>3, <3>4
    <3> QED BY <1>1, <3>1, <3>2, <3>3, <3>4, <3>5
  <2> QED BY <2>1, <2>2
<1>3. TypeOK'
  BY <1>1, <1>2 DEF MGet, TypeInv, TypeOK, callback, outcome
<1>4. Shapes'
  BY <1>1, <1>2 DEF MGet, TypeInv, Shapes, air, callback, outcome
<1> QED BY <1>3, <1>4 DEF TypeInv

LEMMA TypeMDecode ==
  ASSUME TypeInv, MDecode
  PROVE  TypeInv'
<1> USE Sizes, EmptyCells
<1> DEFINE f == IF Len(read) > HEADER THEN read[Len(read)][1] ELSE 0
<1>1. f \in Nat
  <2>1. CASE Len(read) > HEADER
    <3>1. Len(read) \in Nat /\ Len(read) \in 1 .. Len(read)
      BY <2>1, LenProperties DEF TypeInv, Shapes
    <3>2. read[Len(read)] \in Cell
      BY <3>1, ElementOfSeq DEF TypeInv, Shapes
    <3> QED BY <2>1, <3>2 DEF Cell
  <2> QED BY <2>1
<1>2. delivered' = delivered \/ delivered' = Append(delivered, f)
  BY DEF MDecode, outcome
<1>3. delivered' \in Seq(Nat)
  <2>1. delivered \in Seq(Nat)
    BY DEF TypeInv, Shapes
  <2>2. Append(delivered, f) \in Seq(Nat)
    BY <1>1, <2>1, AppendProperties
  <2> HIDE DEF f
  <2> QED BY <1>2, <2>1, <2>2
<1>4. garbage' = garbage \/ garbage' = 1
  BY DEF MDecode
<1>5. TypeOK'
  BY <1>4 DEF MDecode, TypeInv, TypeOK, rx, callback
<1>6. Shapes'
  BY <1>3 DEF MDecode, TypeInv, Shapes, air, rx, callback
<1> QED BY <1>5, <1>6 DEF TypeInv

LEMMA TypeMain ==
  ASSUME TypeInv,
         \/ MPoll \/ MLoadLen \/ MCheckLen \/ MResetState
         \/ MResetBits \/ MResetLen \/ MResetHeader \/ MResetRing
         \/ MResetScrambler \/ MResetCorrelator \/ MClearReady
  PROVE  TypeInv'
<1> USE Sizes, EmptyCells DEF TypeInv, air, rx, callback, outcome
<1>1. CASE MPoll
  BY <1>1 DEF MPoll, TypeOK, Shapes
<1>2. CASE MLoadLen
  BY <1>2 DEF MLoadLen, TypeOK, Shapes
<1>3. CASE MCheckLen
  BY <1>3 DEF MCheckLen, TypeOK, Shapes
<1>4. CASE MResetState
  BY <1>4 DEF MResetState, MStore, TypeOK, Shapes
<1>5. CASE MResetBits
  BY <1>5 DEF MResetBits, MStore, TypeOK, Shapes
<1>6. CASE MResetLen
  BY <1>6 DEF MResetLen, MStore, TypeOK, Shapes
<1>7. CASE MResetHeader
  BY <1>7 DEF MResetHeader, MStore, TypeOK, Shapes, Flags
<1>8. CASE MResetRing
  BY <1>8 DEF MResetRing, MStore, TypeOK, Shapes
<1>9. CASE MResetScrambler
  BY <1>9 DEF MResetScrambler, MStore, TypeOK, Shapes
<1>10. CASE MResetCorrelator
  BY <1>10 DEF MResetCorrelator, MStore, TypeOK, Shapes
<1>11. CASE MClearReady
  BY <1>11 DEF MClearReady, TypeOK, Shapes
<1> QED BY <1>1, <1>2, <1>3, <1>4, <1>5, <1>6, <1>7, <1>8, <1>9, <1>10, <1>11

LEMMA TypeStall ==
  ASSUME TypeInv, Stall
  PROVE  TypeInv'
<1>1. stalls' \in 0 .. MaxStalls
  BY Sizes DEF Stall, TypeInv, Shapes
<1>2. TypeOK'
  BY DEF Stall, TypeInv, TypeOK, rx, callback, main, outcome
<1>3. Shapes'
  BY <1>1 DEF Stall, TypeInv, Shapes, rx, callback, main, outcome
<1> QED BY <1>2, <1>3 DEF TypeInv

LEMMA TypeStep == TypeInv /\ [Next]_vars => TypeInv'
<1> SUFFICES ASSUME TypeInv, [Next]_vars PROVE TypeInv'
  OBVIOUS
<1>1. CASE Callback
  BY <1>1, TypeCbBit, TypeCbPut, TypeCbPayload, TypeCbHeader, TypeCbHeaderDone, TypeCbReset DEF Callback
<1>2. CASE Main
  BY <1>2, TypeMGet, TypeMDecode, TypeMain DEF Main
<1>3. CASE Stall
  BY <1>3, TypeStall
<1>4. CASE UNCHANGED vars
  BY <1>4 DEF vars, air, rx, callback, main, outcome, TypeInv, TypeOK, Shapes
<1> QED BY <1>1, <1>2, <1>3, <1>4 DEF Next

\* Every field and program counter of the receiver always has a value the code
\* can give it, whatever the two threads do to each other.
THEOREM ReceiverTypeCorrect == Spec => []TypeOK
<1>1. TypeInv => TypeOK
  BY DEF TypeInv
<1> QED BY <1>1, TypeInit, TypeStep, PTL DEF Spec

-----------------------------------------------------------------------------
(* Main keeping up.                                                        *)

\* Main is done with a packet before the next sync word ends; sound never stops
\* for longer than the timeout (which leaves the bits so far in rx_rb); and rx_rb
\* takes a whole packet, as the code's 131072 bits take 8 * 2053.
KeepsUp == MainKeepsUp = TRUE /\ MaxStalls = 0 /\ RxCap >= HEADER + MaxLen

Joint == /\ Turns /\ Counted /\ AirOK /\ LastBit /\ Where /\ Taken /\ Held
         /\ Order /\ Undamaged

RxInv == TypeInv /\ Joint

LEMMA FrameFacts ==
  ASSUME TypeInv, frames # <<>>
  PROVE  /\ Current \in Nat /\ Current >= 1
         /\ frames[Current].len \in 1 .. MaxLen /\ frames[Current].kind \in Kinds
         /\ FrameLen(Current) = SYNC + HEADER + frames[Current].len
<1>1. Current \in Nat /\ Current >= 1 /\ Current \in 1 .. Len(frames)
  BY EmptySeq DEF TypeInv, Shapes, Current
<1>2. frames[Current] \in Sendable
  BY <1>1, ElementOfSeq DEF TypeInv, Shapes
<1> QED BY <1>1, <1>2 DEF Sendable, FrameLen

\* While main is at a packet the callback only listens.
LEMMA MainBusy ==
  ASSUME RxInv, packet_ready
  PROVE  /\ cpc = "idle" /\ state = "SEARCHING" /\ correlator \in {0, SYNC} /\ ~stalled
         /\ frames # <<>>
         /\ Sound => pos = 0 /\ (Pending \/ Current \in Out)
<1> USE Sizes
<1>1. /\ cpc = "idle" /\ state = "SEARCHING" /\ correlator \in {0, SYNC} /\ ~stalled
      /\ frames # <<>>
  BY DEF RxInv, Joint, Turns, AirOK
<1>2. ASSUME Sound PROVE pos = 0
  <2>1. pos \in Nat
    BY DEF RxInv, TypeInv, Shapes
  <2>2. ~(pos \in 1 .. SYNC - 1)
    BY <1>2 DEF RxInv, Joint, Where
  <2>3. ~(pos >= SYNC)
    BY <1>1, <1>2 DEF RxInv, Joint, Where
  <2> QED BY <2>1, <2>2, <2>3
<1>3. ASSUME Sound PROVE Pending \/ Current \in Out
  BY <1>1, <1>2, <1>3 DEF RxInv, Joint, Where
<1> QED BY <1>1, <1>2, <1>3

\* A step of main that neither ends nor delivers a packet.
LEMMA MainStep ==
  ASSUME RxInv, packet_ready, UNCHANGED <<air, callback, outcome>>,
         state' = "SEARCHING", correlator' \in {0, SYNC},
         mpc' # "poll" => packet_ready', Pending' <=> Pending
  PROVE  Turns' /\ AirOK' /\ Where' /\ Taken' /\ Order' /\ Undamaged'
<1>0. /\ cpc' = "idle" /\ state = "SEARCHING" /\ ~stalled' /\ frames # <<>>
      /\ Sound => pos = 0 /\ (Pending \/ Current \in Out)
  BY MainBusy DEF callback, air
<1>1. /\ frames' = frames /\ pos' = pos /\ clean' = clean /\ faults' = faults
      /\ delivered' = delivered /\ intact' = intact /\ garbage' = garbage
  BY DEF air, outcome
<1>2. Sound' = Sound /\ Current' = Current /\ Out' = Out /\ FrameLen(Current)' = FrameLen(Current)
  BY <1>1 DEF Sound, Current, Out, FrameLen
<1>3. Turns'
  BY <1>0 DEF Turns
<1>4. AirOK'
  BY <1>0, <1>1, <1>2 DEF RxInv, Joint, AirOK
<1>5. Where'
  BY <1>0, <1>1, <1>2, Sizes DEF Where
<1>6. Taken'
  BY DEF Taken
<1>7. Order'
  BY <1>0, <1>1, <1>2 DEF RxInv, Joint, Order, callback
<1>8. Undamaged'
  BY <1>1, <1>2 DEF RxInv, Joint, Undamaged
<1> QED BY <1>3, <1>4, <1>5, <1>6, <1>7, <1>8

LEMMA StepMReset ==
  ASSUME RxInv,
         \/ MResetState \/ MResetBits \/ MResetLen \/ MResetHeader \/ MResetRing
         \/ MResetScrambler \/ MResetCorrelator \/ MClearReady
  PROVE  Joint'
<1> USE Sizes DEF RxInv, Joint
<1> DEFINE Resetting == {"resetState", "resetBits", "resetLen", "resetHeader", "resetRing",
                         "resetScrambler", "resetCorrelator", "clearReady"}
<1>1. mpc \in Resetting /\ packet_ready /\ ~Pending
  BY DEF MResetState, MResetBits, MResetLen, MResetHeader, MResetRing,
         MResetScrambler, MResetCorrelator, MStore, MClearReady, Turns, Pending
<1>2. cpc = "idle" /\ state = "SEARCHING" /\ correlator \in {0, SYNC} /\ read = <<>>
  BY <1>1, MainBusy DEF Counted
<1>3. /\ UNCHANGED <<air, callback, outcome, read>> /\ state' = "SEARCHING" /\ correlator' \in {0, SYNC}
      /\ mpc' \in Resetting \cup {"poll"}
      /\ mpc' # "poll" => packet_ready'
      /\ mpc' \in {"resetScrambler", "resetCorrelator", "clearReady"} => rx_rb' = <<>>
      /\ mpc' = "poll" => ~packet_ready' /\ rx_rb' = <<>>
  BY <1>1, <1>2 DEF MResetState, MResetBits, MResetLen, MResetHeader, MResetRing,
                    MResetScrambler, MResetCorrelator, MStore, MClearReady, Counted
<1>4. ~Pending'
  BY <1>3 DEF Pending
<1>5. Turns' /\ AirOK' /\ Where' /\ Taken' /\ Order' /\ Undamaged'
  BY <1>1, <1>3, <1>4, MainStep
<1>6. cpc' = "idle"
  BY <1>2, <1>3 DEF callback
<1>7. Counted'
  <2>1. EmptyBetweenPackets'
    BY <1>3 DEF EmptyBetweenPackets, MainIdle
  <2> QED BY <2>1, <1>2, <1>3, <1>4, <1>6 DEF Counted
<1>8. LastBit' /\ Held'
  BY <1>4, <1>6 DEF LastBit, Held
<1> QED BY <1>5, <1>7, <1>8

LEMMA StepMPoll ==
  ASSUME RxInv, MPoll \/ MLoadLen \/ MCheckLen
  PROVE  Joint'
<1> USE Sizes DEF RxInv, Joint
<1>1. packet_ready /\ Pending /\ mpc \in {"poll", "loadLen", "checkLen"}
  BY DEF MPoll, MLoadLen, MCheckLen, Turns, Pending
<1>2. /\ cpc = "idle" /\ state = "SEARCHING" /\ correlator \in {0, SYNC}
      /\ packet_len \in 1 .. MaxLen /\ Len(read) + Len(rx_rb) = HEADER + packet_len
  BY <1>1, MainBusy DEF Counted
<1>3. /\ UNCHANGED <<air, rx, callback, outcome>> /\ read' = read
      /\ mpc' \in {"loadLen", "getHeader", "getPayload"}
      /\ mpc' = "loadLen" => mpc = "poll" /\ read = <<>>
      /\ mpc' = "getHeader" => mpc = "loadLen" /\ len' = packet_len /\ read = <<>>
      /\ mpc' = "getPayload" => mpc = "checkLen" /\ len = packet_len /\ len' = len /\ Len(read) = HEADER
  BY <1>1, <1>2 DEF MPoll, MLoadLen, MCheckLen, Counted
<1>4. Pending' /\ packet_ready' /\ state' = state /\ correlator' = correlator /\ packet_len' = packet_len
      /\ flags' = flags /\ rx_rb' = rx_rb /\ cpc' = cpc
  BY <1>1, <1>3 DEF Pending, rx, callback
<1>5. Turns' /\ AirOK' /\ Where' /\ Taken' /\ Order' /\ Undamaged'
  BY <1>1, <1>2, <1>3, <1>4, MainStep
<1>6. Counted'
  <2>1. EmptyBetweenPackets'
    BY <1>4 DEF EmptyBetweenPackets, MainIdle
  <2>2. mpc' = "getHeader" => Len(read') < HEADER
    BY <1>3, EmptyCells
  <2>3. mpc' = "getPayload" => Len(read') \in HEADER .. HEADER + len' - 1
    BY <1>2, <1>3
  <2> QED BY <2>1, <2>2, <2>3, <1>2, <1>3, <1>4 DEF Counted
<1>7. LastBit'
  BY <1>1, <1>2, <1>3, <1>4 DEF LastBit, LastOf, OfCurrent, Current, FrameLen, air
<1>8. Held'
  BY <1>1, <1>3, <1>4 DEF Held, Sound, Current, air, outcome
<1> QED BY <1>5, <1>6, <1>7, <1>8

\* One bit moves from rx_rb to read: together they hold what they held.
LEMMA StepMGet ==
  ASSUME RxInv, MGetHeader \/ MGetPayload
  PROVE  Joint'
<1> USE Sizes DEF RxInv, Joint
<1>1. packet_ready /\ Pending /\ mpc \in {"getHeader", "getPayload"}
  BY DEF MGetHeader, MGetPayload, MGet, Turns, Pending
<1>2. /\ cpc = "idle" /\ state = "SEARCHING" /\ correlator \in {0, SYNC} /\ frames # <<>>
      /\ packet_len \in 1 .. MaxLen /\ Len(read) + Len(rx_rb) = HEADER + packet_len
      /\ len = packet_len
  BY <1>1, MainBusy DEF Counted
<1>3. /\ read \in Seq(Cell) /\ rx_rb \in Seq(Cell)
      /\ Len(read) \in Nat /\ Len(rx_rb) \in Nat
  BY LenProperties DEF TypeInv, Shapes
<1>4. Len(read) < HEADER + packet_len /\ rx_rb # <<>>
  <2>1. Len(read) < HEADER + packet_len
    BY <1>2, <1>3 DEF MGetHeader, MGetPayload, MGet
  <2> QED BY <1>2, <1>3, <2>1, EmptyCells
<1> DEFINE c == Head(rx_rb)
<1>5. /\ c \in Cell /\ c = rx_rb[1] /\ Len(rx_rb) >= 1
      /\ Tail(rx_rb) \in Seq(Cell) /\ Len(Tail(rx_rb)) = Len(rx_rb) - 1
      /\ \A i \in 1 .. Len(rx_rb) - 1 : Tail(rx_rb)[i] = rx_rb[i + 1]
  BY <1>3, <1>4, Taken1
<1>6. /\ read' = Append(read, c) /\ rx_rb' = Tail(rx_rb) /\ len' = len
      /\ UNCHANGED <<air, state, packet_len, flags, packet_ready, correlator, callback, outcome>>
      /\ \/ mpc = "getHeader" /\ Len(read) < HEADER
            /\ mpc' = IF Len(read) + 1 = HEADER THEN "checkLen" ELSE "getHeader"
         \/ mpc = "getPayload"
            /\ mpc' = IF Len(read) + 1 = HEADER + len THEN "decode" ELSE "getPayload"
  BY <1>4 DEF MGetHeader, MGetPayload, MGet
<1> HIDE DEF c
<1>7. /\ Len(read') = Len(read) + 1 /\ Len(rx_rb') = Len(rx_rb) - 1 /\ read' # <<>>
      /\ \A i \in 1 .. Len(read) : read'[i] = read[i]
      /\ read'[Len(read) + 1] = c
      /\ \A i \in 1 .. Len(rx_rb) - 1 : rx_rb'[i] = rx_rb[i + 1]
  BY <1>3, <1>5, <1>6, Appended
<1>8. packet_ready' /\ Pending' /\ cpc' = "idle" /\ state' = "SEARCHING"
  BY <1>1, <1>2, <1>6 DEF Pending, callback
<1>9. Turns' /\ AirOK' /\ Where' /\ Taken' /\ Order' /\ Undamaged'
  BY <1>1, <1>2, <1>6, <1>8, MainStep
<1>10. Counted'
  <2>1. EmptyBetweenPackets'
    BY <1>8 DEF EmptyBetweenPackets, MainIdle
  <2>2. Len(read') + Len(rx_rb') = HEADER + packet_len /\ packet_len' = packet_len /\ len' = packet_len'
    <3>1. Len(read') + Len(rx_rb') = Len(read) + Len(rx_rb)
      BY <1>3, <1>7
    <3>2. packet_len' = packet_len /\ len' = len
      BY <1>6
    <3> QED BY <1>2, <3>1, <3>2
  <2>3. mpc' \in {"getHeader", "checkLen", "getPayload", "decode"}
    BY <1>6
  <2>4. /\ mpc' = "getHeader" => Len(read') < HEADER
        /\ mpc' = "checkLen" => Len(read') = HEADER
    BY <1>3, <1>6, <1>7
  <2>5. mpc = "getPayload" => Len(read) \in HEADER .. HEADER + len - 1
    BY DEF Counted
  <2>6. /\ mpc' = "getPayload" => Len(read') \in HEADER .. HEADER + len' - 1
        /\ mpc' = "decode" => Len(read') = HEADER + len'
    <3>1. len \in Nat /\ len' = len /\ Len(read') = Len(read) + 1
      BY <1>2, <1>6, <1>7
    <3>2. CASE mpc = "getHeader"
      BY <1>6, <3>2
    <3>3. CASE mpc = "getPayload"
      <4>1. Len(read) >= HEADER /\ Len(read) < HEADER + len
        BY <1>3, <2>5, <3>1, <3>3
      <4>2. mpc' = IF Len(read) + 1 = HEADER + len THEN "decode" ELSE "getPayload"
        BY <1>6, <3>3
      <4>3. CASE Len(read) + 1 = HEADER + len
        BY <3>1, <4>2, <4>3
      <4>4. CASE Len(read) + 1 # HEADER + len
        <5>1. Len(read) + 1 \in HEADER .. HEADER + len - 1
          BY <1>3, <3>1, <4>1, <4>4
        <5> QED BY <3>1, <4>2, <4>4, <5>1
      <4> QED BY <4>3, <4>4
    <3> QED BY <1>1, <3>2, <3>3
  <2> QED BY <1>2, <1>8, <2>1, <2>2, <2>3, <2>4, <2>6 DEF Counted
<1>11. LastOf' = LastOf
  <2>1. LastOf = rx_rb[Len(rx_rb)]
    BY <1>4 DEF LastOf
  <2>2. CASE Len(rx_rb) = 1
    <3>1. rx_rb' = <<>>
      BY <1>5, <1>6, <2>2, EmptyCells
    <3>2. LastOf' = read'[Len(read')]
      BY <3>1 DEF LastOf
    <3> QED BY <1>5, <1>7, <2>1, <2>2, <3>2
  <2>3. CASE Len(rx_rb) # 1
    <3>1. rx_rb' # <<>>
      <4>1. Len(rx_rb') # 0
        BY <1>3, <1>5, <1>6, <2>3
      <4> QED BY <4>1, EmptyCells
    <3>2. LastOf' = rx_rb'[Len(rx_rb')]
      BY <3>1 DEF LastOf
    <3>3. Len(rx_rb) - 1 \in 1 .. Len(rx_rb) - 1
      BY <1>3, <1>5, <2>3
    <3>4. rx_rb'[Len(rx_rb) - 1] = rx_rb[Len(rx_rb) - 1 + 1]
      BY <1>7, <3>3
    <3> QED BY <1>3, <1>7, <2>1, <3>2, <3>4
  <2> QED BY <2>2, <2>3
<1>12. LastBit'
  <2>1. OfCurrent(LastOf[1], SYNC + LastOf[2])
    BY <1>1 DEF LastBit
  <2> QED BY <1>6, <1>8, <1>11, <2>1 DEF LastBit, OfCurrent, Current, FrameLen, air
<1>13. Held'
  <2> SUFFICES ASSUME Sound PROVE Held'
    BY <1>6 DEF Held, Sound, Current, air, outcome
  <2>1. /\ packet_len = frames[Current].len /\ flags = frames[Current].kind
        /\ \A i \in 1 .. Len(read) : read[i] = <<Current, i>>
        /\ \A i \in 1 .. Len(rx_rb) : rx_rb[i] = <<Current, Len(read) + i>>
    BY <1>1 DEF Held
  <2>2. c = <<Current, Len(read) + 1>>
    BY <1>3, <1>5, <2>1
  <2>3. \A i \in 1 .. Len(read') : read'[i] = <<Current, i>>
    BY <1>3, <1>7, <2>1, <2>2
  <2>4. \A i \in 1 .. Len(rx_rb') : rx_rb'[i] = <<Current, Len(read') + i>>
    <3> TAKE i \in 1 .. Len(rx_rb')
    <3>1. i \in 1 .. Len(rx_rb) - 1 /\ i + 1 \in 1 .. Len(rx_rb) /\ i \in Nat
      BY <1>3, <1>7
    <3>2. rx_rb'[i] = <<Current, Len(read) + (i + 1)>>
      BY <1>7, <2>1, <3>1
    <3> QED BY <1>3, <1>7, <3>1, <3>2
  <2> QED BY <1>6, <2>1, <2>3, <2>4 DEF Held, Current, air
<1> QED BY <1>9, <1>10, <1>12, <1>13

\* What is good in MDecode.
Good(f) ==
  /\ f > 0 /\ flags = frames[f].kind /\ len = frames[f].len
  /\ \A i \in HEADER + 1 .. HEADER + len : read[i] = <<f, i>>

\* A packet that decodes is the current frame, whole, for the first time; the
\* packet of a sound frame decodes.
LEMMA DecodeFacts ==
  ASSUME RxInv, mpc = "decode"
  PROVE  /\ Len(read) = HEADER + len /\ len \in 1 .. MaxLen /\ Len(read) > HEADER
         /\ Current \notin Out
         /\ \A f : f = read[Len(read)][1] /\ Good(f) => f = Current /\ pos = 0 /\ f \in Nat
         /\ Sound => Good(Current) /\ read[Len(read)][1] = Current
                     /\ \A i \in 1 .. Len(read) : read[i] = <<Current, i>>
<1> USE Sizes DEF RxInv, Joint
<1>1. packet_ready /\ Pending /\ frames # <<>>
  BY MainBusy DEF Turns, Pending
<1>2. /\ Len(read) = HEADER + len /\ len \in 1 .. MaxLen /\ len = packet_len
      /\ Len(read) + Len(rx_rb) = HEADER + packet_len
  BY <1>1 DEF Counted
<1>3. Len(rx_rb) \in Nat /\ rx_rb \in Seq(Cell) /\ read \in Seq(Cell)
  BY LenProperties DEF TypeInv, Shapes
<1>4. rx_rb = <<>> /\ LastOf = read[Len(read)]
  <2>1. Len(rx_rb) = 0
    BY <1>2, <1>3
  <2>2. rx_rb = <<>>
    BY <1>3, <2>1, EmptyCells
  <2> QED BY <2>2 DEF LastOf
<1>5. Len(read) > HEADER
  BY <1>2
<1>6. OfCurrent(LastOf[1], SYNC + LastOf[2])
  BY <1>1 DEF LastBit
<1>7. Current \notin Out
  BY <1>1 DEF Order
<1>8. Current \in Nat /\ Current >= 1 /\ FrameLen(Current) = SYNC + HEADER + frames[Current].len
  BY <1>1, FrameFacts
<1>9. ASSUME NEW f, f = read[Len(read)][1], Good(f)
      PROVE  f = Current /\ pos = 0 /\ f \in Nat
  <2>1. f > 0 /\ len = frames[f].len
    BY <1>9 DEF Good
  <2>2. LastOf = <<f, HEADER + len>>
    <3>1. HEADER + len \in HEADER + 1 .. HEADER + len
      BY <1>2
    <3>2. read[HEADER + len] = <<f, HEADER + len>>
      BY <1>9, <3>1 DEF Good
    <3> QED BY <1>2, <1>4, <3>2
  <2>3. f = Current
    <3>1. LastOf[1] = f
      BY <2>2
    <3> QED BY <1>6, <2>1, <3>1 DEF OfCurrent
  <2>4. SYNC + (HEADER + len) = FrameLen(Current)
    BY <1>2, <1>8, <2>1, <2>3
  <2>5. LastOf[1] > 0 /\ SYNC + LastOf[2] = FrameLen(Current)
    BY <1>8, <2>2, <2>3, <2>4
  <2>6. pos = 0
    BY <1>6, <2>5 DEF OfCurrent
  <2> QED BY <1>8, <2>3, <2>6
<1>10. ASSUME Sound
       PROVE  /\ Good(Current) /\ read[Len(read)][1] = Current
              /\ \A i \in 1 .. Len(read) : read[i] = <<Current, i>>
  <2>1. /\ packet_len = frames[Current].len /\ flags = frames[Current].kind
        /\ \A i \in 1 .. Len(read) : read[i] = <<Current, i>>
    BY <1>1, <1>10 DEF Held
  <2>2. \A i \in HEADER + 1 .. HEADER + len : read[i] = <<Current, i>>
    <3> TAKE i \in HEADER + 1 .. HEADER + len
    <3>1. i \in 1 .. HEADER + len
      BY <1>2
    <3> QED BY <1>2, <2>1, <3>1
  <2>3. read[Len(read)] = <<Current, Len(read)>>
    <3>1. Len(read) \in 1 .. Len(read)
      BY <1>2
    <3> QED BY <2>1, <3>1
  <2>4. len = frames[Current].len
    BY <1>2, <2>1
  <2>5. Good(Current)
    BY <1>8, <2>1, <2>2, <2>4 DEF Good
  <2>6. read[Len(read)][1] = Current
    BY <2>3
  <2> QED BY <2>1, <2>5, <2>6
<1> QED BY <1>2, <1>5, <1>7, <1>9, <1>10

LEMMA StepMDecode ==
  ASSUME RxInv, MDecode
  PROVE  Joint'
<1> USE Sizes DEF RxInv, Joint
<1> DEFINE f == read[Len(read)][1]
<1>0. mpc = "decode"
  BY DEF MDecode
<1>1. /\ Len(read) = HEADER + len /\ len \in 1 .. MaxLen /\ Len(read) > HEADER
      /\ Current \notin Out
      /\ Good(f) => f = Current /\ pos = 0 /\ f \in Nat
      /\ Sound => Good(f) /\ f = Current
  BY <1>0, DecodeFacts
<1>2. /\ \/ Good(f) /\ delivered' = Append(delivered, f) /\ garbage' = garbage
         \/ ~Good(f) /\ delivered' = delivered /\ garbage' \in {garbage, 1}
      /\ mpc' = "resetState" /\ len' = 0 /\ read' = <<>>
      /\ UNCHANGED <<air, rx, callback, intact>>
  <2>1. (IF Len(read) > HEADER THEN read[Len(read)][1] ELSE 0) = f
    BY <1>1
  <2> QED BY <2>1 DEF MDecode, Good
<1> HIDE DEF f
<1>3. /\ packet_ready /\ cpc = "idle" /\ state = "SEARCHING" /\ correlator \in {0, SYNC}
      /\ ~stalled /\ frames # <<>>
      /\ Sound => pos = 0
  BY <1>0, MainBusy DEF Turns
<1>4. /\ packet_ready' /\ cpc' = "idle" /\ state' = "SEARCHING" /\ correlator' = correlator
      /\ stalled' = stalled /\ frames' = frames /\ pos' = pos /\ clean' = clean
      /\ faults' = faults /\ intact' = intact /\ ~Pending'
      /\ Current' = Current /\ Sound' = Sound /\ FrameLen(Current)' = FrameLen(Current)
  BY <1>2, <1>3 DEF air, rx, callback, Pending, Current, Sound, FrameLen
<1>5. /\ Out' = IF Good(f) THEN Out \cup {Current} ELSE Out
      /\ Sound => Current \in Out'
  <2>1. CASE Good(f)
    <3>1. f = Current /\ delivered' = Append(delivered, f) /\ delivered \in Seq(Nat) /\ f \in Nat
      BY <1>1, <1>2, <2>1 DEF TypeInv, Shapes
    <3>2. /\ DOMAIN delivered = 1 .. Len(delivered) /\ Len(delivered) \in Nat
          /\ DOMAIN delivered' = 1 .. Len(delivered) + 1
          /\ \A i \in 1 .. Len(delivered) : delivered'[i] = delivered[i]
          /\ delivered'[Len(delivered) + 1] = f
      BY <3>1, AppendProperties, LenProperties
    <3>3. Out' = Out \cup {f}
      <4>1. ASSUME NEW g \in Out' PROVE g \in Out \cup {f}
        <5>1. PICK i \in 1 .. Len(delivered) + 1 : g = delivered'[i]
          BY <3>2, <4>1 DEF Out
        <5> QED BY <3>2, <5>1 DEF Out
      <4>2. ASSUME NEW g \in Out \cup {f} PROVE g \in Out'
        <5>1. CASE g = f
          BY <3>2, <5>1 DEF Out
        <5>2. CASE g \in Out
          <6>1. PICK i \in 1 .. Len(delivered) : g = delivered[i]
            BY <3>2, <5>2 DEF Out
          <6>2. i \in DOMAIN delivered' /\ g = delivered'[i]
            BY <3>2, <6>1
          <6> QED BY <6>2 DEF Out
        <5> QED BY <4>2, <5>1, <5>2
      <4> QED BY <4>1, <4>2
    <3> QED BY <2>1, <3>1, <3>3
  <2>2. CASE ~Good(f)
    BY <1>1, <1>2, <2>2 DEF Out
  <2> QED BY <2>1, <2>2
<1>6. Turns'
  BY <1>3, <1>4 DEF Turns
<1>7. AirOK'
  <2>1. Current \in 1 .. Current
    <3>1. Current \in Nat /\ Current >= 1
      BY <1>3, FrameFacts
    <3> QED BY <3>1
  <2> QED BY <1>3, <1>4, <1>5, <2>1 DEF AirOK
<1>8. Where'
  BY <1>3, <1>4, <1>5 DEF Where
<1>9. Taken' /\ Held' /\ LastBit'
  BY <1>4 DEF Taken, Held, LastBit
<1>10. Order'
  <2>1. Good(f) => pos = 0
    BY <1>1
  <2>2. Current \in Out' => pos = 0
    BY <1>1, <1>5, <2>1
  <2>3. \A g \in intact : g < Current => g \in Out'
    BY <1>5 DEF Order
  <2> QED BY <1>4, <2>2, <2>3 DEF Order
<1>11. Undamaged'
  <2>1. faults = 0 => Sound
    <3>1. CASE pos > 0
      BY <3>1 DEF Undamaged, Sound
    <3>2. CASE ~(pos > 0)
      <4>1. pos = 0
        BY <3>2 DEF TypeInv, Shapes
      <4> QED BY <1>3, <3>2, <4>1 DEF Undamaged, Sound
    <3> QED BY <3>1, <3>2
  <2> QED BY <1>1, <1>2, <1>4, <2>1 DEF Undamaged
<1>12. Counted'
  BY <1>2, <1>4 DEF Counted, EmptyBetweenPackets, MainIdle
<1> QED BY <1>6, <1>7, <1>8, <1>9, <1>10, <1>11, <1>12

-----------------------------------------------------------------------------
(* The callback's steps between two bits.                                  *)

\* Between two bits main is idle and the air stands still.
LEMMA BitStep ==
  ASSUME RxInv, cpc # "idle", UNCHANGED <<air, main, outcome>>
  PROVE  /\ ~packet_ready /\ mpc = "poll" /\ mpc' = "poll" /\ read = <<>> /\ read' = <<>> /\ ~Pending
         /\ frames # <<>> /\ frames' = frames /\ pos' = pos /\ pos \in Nat /\ ~stalled'
         /\ (Sound' <=> Sound) /\ Current' = Current /\ FrameLen(Current)' = FrameLen(Current)
         /\ Current \notin Out /\ Out' = Out
         /\ AirOK' /\ Order' /\ Undamaged'
<1> USE DEF RxInv, Joint
<1>1. ~packet_ready /\ mpc = "poll" /\ ~Pending
  BY DEF Turns, Pending
<1>2. frames # <<>> /\ Current \notin Out /\ read = <<>>
  BY <1>1 DEF AirOK, Order, Counted
<1>3. /\ frames' = frames /\ pos' = pos /\ clean' = clean /\ faults' = faults /\ stalled' = stalled
      /\ delivered' = delivered /\ intact' = intact /\ garbage' = garbage
      /\ mpc' = mpc /\ read' = read
  BY DEF air, main, outcome
<1>4. (Sound' <=> Sound) /\ Current' = Current /\ Out' = Out /\ FrameLen(Current)' = FrameLen(Current)
  BY <1>3 DEF Sound, Current, Out, FrameLen
<1>5. AirOK'
  BY <1>2, <1>3, <1>4 DEF AirOK
<1>6. Order'
  BY <1>2, <1>3, <1>4 DEF Order
<1>7. Undamaged'
  BY <1>3, <1>4 DEF Undamaged
<1>8. ~stalled' /\ pos \in Nat
  BY <1>3 DEF Turns, TypeInv, Shapes
<1> QED BY <1>1, <1>2, <1>3, <1>4, <1>5, <1>6, <1>7, <1>8

\* How many bits of the packet there are, and where the frame is if it is sound.
LEMMA BitPlace ==
  ASSUME RxInv, cpc \in {"put", "count"}
  PROVE  /\ state = "DATA" /\ bits_received \in Nat /\ scrambler \in Nat
         /\ bits_received < HEADER + MaxLen /\ Received = bits_received + 1
         /\ \/ bits_received < HEADER
            \/ packet_len \in 1 .. MaxLen /\ bits_received < HEADER + packet_len
         /\ Sound => /\ pos >= SYNC => SYNC + bits_received + 1 = pos
                     /\ pos = 0 => bits_received + 1 = HEADER + frames[Current].len
                     /\ pos >= SYNC \/ pos = 0
<1> USE Sizes DEF RxInv, Joint
<1>1. state = "DATA" /\ bits_received \in Nat /\ scrambler \in Nat
  BY DEF Turns, TypeInv, TypeOK
<1>2. \/ bits_received < HEADER
      \/ packet_len \in 1 .. MaxLen /\ bits_received < HEADER + packet_len
  BY <1>1 DEF Counted
<1>3. bits_received < HEADER + MaxLen
  BY <1>1, <1>2
<1>4. Received = bits_received + 1
  BY <1>3, ReceivedFacts
<1>5. Sound => /\ pos >= SYNC => SYNC + bits_received + 1 = pos
               /\ pos = 0 => bits_received + 1 = HEADER + frames[Current].len
               /\ pos >= SYNC \/ pos = 0
  <2>1. pos \in Nat
    BY DEF TypeInv, Shapes
  <2>2. cpc # "idle"
    OBVIOUS
  <2> QED BY <2>1, <2>2 DEF Where
<1> QED BY <1>1, <1>2, <1>3, <1>4, <1>5

LEMMA StepCbPut ==
  ASSUME KeepsUp, RxInv, CbPut
  PROVE  Joint'
<1> USE Sizes DEF RxInv, Joint
<1> DEFINE b == Descrambled
<1>1. /\ cpc = "put" /\ cpc' = "count" /\ bit' = b /\ scrambler' = Advance(scrambler)
      /\ rx_rb' = IF Len(rx_rb) < RxCap THEN Append(rx_rb, b) ELSE rx_rb
      /\ UNCHANGED <<air, state, bits_received, packet_len, header, flags,
                     packet_ready, correlator, main, outcome>>
  BY DEF CbPut, Descrambled
<1>2. b \in Cell
  BY DEF TypeInv, TypeOK, Shapes, Descrambled, Junk, Cell
<1> HIDE DEF b
<1>3. /\ ~packet_ready' /\ mpc' = "poll" /\ read' = <<>>
      /\ frames # <<>> /\ frames' = frames /\ pos' = pos /\ pos \in Nat /\ ~stalled'
      /\ (Sound' <=> Sound) /\ Current' = Current /\ FrameLen(Current)' = FrameLen(Current)
      /\ AirOK' /\ Order' /\ Undamaged'
  BY <1>1, BitStep
<1>4. /\ state = "DATA" /\ bits_received \in Nat /\ scrambler \in Nat
      /\ bits_received < HEADER + MaxLen
      /\ Len(rx_rb) = bits_received /\ correlator = SYNC
  BY <1>1, BitPlace DEF Turns, Counted
<1>5. rx_rb' = Append(rx_rb, b)
  BY <1>1, <1>4 DEF KeepsUp
<1>6. /\ Len(rx_rb') = bits_received + 1 /\ rx_rb'[bits_received + 1] = b
      /\ \A i \in 1 .. bits_received : rx_rb'[i] = rx_rb[i]
  BY <1>2, <1>4, <1>5, Appended DEF TypeInv, Shapes
<1>7. Turns'
  BY <1>1, <1>3, <1>4 DEF Turns
<1>8. ~Pending'
  BY <1>3 DEF Pending
<1>9. Counted'
  <2>1. EmptyBetweenPackets'
    BY <1>1 DEF EmptyBetweenPackets
  <2> QED BY <1>1, <1>3, <1>4, <1>6, <1>8, <2>1 DEF Counted
<1>10. LastBit'
  <2>1. OfCurrent(bit[1], bit[2])
    BY <1>1 DEF LastBit
  <2>2. OfCurrent(b[1], SYNC + b[2])
    <3>1. CASE bit[1] > 0 /\ bit[2] = SYNC + scrambler + 1
      <4>1. b[1] = bit[1] /\ b[2] = scrambler + 1
        BY <3>1 DEF b, Descrambled
      <4>2. SYNC + (scrambler + 1) = bit[2]
        BY <1>4, <3>1
      <4> QED BY <2>1, <4>1, <4>2
    <3>2. CASE ~(bit[1] > 0 /\ bit[2] = SYNC + scrambler + 1)
      <4>1. b[1] = 0
        BY <3>2 DEF b, Descrambled, Junk
      <4> QED BY <4>1 DEF OfCurrent
    <3> QED BY <3>1, <3>2
  <2> QED BY <1>1, <1>6, <1>8, <2>2, <1>3 DEF LastBit, OfCurrent
<1>11. Where'
  BY <1>1, <1>3, <1>4 DEF Where
<1>12. Taken'
  <2> SUFFICES ASSUME Sound PROVE Taken'
    BY <1>3 DEF Taken
  <2>1. /\ scrambler = bits_received
        /\ bits_received < HEADER =>
             Len(header) = bits_received /\ \A i \in 1 .. bits_received : header[i] = <<Current, i>>
        /\ bits_received >= HEADER =>
             packet_len = frames[Current].len /\ flags = frames[Current].kind
        /\ \A i \in 1 .. Len(rx_rb) : rx_rb[i] = <<Current, i>>
        /\ bit = <<Current, SYNC + scrambler + 1>>
    BY <1>1, <1>4 DEF Taken
  <2>2. scrambler' = bits_received + 1
    <3>1. scrambler \in Nat /\ ~(scrambler > HEADER + MaxLen)
      BY <1>4, <2>1
    <3>2. scrambler' = scrambler + 1
      BY <1>1, <3>1 DEF Advance
    <3> QED BY <2>1, <3>2
  <2>3. b = <<Current, scrambler + 1>>
    <3>1. Current > 0
      BY <1>3, FrameFacts
    <3> QED BY <2>1, <3>1 DEF b, Descrambled
  <2>4. \A i \in 1 .. Len(rx_rb') : rx_rb'[i] = <<Current, i>>
    BY <1>4, <1>6, <2>1, <2>3
  <2> QED BY <1>1, <1>3, <2>1, <2>2, <2>3, <2>4 DEF Taken
<1>13. Held'
  BY <1>8 DEF Held
<1> QED BY <1>3, <1>7, <1>9, <1>10, <1>11, <1>12, <1>13

LEMMA StepCbPayload ==
  ASSUME RxInv, CbPayload
  PROVE  Joint'
<1> USE Sizes DEF RxInv, Joint
<1>1. /\ cpc = "count" /\ cpc' = "idle" /\ Received > HEADER /\ bits_received' = Received
      /\ UNCHANGED <<air, packet_len, header, flags, scrambler, correlator, rx_rb, main, outcome>>
  BY DEF CbPayload
<1>2. /\ ~packet_ready /\ mpc = "poll" /\ mpc' = "poll" /\ read' = <<>>
      /\ frames # <<>> /\ frames' = frames /\ pos' = pos /\ pos \in Nat /\ ~stalled'
      /\ (Sound' <=> Sound) /\ Current' = Current /\ FrameLen(Current)' = FrameLen(Current)
      /\ AirOK' /\ Undamaged' /\ Current \notin Out /\ Out' = Out
  BY <1>1, BitStep
<1>3. /\ state = "DATA" /\ bits_received \in Nat /\ Received = bits_received + 1
      /\ bits_received >= HEADER /\ packet_len \in 1 .. MaxLen
      /\ bits_received < HEADER + packet_len
  BY <1>1, BitPlace
<1>4. Len(rx_rb) = bits_received + 1 /\ rx_rb[Len(rx_rb)] = bit /\ correlator = SYNC
      /\ OfCurrent(bit[1], SYNC + bit[2])
  BY <1>1, <1>3 DEF Counted, LastBit, Turns
<1>5. ASSUME Sound
      PROVE  /\ packet_len = frames[Current].len /\ flags = frames[Current].kind
             /\ scrambler = bits_received + 1
             /\ \A i \in 1 .. Len(rx_rb) : rx_rb[i] = <<Current, i>>
             /\ pos >= SYNC => SYNC + bits_received + 1 = pos
             /\ pos = 0 => bits_received + 1 = HEADER + frames[Current].len
             /\ pos >= SYNC \/ pos = 0
  BY <1>1, <1>3, <1>5, BitPlace DEF Taken
<1>6. Order'
  BY <1>2 DEF Order, outcome, CbPayload
<1>7. CASE Received = packet_len + HEADER
  <2>1. state' = "SEARCHING" /\ packet_ready' /\ Pending'
    BY <1>1, <1>2, <1>7 DEF CbPayload, Pending
  <2>2. Turns'
    BY <1>1, <1>2, <1>4, <2>1 DEF Turns
  <2>3. Counted'
    <3>1. EmptyBetweenPackets'
      BY <2>1 DEF EmptyBetweenPackets, MainIdle
    <3>2. Len(read') + Len(rx_rb') = HEADER + packet_len'
      BY <1>1, <1>2, <1>3, <1>4, <1>7, EmptyCells
    <3> QED BY <1>1, <1>2, <1>3, <2>1, <3>1, <3>2 DEF Counted
  <2>4. LastBit'
    <3>1. rx_rb # <<>> /\ rx_rb' = rx_rb
      BY <1>1, <1>3, <1>4, EmptyCells
    <3>2. LastOf' = bit
      BY <1>4, <3>1 DEF LastOf
    <3> QED BY <1>1, <1>2, <1>4, <3>2 DEF LastBit, OfCurrent
  <2>5. Where'
    <3>1. Sound => pos = 0
      <4> SUFFICES ASSUME Sound PROVE pos = 0
        OBVIOUS
      <4>1. SYNC + HEADER + frames[Current].len = FrameLen(Current) /\ frames[Current].len \in Nat
        BY <1>2, FrameFacts
      <4>2. pos > 0 => pos < FrameLen(Current)
        BY DEF AirOK
      <4> QED BY <1>2, <1>3, <1>5, <1>7, <4>1, <4>2
    <3> QED BY <1>1, <1>2, <2>1, <3>1 DEF Where
  <2>6. Taken'
    BY <2>1 DEF Taken
  <2>7. Held'
    <3> SUFFICES ASSUME Sound PROVE Held'
      BY <1>2 DEF Held
    <3>1. Len(read') = 0
      BY <1>2, EmptyCells
    <3>2. \A i \in 1 .. Len(rx_rb') : rx_rb'[i] = <<Current, Len(read') + i>>
      BY <1>1, <1>3, <1>4, <1>5, <3>1
    <3> QED BY <1>1, <1>2, <1>5, <3>1, <3>2 DEF Held
  <2> QED BY <1>2, <1>6, <2>2, <2>3, <2>4, <2>5, <2>6, <2>7
<1>8. CASE Received # packet_len + HEADER
  <2>1. state' = "DATA" /\ ~packet_ready' /\ ~Pending'
    BY <1>1, <1>2, <1>3, <1>8 DEF CbPayload, Pending
  <2>2. Turns'
    BY <1>1, <1>2, <1>4, <2>1 DEF Turns
  <2>3. Counted'
    <3>1. EmptyBetweenPackets'
      BY <2>1 DEF EmptyBetweenPackets
    <3>2. bits_received' < HEADER + packet_len' /\ packet_len' \in 1 .. MaxLen
      BY <1>1, <1>3, <1>8
    <3> QED BY <1>1, <1>2, <1>3, <1>4, <2>1, <3>1, <3>2 DEF Counted
  <2>4. LastBit' /\ Held'
    BY <1>1, <2>1 DEF LastBit, Held
  <2>5. Where'
    <3>1. Sound => pos >= SYNC /\ SYNC + bits_received + 1 = pos
      BY <1>3, <1>5, <1>8
    <3>2. SYNC + bits_received' = SYNC + bits_received + 1
      BY <1>1, <1>3
    <3> QED BY <1>1, <1>2, <2>1, <3>1, <3>2 DEF Where
  <2>6. Taken'
    <3> SUFFICES ASSUME Sound PROVE Taken'
      BY <1>2 DEF Taken
    <3>1. scrambler' = bits_received' + 0 /\ ~(bits_received' < HEADER)
      BY <1>1, <1>3, <1>5
    <3>2. packet_len' = frames'[Current'].len /\ flags' = frames'[Current'].kind
      BY <1>1, <1>2, <1>5
    <3>3. \A i \in 1 .. Len(rx_rb') : rx_rb'[i] = <<Current', i>>
      BY <1>1, <1>2, <1>5
    <3> QED BY <1>1, <3>1, <3>2, <3>3 DEF Taken
  <2> QED BY <1>2, <1>6, <2>2, <2>3, <2>4, <2>5, <2>6
<1> QED BY <1>7, <1>8

LEMMA StepCbHeader ==
  ASSUME RxInv, CbHeader
  PROVE  Joint'
<1> USE Sizes DEF RxInv, Joint
<1>1. /\ cpc = "count" /\ cpc' = "idle" /\ Received < HEADER /\ bits_received' = Received
      /\ header' = Shift(header, bit)
      /\ UNCHANGED <<air, state, packet_len, flags, packet_ready, scrambler,
                     correlator, rx_rb, main, outcome>>
  BY DEF CbHeader
<1>2. /\ ~packet_ready /\ mpc = "poll" /\ mpc' = "poll" /\ read' = <<>>
      /\ frames # <<>> /\ frames' = frames /\ pos' = pos /\ pos \in Nat /\ ~stalled'
      /\ (Sound' <=> Sound) /\ Current' = Current /\ FrameLen(Current)' = FrameLen(Current)
      /\ AirOK' /\ Order' /\ Undamaged'
  BY <1>1, BitStep
<1>3. /\ state = "DATA" /\ bits_received \in Nat /\ Received = bits_received + 1
      /\ bits_received + 1 < HEADER
  BY <1>1, BitPlace
<1>4. Len(rx_rb) = bits_received + 1 /\ correlator = SYNC
  BY <1>1, <1>3 DEF Counted, Turns
<1>5. state' = "DATA" /\ ~packet_ready' /\ ~Pending' /\ bits_received' = bits_received + 1
  BY <1>1, <1>2, <1>3 DEF Pending
<1>6. Turns'
  BY <1>1, <1>2, <1>4, <1>5 DEF Turns
<1>7. Counted'
  <2>1. EmptyBetweenPackets'
    BY <1>5 DEF EmptyBetweenPackets
  <2> QED BY <1>1, <1>2, <1>3, <1>4, <1>5, <2>1 DEF Counted
<1>8. LastBit' /\ Held'
  BY <1>1, <1>5 DEF LastBit, Held
<1>9. Where'
  <2>1. Sound => pos >= SYNC /\ SYNC + bits_received + 1 = pos
    <3> SUFFICES ASSUME Sound PROVE pos >= SYNC /\ SYNC + bits_received + 1 = pos
      OBVIOUS
    <3>1. frames[Current].len \in Nat
      BY <1>2, FrameFacts
    <3> QED BY <1>1, <1>3, <3>1, BitPlace
  <2>2. SYNC + bits_received' = SYNC + bits_received + 1
    BY <1>3, <1>5
  <2> QED BY <1>1, <1>2, <1>5, <2>1, <2>2 DEF Where
<1>10. Taken'
  <2> SUFFICES ASSUME Sound PROVE Taken'
    BY <1>2 DEF Taken
  <2>1. /\ scrambler = bits_received + 1 /\ bit = <<Current, scrambler>>
        /\ Len(header) = bits_received /\ \A i \in 1 .. bits_received : header[i] = <<Current, i>>
        /\ \A i \in 1 .. Len(rx_rb) : rx_rb[i] = <<Current, i>>
    BY <1>1, <1>3 DEF Taken
  <2>2. header' = Append(header, bit) /\ header \in Seq(Cell) /\ bit \in Cell
    BY <1>1, <1>3, <2>1 DEF Shift, TypeInv, Shapes
  <2>3. /\ Len(header') = bits_received + 1 /\ header'[bits_received + 1] = bit
        /\ \A i \in 1 .. bits_received : header'[i] = header[i]
    BY <2>1, <2>2, Appended
  <2>4. Len(header') = bits_received' /\ \A i \in 1 .. bits_received' : header'[i] = <<Current', i>>
    BY <1>2, <1>3, <1>5, <2>1, <2>3
  <2>5. scrambler' = bits_received' + 0 /\ bits_received' < HEADER
    BY <1>1, <1>3, <1>5, <2>1
  <2>6. \A i \in 1 .. Len(rx_rb') : rx_rb'[i] = <<Current', i>>
    BY <1>1, <1>2, <2>1
  <2>7. ~(bits_received' >= HEADER)
    BY <1>3, <1>5
  <2> QED BY <1>1, <2>4, <2>5, <2>6, <2>7 DEF Taken
<1> QED BY <1>2, <1>6, <1>7, <1>8, <1>9, <1>10

LEMMA StepCbHeaderDone ==
  ASSUME RxInv, CbHeaderDone
  PROVE  Joint'
<1> USE Sizes DEF RxInv, Joint
<1> DEFINE h == Shift(header, bit)
<1>1. /\ cpc = "count" /\ cpc' \in {"idle", "resetFields"} /\ Received = HEADER
      /\ bits_received' = Received /\ header' = <<>>
      /\ cpc' = "idle" <=> packet_len' \in 1 .. MaxLen
      /\ HeaderOf(h, bit[1]) => packet_len' = frames[bit[1]].len /\ flags' = frames[bit[1]].kind
      /\ UNCHANGED <<air, state, packet_ready, scrambler, correlator, rx_rb, main, outcome>>
  BY DEF CbHeaderDone
<1> HIDE DEF h
<1>2. /\ ~packet_ready /\ mpc = "poll" /\ mpc' = "poll" /\ read' = <<>>
      /\ frames # <<>> /\ frames' = frames /\ pos' = pos /\ pos \in Nat /\ ~stalled'
      /\ (Sound' <=> Sound) /\ Current' = Current /\ FrameLen(Current)' = FrameLen(Current)
      /\ AirOK' /\ Order' /\ Undamaged'
  BY <1>1, BitStep
<1>3. /\ state = "DATA" /\ bits_received \in Nat /\ Received = bits_received + 1
      /\ bits_received + 1 = HEADER
  BY <1>1, BitPlace
<1>4. Len(rx_rb) = HEADER /\ correlator = SYNC
  BY <1>1, <1>3 DEF Counted, Turns
<1>5. state' = "DATA" /\ ~packet_ready' /\ ~Pending' /\ bits_received' = HEADER
  BY <1>1, <1>2, <1>3 DEF Pending
<1>6. Turns'
  BY <1>1, <1>2, <1>4, <1>5 DEF Turns
<1>7. Counted'
  <2>1. EmptyBetweenPackets'
    BY <1>5 DEF EmptyBetweenPackets
  <2>2. cpc' # "resetFields" => packet_len' \in 1 .. MaxLen /\ bits_received' < HEADER + packet_len'
    BY <1>1, <1>5
  <2> QED BY <1>1, <1>2, <1>4, <1>5, <2>1, <2>2 DEF Counted
<1>8. LastBit' /\ Held'
  BY <1>1, <1>5 DEF LastBit, Held
<1>9. ASSUME Sound
      PROVE  /\ packet_len' = frames[Current].len /\ flags' = frames[Current].kind /\ cpc' = "idle"
             /\ scrambler = HEADER /\ \A i \in 1 .. Len(rx_rb) : rx_rb[i] = <<Current, i>>
  <2>1. /\ scrambler = bits_received + 1 /\ bit = <<Current, scrambler>>
        /\ Len(header) = bits_received /\ \A i \in 1 .. bits_received : header[i] = <<Current, i>>
        /\ \A i \in 1 .. Len(rx_rb) : rx_rb[i] = <<Current, i>>
    BY <1>1, <1>3, <1>9 DEF Taken
  <2>2. h = Append(header, bit) /\ header \in Seq(Cell) /\ bit \in Cell
    BY <1>3, <2>1 DEF h, Shift, TypeInv, Shapes
  <2>3. /\ h \in Seq(Cell) /\ Len(h) = HEADER /\ h[bits_received + 1] = bit
        /\ \A i \in 1 .. bits_received : h[i] = header[i]
    BY <1>3, <2>1, <2>2, Appended
  <2>4. \A i \in 1 .. HEADER : h[i] = <<Current, i>>
    BY <1>3, <2>1, <2>3
  <2>5. h = [i \in 1 .. HEADER |-> h[i]]
    BY <2>3
  <2>6. Current > 0 /\ bit[1] = Current
    BY <1>2, <2>1, FrameFacts
  <2>7. HeaderOf(h, Current)
    <3>1. h = [i \in 1 .. HEADER |-> <<Current, i>>]
      BY <2>4, <2>5
    <3> QED BY <2>6, <3>1 DEF HeaderOf
  <2>8. packet_len' = frames[Current].len /\ flags' = frames[Current].kind
    BY <1>1, <2>6, <2>7
  <2>9. cpc' = "idle"
    BY <1>1, <1>2, <2>8, FrameFacts
  <2> QED BY <1>3, <2>1, <2>8, <2>9
<1>10. Where'
  <2>1. Sound => pos >= SYNC /\ SYNC + HEADER = pos
    <3> SUFFICES ASSUME Sound PROVE pos >= SYNC /\ SYNC + HEADER = pos
      OBVIOUS
    <3>1. frames[Current].len \in 1 .. MaxLen
      BY <1>2, FrameFacts
    <3>2. cpc = "count" /\ SYNC + HEADER < FrameLen(Current)
      BY <1>1, <3>1 DEF FrameLen
    <3>3. pos >= SYNC
      BY <1>1, <1>3, <3>1, <3>2, BitPlace
    <3> QED BY <1>1, <1>3, <3>3, BitPlace
  <2>2. SYNC + bits_received' + 0 = SYNC + HEADER
    BY <1>5
  <2> QED BY <1>1, <1>2, <1>5, <1>9, <2>1, <2>2 DEF Where
<1>11. Taken'
  <2> SUFFICES ASSUME Sound PROVE Taken'
    BY <1>2 DEF Taken
  <2>1. scrambler' = bits_received' + 0 /\ ~(bits_received' < HEADER) /\ cpc' = "idle"
    BY <1>1, <1>5, <1>9
  <2>2. packet_len' = frames'[Current'].len /\ flags' = frames'[Current'].kind
    BY <1>2, <1>9
  <2>3. \A i \in 1 .. Len(rx_rb') : rx_rb'[i] = <<Current', i>>
    BY <1>1, <1>2, <1>9
  <2> QED BY <2>1, <2>2, <2>3 DEF Taken
<1> QED BY <1>2, <1>6, <1>7, <1>8, <1>10, <1>11

LEMMA StepCbReset ==
  ASSUME RxInv, CbResetFields \/ CbResetRing
  PROVE  Joint'
<1> USE Sizes DEF RxInv, Joint
<1>1. /\ cpc \in {"resetFields", "resetRing"} /\ state' = "SEARCHING"
      /\ \/ cpc' = "resetRing" /\ correlator' = correlator
         \/ cpc' = "idle" /\ rx_rb' = <<>> /\ correlator' = 0
      /\ UNCHANGED <<air, packet_ready, main, outcome>>
  BY DEF CbResetFields, CbResetRing, Turns
<1>2. /\ ~packet_ready /\ mpc' = "poll" /\ read' = <<>> /\ ~stalled' /\ (Sound' <=> Sound)
      /\ AirOK' /\ Order' /\ Undamaged' /\ pos \in Nat
  BY <1>1, BitStep
<1>3. ~Sound
  BY <1>1, <1>2 DEF Where
<1>4. ~packet_ready' /\ ~Pending'
  BY <1>1, <1>2 DEF Pending
<1>5. Turns'
  BY <1>1, <1>2, <1>4 DEF Turns
<1>6. Counted'
  <2>1. EmptyBetweenPackets'
    BY <1>1 DEF EmptyBetweenPackets
  <2> QED BY <1>1, <1>2, <1>4, <2>1 DEF Counted
<1>7. LastBit' /\ Held' /\ Where' /\ Taken'
  BY <1>1, <1>2, <1>3, <1>4 DEF LastBit, Held, Where, Taken
<1> QED BY <1>2, <1>5, <1>6, <1>7

-----------------------------------------------------------------------------
(* A bit arrives.                                                          *)

\* What the air did: nothing, or it started, continued or damaged a frame.
IdleMove(b)  == pos = 0 /\ pos' = 0 /\ b = Noise /\ frames' = frames /\ (Sound' <=> Sound)
StartMove(b) == /\ pos = 0 /\ pos' = 1 /\ b = <<Current + 1, 1>> /\ Len(frames') = Current + 1
                /\ MainIdle /\ (Sound' => state = "SEARCHING") /\ FrameLen(Current)' > 1
NextMove(b)  == /\ pos > 0 /\ b = <<Current, pos + 1>> /\ frames' = frames /\ (Sound' <=> Sound)
                /\ pos' = IF pos + 1 = FrameLen(Current) THEN 0 ELSE pos + 1
LossMove(b)  == pos > 0 /\ b = Noise /\ frames' = frames /\ ~Sound'

LEMMA AirMoves ==
  ASSUME KeepsUp, RxInv, cpc = "idle", NEW b, Idle(b) \/ Start(b) \/ Continue(b) \/ Damage(b),
         delivered' = delivered, garbage' = garbage
  PROVE  /\ IdleMove(b) \/ StartMove(b) \/ NextMove(b) \/ LossMove(b)
         /\ frames # <<>> => frames' # <<>>
         /\ pos' > 0 => frames' # <<>> /\ pos' < FrameLen(Current)' /\ Current' \notin intact'
         /\ clean' => pos' > 0
         /\ intact' \subseteq 1 .. Current' /\ Out' = Out /\ Out \subseteq 1 .. Current'
         /\ \A g \in intact' : g < Current' => g \in Out
         /\ Undamaged'
<1> USE Sizes DEF RxInv, Joint
<1>1. /\ Current \in Nat /\ pos \in Nat /\ faults \in Nat /\ clean \in BOOLEAN
      /\ Out' = Out /\ Out \subseteq 1 .. Current /\ intact \subseteq 1 .. Current
      /\ pos > 0 => frames # <<>> /\ pos < FrameLen(Current) /\ Current \notin intact
      /\ clean => pos > 0
      /\ \A g \in intact : g < Current => g \in Out
  BY LenProperties DEF TypeInv, Shapes, Current, AirOK, Order, Out
<1>2. CASE Idle(b)
  <2>1. pos = 0 /\ pos' = 0 /\ b = Noise /\ frames' = frames /\ clean' = clean /\ faults' = faults
        /\ intact' = intact
    BY <1>2 DEF Idle
  <2>2. (Sound' <=> Sound) /\ Current' = Current /\ FrameLen(Current)' = FrameLen(Current)
    BY <2>1 DEF Sound, Current, FrameLen
  <2>3. IdleMove(b)
    BY <2>1, <2>2 DEF IdleMove
  <2>4. Undamaged'
    BY <2>1, <2>2 DEF Undamaged
  <2> QED BY <1>1, <2>1, <2>2, <2>3, <2>4
<1>3. CASE Start(b)
  <2>1. /\ pos = 0 /\ pos' = 1 /\ b = <<Current + 1, 1>> /\ intact' = intact /\ faults' = faults
        /\ MainIdle /\ clean' = (state = "SEARCHING" /\ MainIdle)
    BY <1>3 DEF Start, KeepsUp, Current
  <2>2. PICK l \in 1 .. MaxLen, k \in Kinds : frames' = Append(frames, [len |-> l, kind |-> k])
    BY <1>3 DEF Start
  <2>3. /\ Len(frames') = Current + 1 /\ frames' # <<>>
        /\ frames'[Current + 1] = [len |-> l, kind |-> k]
    <3>1. frames \in Seq(Sendable) /\ [len |-> l, kind |-> k] \in Sendable
      BY DEF TypeInv, Shapes, Sendable
    <3> QED BY <2>2, <3>1, AppendProperties DEF Current
  <2>4. Current' = Current + 1 /\ FrameLen(Current)' = SYNC + HEADER + l
    BY <2>3 DEF Current, FrameLen
  <2>5. StartMove(b)
    <3>1. Sound' => state = "SEARCHING"
      <4>1. pos' > 0
        BY <2>1
      <4>2. Sound' => clean'
        BY <4>1 DEF Sound
      <4> QED BY <2>1, <4>2
    <3>2. FrameLen(Current)' > 1
      BY <2>4
    <3> QED BY <2>1, <2>3, <3>1, <3>2 DEF StartMove
  <2>6. intact \subseteq 1 .. Current + 1 /\ Current + 1 \notin intact /\ Out \subseteq 1 .. Current + 1
    BY <1>1
  <2>7. \A g \in intact : g < Current + 1 => g \in Out
    <3>1. Current \in intact => Current \in Out
      <4> SUFFICES ASSUME Current \in intact PROVE Current \in Out
        OBVIOUS
      <4>1. Sound /\ ~Pending
        BY <2>1 DEF Sound, Pending, MainIdle
      <4> QED BY <2>1, <4>1 DEF Where
    <3> TAKE g \in intact
    <3>2. g \in 1 .. Current
      BY <1>1
    <3> QED BY <1>1, <3>1, <3>2
  <2>8. Undamaged'
    <3>1. faults = 0 => state = "SEARCHING"
      <4>1. CASE frames = <<>>
        BY <4>1 DEF AirOK
      <4>2. CASE frames # <<>>
        <5>1. faults = 0 => Sound
          BY <2>1, <4>2 DEF Undamaged, Sound
        <5> QED BY <2>1, <5>1 DEF Where
      <4> QED BY <4>1, <4>2
    <3>2. faults' = 0 => clean' /\ garbage' = 0
      BY <2>1, <3>1 DEF Undamaged
    <3> QED BY <2>1, <3>2 DEF Undamaged
  <2>9. pos' < FrameLen(Current)'
    BY <2>1, <2>4
  <2> QED BY <2>1, <2>3, <2>4, <2>5, <2>6, <2>7, <2>8, <2>9, <1>1
<1>4. CASE Continue(b)
  <2>1. /\ pos > 0 /\ b = <<Current, pos + 1>> /\ frames' = frames /\ faults' = faults
        /\ pos' = IF pos + 1 = FrameLen(Current) THEN 0 ELSE pos + 1
        /\ intact' = IF pos' = 0 /\ clean THEN intact \cup {Current} ELSE intact
        /\ clean' = (clean /\ pos' # 0)
    BY <1>4 DEF Continue, Current
  <2>2. Current' = Current /\ FrameLen(Current)' = FrameLen(Current)
    BY <2>1 DEF Current, FrameLen
  <2>3. /\ Current \notin intact /\ frames # <<>> /\ Current \in 1 .. Current
        /\ pos' \in Nat /\ FrameLen(Current) \in Nat /\ (Sound <=> clean)
    <3>1. frames # <<>> /\ Current \notin intact
      BY <1>1, <2>1
    <3>2. Current \in Nat /\ Current >= 1 /\ FrameLen(Current) \in Nat
      BY <3>1, FrameFacts
    <3> QED BY <1>1, <2>1, <3>1, <3>2 DEF Sound
  <2>4. pos' > 0 => pos' < FrameLen(Current)
    BY <1>1, <2>1, <2>3
  <2>5. CASE pos' = 0
    <3>1. Sound' <=> Sound
      BY <2>1, <2>2, <2>3, <2>5 DEF Sound
    <3>2. NextMove(b)
      BY <2>1, <3>1 DEF NextMove
    <3>3. Undamaged'
      BY <2>1, <2>2, <2>3, <2>5 DEF Undamaged
    <3>4. intact' \subseteq 1 .. Current /\ \A g \in intact' : g < Current => g \in Out
      BY <1>1, <2>1, <2>3
    <3>5. ~clean' /\ ~(pos' > 0)
      <4>1. clean' = (clean /\ pos' # 0)
        BY <2>1
      <4>2. ~clean'
        BY <2>5, <4>1
      <4> QED BY <2>5, <4>2
    <3> QED BY <1>1, <2>1, <2>2, <2>3, <3>2, <3>3, <3>4, <3>5
  <2>6. CASE pos' # 0
    <3>0. pos' > 0
      BY <2>3, <2>6
    <3>1. Sound' <=> Sound
      BY <2>1, <2>3, <2>6, <3>0 DEF Sound
    <3>2. NextMove(b)
      BY <2>1, <3>1 DEF NextMove
    <3>3. Undamaged'
      BY <2>1, <2>2, <2>3, <2>6, <3>0 DEF Undamaged
    <3> QED BY <1>1, <2>1, <2>2, <2>3, <2>4, <2>6, <3>0, <3>2, <3>3
  <2> QED BY <2>5, <2>6
<1>5. CASE Damage(b)
  <2>1. /\ pos > 0 /\ b = Noise /\ frames' = frames /\ faults' = faults + 1
        /\ pos' \in {0, IF pos + 1 = FrameLen(Current) THEN 0 ELSE pos + 1}
        /\ intact' = intact /\ ~clean'
    BY <1>5 DEF Damage, Current
  <2>2. Current' = Current /\ FrameLen(Current)' = FrameLen(Current)
    BY <2>1 DEF Current, FrameLen
  <2>3. Current \notin intact /\ frames # <<>> /\ FrameLen(Current) \in Nat
    <3>1. frames # <<>> /\ Current \notin intact
      BY <1>1, <2>1
    <3> QED BY <3>1, FrameFacts
  <2>4. pos' > 0 => pos' < FrameLen(Current)
    BY <1>1, <2>1, <2>3
  <2>5. ~Sound'
    BY <2>1, <2>2, <2>3 DEF Sound
  <2>6. LossMove(b)
    BY <2>1, <2>5 DEF LossMove
  <2>7. Undamaged'
    BY <1>1, <2>1 DEF Undamaged
  <2> QED BY <1>1, <2>1, <2>2, <2>3, <2>4, <2>6, <2>7
<1> QED BY <1>2, <1>3, <1>4, <1>5

\* Every move, and what a sync word needs of it.
LEMMA MoveFacts ==
  ASSUME RxInv, NEW b, IdleMove(b) \/ StartMove(b) \/ NextMove(b) \/ LossMove(b)
  PROVE  /\ Current \in Nat /\ pos \in Nat /\ correlator \in Nat
         /\ StartMove(b) => Current' = Current + 1 /\ ~packet_ready /\ mpc = "poll"
         /\ ~StartMove(b) => frames' = frames /\ Current' = Current
                             /\ FrameLen(Current)' = FrameLen(Current)
         /\ b = Noise => Correlate(b) = 0
         /\ StartMove(b) => Correlate(b) = 1
         /\ packet_ready => Correlate(b) = 0
         /\ NextMove(b) /\ correlator = pos /\ pos < SYNC => Correlate(b) = pos + 1 /\ pos' = pos + 1
         /\ b[1] > 0 => b[1] = Current' /\ (b[2] = FrameLen(Current)' => pos' = 0)
<1> USE Sizes DEF RxInv, Joint
<1>1. Current \in Nat /\ pos \in Nat /\ correlator \in Nat
  BY LenProperties DEF TypeInv, TypeOK, Shapes, Current
<1>2. StartMove(b) => Current' = Current + 1 /\ ~packet_ready /\ mpc = "poll"
  BY DEF StartMove, MainIdle, Current
<1>3. ~StartMove(b) => frames' = frames /\ Current' = Current /\ FrameLen(Current)' = FrameLen(Current)
  BY DEF IdleMove, NextMove, LossMove, Current, FrameLen
<1>4. b = Noise => Correlate(b) = 0
  BY DEF Correlate, Noise
<1>5. StartMove(b) => Correlate(b) = 1
  BY <1>1 DEF StartMove, Correlate
<1>6. NextMove(b) /\ (correlator = 0 \/ correlator = SYNC) => Correlate(b) = 0
  BY <1>1 DEF NextMove, Correlate
<1>7. packet_ready => Correlate(b) = 0
  <2>1. packet_ready => correlator = 0 \/ correlator = SYNC
    BY DEF Turns
  <2> QED BY <1>2, <1>4, <1>6, <2>1 DEF IdleMove, LossMove
<1>8. ASSUME NextMove(b)
      PROVE  /\ frames # <<>> /\ Current >= 1 /\ FrameLen(Current) \in Nat /\ FrameLen(Current) > SYNC
             /\ pos < FrameLen(Current)
  <2>1. frames # <<>> /\ pos < FrameLen(Current)
    BY <1>8 DEF NextMove, AirOK
  <2>2. /\ Current >= 1 /\ frames[Current].len \in 1 .. MaxLen
        /\ FrameLen(Current) = SYNC + HEADER + frames[Current].len
    BY <2>1, FrameFacts
  <2> QED BY <2>1, <2>2
<1>9. ASSUME NextMove(b), correlator = pos, pos < SYNC
      PROVE  Correlate(b) = pos + 1 /\ pos' = pos + 1
  BY <1>1, <1>8, <1>9 DEF NextMove, Correlate
<1>10. ASSUME b[1] > 0
       PROVE  b[1] = Current' /\ (b[2] = FrameLen(Current)' => pos' = 0)
  <2>1. CASE StartMove(b)
    <3>1. b = <<Current', 1>> /\ Len(frames') = Current'
      BY <1>2, <2>1 DEF StartMove
    <3>2. FrameLen(Current)' > 1
      BY <2>1 DEF StartMove
    <3> QED BY <3>1, <3>2
  <2>2. CASE NextMove(b)
    BY <1>1, <1>3, <1>8, <2>2 DEF NextMove, StartMove
  <2>3. CASE b = Noise
    BY <1>10, <2>3 DEF Noise
  <2> QED BY <2>1, <2>2, <2>3 DEF IdleMove, LossMove
<1> QED BY <1>1, <1>2, <1>3, <1>4, <1>5, <1>7, <1>9, <1>10

\* The parts that depend only on the air and on cpc, state and Pending.
LEMMA StepSearch ==
  ASSUME KeepsUp, RxInv, CbBit, NEW b, Search(b),
         IdleMove(b) \/ StartMove(b) \/ NextMove(b) \/ LossMove(b), AirOK', Undamaged',
         Out' = Out, \A g \in intact' : g < Current' => g \in Out
  PROVE  Joint'
<1> USE Sizes DEF RxInv, Joint
<1>1. /\ cpc = "idle" /\ state = "SEARCHING" /\ Correlate(b) < SYNC
      /\ correlator' = Correlate(b) /\ stalled' = FALSE
      /\ UNCHANGED <<state, bits_received, packet_len, header, flags, packet_ready,
                     scrambler, rx_rb, callback, main>>
  BY DEF CbBit, Search
<1>2. /\ mpc' = mpc /\ len' = len /\ read' = read /\ cpc' = "idle" /\ bit' = bit
      /\ (Pending' <=> Pending) /\ (Pending => packet_ready) /\ LastOf' = LastOf
  BY <1>1 DEF main, callback, Pending, LastOf
<1>3. /\ Current \in Nat /\ pos \in Nat /\ correlator \in Nat
      /\ StartMove(b) => Current' = Current + 1 /\ ~packet_ready /\ mpc = "poll"
      /\ ~StartMove(b) => frames' = frames /\ Current' = Current
                          /\ FrameLen(Current)' = FrameLen(Current)
      /\ b = Noise => Correlate(b) = 0
      /\ StartMove(b) => Correlate(b) = 1
      /\ packet_ready => Correlate(b) = 0
      /\ NextMove(b) /\ correlator = pos /\ pos < SYNC => Correlate(b) = pos + 1 /\ pos' = pos + 1
  BY MoveFacts
<1>4. Turns'
  BY <1>1, <1>2, <1>3 DEF Turns
<1>5. Counted'
  BY <1>1, <1>2 DEF Counted, EmptyBetweenPackets, MainIdle
<1>6. LastBit'
  <2> SUFFICES ASSUME Pending PROVE OfCurrent(LastOf[1], SYNC + LastOf[2])'
    BY <1>2 DEF LastBit
  <2>1. ~StartMove(b)
    BY <1>2, <1>3
  <2>2. OfCurrent(LastOf[1], SYNC + LastOf[2])
    BY DEF LastBit
  <2>3. pos = 0 => pos' = 0
    BY <2>1 DEF IdleMove, NextMove, LossMove
  <2> QED BY <1>2, <1>3, <2>1, <2>2, <2>3 DEF OfCurrent
<1>7. Where'
  <2>1. CASE IdleMove(b)
    <3>1. pos = 0 /\ pos' = 0 /\ (Sound' <=> Sound)
      BY <2>1 DEF IdleMove
    <3>2. Current' = Current
      BY <2>1, <1>3 DEF IdleMove, StartMove
    <3>3. Sound => Pending \/ Current \in Out
      BY <1>1, <3>1 DEF Where
    <3> QED BY <1>1, <1>2, <3>1, <3>2, <3>3 DEF Where
  <2>2. CASE StartMove(b)
    <3>1. pos' = 1 /\ correlator' = 1 /\ SYNC > 1 /\ ~packet_ready'
      BY <1>1, <1>3, <2>2 DEF StartMove
    <3> QED BY <1>1, <1>2, <3>1 DEF Where
  <2>3. CASE NextMove(b)
    <3> SUFFICES ASSUME Sound PROVE Where'
      BY <2>3 DEF NextMove, Where
    <3>1. pos > 0 /\ ~(pos >= SYNC) /\ pos \in 1 .. SYNC - 1
      BY <1>1, <1>3, <2>3 DEF NextMove, Where
    <3>2. correlator = pos /\ ~packet_ready
      BY <3>1 DEF Where
    <3>3. correlator' = pos + 1 /\ pos' = pos + 1 /\ pos + 1 < SYNC
      BY <1>1, <1>3, <2>3, <3>1, <3>2
    <3> QED BY <1>1, <1>2, <1>3, <3>2, <3>3 DEF Where
  <2>4. CASE LossMove(b)
    BY <2>4 DEF LossMove, Where
  <2> QED BY <2>1, <2>2, <2>3, <2>4
<1>8. Taken'
  BY <1>1 DEF Taken
<1>9. Held'
  <2> SUFFICES ASSUME Sound', Pending PROVE Held'
    BY <1>2 DEF Held
  <2>1. ~StartMove(b)
    BY <1>2, <1>3
  <2>2. Sound
    BY <2>1 DEF IdleMove, NextMove, LossMove
  <2> QED BY <1>1, <1>2, <1>3, <2>1, <2>2 DEF Held
<1>10. Order'
  <2>1. Current' \in Out => pos' = 0 /\ ~Pending
    <3>1. CASE StartMove(b)
      <4>1. Out \subseteq 1 .. Current
        BY DEF AirOK
      <4> QED BY <1>3, <3>1, <4>1
    <3>2. CASE ~StartMove(b)
      <4>1. Current \in Out => pos = 0 /\ ~Pending
        BY DEF Order
      <4>2. pos = 0 => pos' = 0
        BY <3>2 DEF IdleMove, NextMove, LossMove
      <4> QED BY <1>3, <3>2, <4>1, <4>2
    <3> QED BY <3>1, <3>2
  <2> QED BY <1>1, <1>2, <2>1 DEF Order
<1> QED BY <1>4, <1>5, <1>6, <1>7, <1>8, <1>9, <1>10

LEMMA StepSyncFound ==
  ASSUME KeepsUp, RxInv, CbBit, NEW b, SyncFound(b),
         IdleMove(b) \/ StartMove(b) \/ NextMove(b) \/ LossMove(b), AirOK', Undamaged',
         Out' = Out, \A g \in intact' : g < Current' => g \in Out
  PROVE  Joint'
<1> USE Sizes DEF RxInv, Joint
<1>1. /\ cpc = "idle" /\ state = "SEARCHING" /\ Correlate(b) = SYNC /\ stalled' = FALSE
      /\ state' = "DATA" /\ bits_received' = 0 /\ header' = <<>> /\ scrambler' = 0
      /\ correlator' = SYNC
      /\ UNCHANGED <<flags, packet_ready, rx_rb, callback, main>>
  BY DEF CbBit, SyncFound
<1>2. /\ Current \in Nat /\ pos \in Nat /\ correlator \in Nat
      /\ StartMove(b) => Current' = Current + 1
      /\ ~StartMove(b) => Current' = Current
      /\ b = Noise => Correlate(b) = 0
      /\ StartMove(b) => Correlate(b) = 1
      /\ packet_ready => Correlate(b) = 0
      /\ NextMove(b) /\ correlator = pos /\ pos < SYNC => Correlate(b) = pos + 1 /\ pos' = pos + 1
  BY MoveFacts
<1>3. ~packet_ready /\ mpc = "poll" /\ rx_rb = <<>> /\ read = <<>>
  <2>1. ~packet_ready /\ mpc = "poll"
    BY <1>1, <1>2 DEF Turns
  <2> QED BY <1>1, <2>1 DEF Counted, EmptyBetweenPackets, MainIdle
<1>4. /\ ~packet_ready' /\ mpc' = "poll" /\ cpc' = "idle" /\ rx_rb' = <<>> /\ read' = <<>>
      /\ ~Pending' /\ Len(rx_rb') = 0 /\ Len(header') = 0
  BY <1>1, <1>3, EmptyCells DEF main, callback, Pending
<1>5. StartMove(b) \/ NextMove(b)
  BY <1>1, <1>2 DEF IdleMove, LossMove
<1>6. Turns'
  BY <1>1, <1>4 DEF Turns
<1>7. Counted'
  BY <1>1, <1>4 DEF Counted, EmptyBetweenPackets
<1>8. LastBit' /\ Held'
  BY <1>4 DEF LastBit, Held
<1>9. Sound' => pos' = SYNC
  <2>1. CASE StartMove(b)
    BY <1>1, <1>2, <2>1 DEF StartMove
  <2>2. CASE NextMove(b)
    <3> SUFFICES ASSUME Sound PROVE pos' = SYNC
      BY <2>2 DEF NextMove
    <3>1. pos > 0 /\ ~(pos >= SYNC) /\ pos \in 1 .. SYNC - 1
      BY <1>1, <1>2, <2>2 DEF NextMove, Where
    <3>2. correlator = pos
      BY <3>1 DEF Where
    <3> QED BY <1>1, <1>2, <2>2, <3>1, <3>2
  <2> QED BY <1>5, <2>1, <2>2
<1>10. Where'
  BY <1>1, <1>4, <1>9 DEF Where
<1>11. Taken'
  BY <1>1, <1>4 DEF Taken
<1>12. Order'
  <2>1. Current' \notin Out
    <3>1. CASE StartMove(b)
      <4>1. Out \subseteq 1 .. Current
        BY DEF AirOK
      <4> QED BY <1>2, <3>1, <4>1
    <3>2. CASE NextMove(b) /\ ~StartMove(b)
      BY <1>2, <3>2 DEF Order, NextMove
    <3> QED BY <1>5, <3>1, <3>2
  <2> QED BY <2>1 DEF Order
<1> QED BY <1>6, <1>7, <1>8, <1>10, <1>11, <1>12

LEMMA StepData ==
  ASSUME KeepsUp, RxInv, CbBit, NEW b, Data(b),
         IdleMove(b) \/ StartMove(b) \/ NextMove(b) \/ LossMove(b), AirOK', Undamaged',
         Out' = Out, \A g \in intact' : g < Current' => g \in Out
  PROVE  Joint'
<1> USE Sizes DEF RxInv, Joint
<1>1. /\ cpc = "idle" /\ cpc' = "put" /\ state = "DATA" /\ stalled' = FALSE /\ bit' = b
      /\ UNCHANGED rx /\ UNCHANGED main
  BY DEF CbBit, Data
<1>2. /\ Current \in Nat /\ pos \in Nat
      /\ StartMove(b) => Current' = Current + 1
      /\ ~StartMove(b) => frames' = frames /\ Current' = Current
                          /\ FrameLen(Current)' = FrameLen(Current)
      /\ b[1] > 0 => b[1] = Current' /\ (b[2] = FrameLen(Current)' => pos' = 0)
  BY MoveFacts
<1>3. ~packet_ready /\ mpc = "poll" /\ read = <<>>
  BY <1>1 DEF Turns, Counted
<1>4. /\ ~packet_ready' /\ mpc' = "poll" /\ read' = <<>> /\ ~Pending' /\ state' = "DATA"
      /\ bits_received' = bits_received /\ packet_len' = packet_len /\ header' = header
      /\ flags' = flags /\ scrambler' = scrambler /\ correlator' = correlator /\ rx_rb' = rx_rb
  BY <1>1, <1>3 DEF rx, main, Pending
<1>5. Turns'
  BY <1>1, <1>4 DEF Turns
<1>6. Counted'
  BY <1>1, <1>4 DEF Counted, EmptyBetweenPackets
<1>7. LastBit'
  BY <1>1, <1>2, <1>4 DEF LastBit, OfCurrent
<1>8. ASSUME Sound'
      PROVE  /\ Sound /\ NextMove(b) /\ ~StartMove(b) /\ pos >= SYNC /\ SYNC + bits_received = pos
             /\ frames # <<>>
  <2>1. ~StartMove(b)
    BY <1>1, <1>8 DEF StartMove
  <2>2. Sound
    BY <1>8, <2>1 DEF IdleMove, NextMove, LossMove
  <2>3. ~(pos = 0)
    BY <1>1, <2>2 DEF Where
  <2>4. NextMove(b)
    BY <1>8, <2>1, <2>3 DEF IdleMove, LossMove
  <2>5. pos >= SYNC
    BY <1>1, <1>2, <2>2, <2>3 DEF Where
  <2>6. SYNC + bits_received + 0 = pos
    BY <1>1, <2>2, <2>5 DEF Where
  <2>7. bits_received \in Nat
    BY DEF TypeInv, TypeOK
  <2>8. frames # <<>>
    BY <1>1 DEF AirOK
  <2> QED BY <2>1, <2>2, <2>4, <2>5, <2>6, <2>7, <2>8
<1>9. Where'
  <2> SUFFICES ASSUME Sound' PROVE Where'
    BY DEF Where
  <2>1. /\ pos >= SYNC /\ SYNC + bits_received = pos /\ frames' = frames /\ Current' = Current
        /\ pos' = IF pos + 1 = FrameLen(Current) THEN 0 ELSE pos + 1
    BY <1>2, <1>8 DEF NextMove
  <2>2. FrameLen(Current) = SYNC + HEADER + frames[Current].len /\ frames[Current].len \in 1 .. MaxLen
    BY <1>8, FrameFacts
  <2>3. bits_received \in Nat
    BY DEF TypeInv, TypeOK
  <2>4. CASE pos + 1 = FrameLen(Current)
    <3>1. pos' = 0 /\ bits_received + 1 = HEADER + frames[Current].len
      BY <2>1, <2>2, <2>3, <2>4
    <3> QED BY <1>1, <1>4, <2>1, <3>1 DEF Where
  <2>5. CASE pos + 1 # FrameLen(Current)
    <3>1. pos' = pos + 1 /\ SYNC + bits_received + 1 = pos' /\ pos' # 0 /\ ~(pos' \in 1 .. SYNC - 1)
      BY <1>2, <2>1, <2>3, <2>5
    <3> QED BY <1>1, <1>4, <3>1 DEF Where
  <2> QED BY <2>4, <2>5
<1>10. Taken'
  <2> SUFFICES ASSUME Sound' PROVE Taken'
    BY DEF Taken
  <2>1. frames' = frames /\ Current' = Current /\ b = <<Current, pos + 1>>
    BY <1>2, <1>8 DEF NextMove
  <2>2. /\ scrambler = bits_received + 0
        /\ bits_received < HEADER =>
             Len(header) = bits_received /\ \A i \in 1 .. bits_received : header[i] = <<Current, i>>
        /\ bits_received >= HEADER =>
             packet_len = frames[Current].len /\ flags = frames[Current].kind
        /\ \A i \in 1 .. Len(rx_rb) : rx_rb[i] = <<Current, i>>
    BY <1>1, <1>8 DEF Taken
  <2>3. b = <<Current, SYNC + scrambler + 1>>
    <3>1. bits_received \in Nat
      BY DEF TypeInv, TypeOK
    <3> QED BY <1>8, <2>1, <2>2, <3>1
  <2> QED BY <1>1, <1>4, <2>1, <2>2, <2>3 DEF Taken
<1>11. Order' /\ Held'
  <2>1. Current' \notin Out
    <3>1. CASE StartMove(b)
      <4>1. Out \subseteq 1 .. Current
        BY DEF AirOK
      <4> QED BY <1>2, <3>1, <4>1
    <3>2. CASE ~StartMove(b)
      BY <1>1, <1>2, <3>2 DEF Order
    <3> QED BY <3>1, <3>2
  <2> QED BY <1>4, <2>1 DEF Order, Held
<1> QED BY <1>5, <1>6, <1>7, <1>9, <1>10, <1>11

LEMMA StepCbBit ==
  ASSUME KeepsUp, RxInv, CbBit
  PROVE  Joint'
<1> USE Sizes DEF RxInv, Joint
<1>1. PICK b \in {Noise, <<Len(frames), pos + 1>>, <<Len(frames) + 1, 1>>} :
        /\ Idle(b) \/ Start(b) \/ Continue(b) \/ Damage(b)
        /\ Search(b) \/ SyncFound(b) \/ Timeout(b) \/ Data(b)
  BY DEF CbBit
<1>2. /\ cpc = "idle" /\ ~stalled /\ delivered' = delivered /\ garbage' = garbage
      /\ UNCHANGED <<mpc, len, read>>
  BY DEF CbBit, Turns, main
<1>3. /\ IdleMove(b) \/ StartMove(b) \/ NextMove(b) \/ LossMove(b)
      /\ frames # <<>> => frames' # <<>>
      /\ pos' > 0 => frames' # <<>> /\ pos' < FrameLen(Current)' /\ Current' \notin intact'
      /\ clean' => pos' > 0
      /\ intact' \subseteq 1 .. Current' /\ Out' = Out /\ Out \subseteq 1 .. Current'
      /\ \A g \in intact' : g < Current' => g \in Out
      /\ Undamaged'
  BY <1>1, <1>2, AirMoves
<1>4. ASSUME frames' = <<>> => state' = "SEARCHING" /\ cpc' = "idle" /\ ~packet_ready'
      PROVE  AirOK'
  BY <1>3, <1>4 DEF AirOK
<1>5. CASE Search(b)
  <2>1. state' = state /\ cpc' = cpc /\ packet_ready' = packet_ready
    BY <1>5 DEF Search, callback
  <2>2. AirOK'
    <3>1. frames' = <<>> => state = "SEARCHING" /\ cpc = "idle" /\ ~packet_ready
      BY <1>3 DEF AirOK
    <3> QED BY <1>4, <2>1, <3>1
  <2> QED BY <1>3, <1>5, <2>2, StepSearch
<1>6. CASE SyncFound(b)
  <2>1. b # Noise
    <3>1. b = Noise => Correlate(b) = 0
      BY <1>3, MoveFacts
    <3> QED BY <1>6, <3>1 DEF SyncFound
  <2>2. frames' # <<>>
    <3>1. CASE StartMove(b)
      <4>1. Len(frames') = Current + 1 /\ Current \in Nat
        BY <1>3, <3>1, MoveFacts DEF StartMove
      <4>2. Len(frames') # 0
        BY <4>1
      <4> QED BY <4>2, EmptyCells
    <3>2. CASE NextMove(b)
      BY <1>3, <3>2 DEF NextMove, AirOK
    <3> QED BY <1>3, <2>1, <3>1, <3>2 DEF IdleMove, LossMove
  <2>3. AirOK'
    BY <1>4, <2>2
  <2> QED BY <1>3, <1>6, <2>3, StepSyncFound
<1>7. CASE Timeout(b)
  BY <1>2, <1>7 DEF Timeout
<1>8. CASE Data(b)
  <2>1. frames # <<>>
    BY <1>8 DEF Data, AirOK
  <2>2. AirOK'
    BY <1>3, <1>4, <2>1
  <2> QED BY <1>3, <1>8, <2>2, StepData
<1> QED BY <1>1, <1>5, <1>6, <1>7, <1>8

-----------------------------------------------------------------------------
(* The theorems.                                                           *)

LEMMA JointInit == Init => Joint
<1> SUFFICES ASSUME Init PROVE Joint
  OBVIOUS
<1> USE Sizes, EmptyCells DEF Init
<1>1. /\ ~Pending /\ Current = 0 /\ intact = {} /\ Out = {} /\ read = <<>> /\ rx_rb = <<>>
  <2>1. DOMAIN <<>> = {}
    OBVIOUS
  <2> QED BY <2>1 DEF Pending, Current, Out
<1>2. ~Sound
  BY <1>1 DEF Sound
<1>3. Turns
  BY DEF Turns
<1>4. Counted
  BY <1>1 DEF Counted, EmptyBetweenPackets
<1>5. AirOK
  BY <1>1 DEF AirOK
<1>6. LastBit /\ Where /\ Taken /\ Held
  BY <1>1, <1>2 DEF LastBit, Where, Taken, Held
<1>7. Order /\ Undamaged
  BY <1>1 DEF Order, Undamaged
<1> QED BY <1>3, <1>4, <1>5, <1>6, <1>7 DEF Joint

LEMMA JointStep == KeepsUp /\ RxInv /\ [Next]_vars => Joint'
<1> SUFFICES ASSUME KeepsUp, RxInv, [Next]_vars PROVE Joint'
  OBVIOUS
<1>1. CASE Callback
  BY <1>1, StepCbBit, StepCbPut, StepCbPayload, StepCbHeader, StepCbHeaderDone, StepCbReset DEF Callback
<1>2. CASE Main
  BY <1>2, StepMPoll, StepMGet, StepMDecode, StepMReset DEF Main
<1>3. CASE Stall
  <2>1. stalls \in 0 .. MaxStalls /\ stalls < MaxStalls
    BY <1>3 DEF RxInv, TypeInv, Shapes, Stall
  <2> QED BY <2>1 DEF KeepsUp
<1>4. CASE UNCHANGED vars
  <2> USE <1>4 DEF vars, air, rx, callback, main, outcome, RxInv, Joint
  <2>1. Turns' /\ Counted' /\ AirOK'
    BY DEF Turns, Counted, AirOK, EmptyBetweenPackets, MainIdle, Pending, Current, Out, FrameLen
  <2>2. (Sound' <=> Sound) /\ Current' = Current /\ (Pending' <=> Pending) /\ Out' = Out /\ LastOf' = LastOf
        /\ FrameLen(Current)' = FrameLen(Current)
    BY DEF Sound, Current, Pending, Out, LastOf, FrameLen
  <2>3. LastBit' /\ Where' /\ Taken' /\ Held'
    BY <2>2 DEF LastBit, Where, Taken, Held, OfCurrent
  <2>4. Order' /\ Undamaged'
    BY <2>2 DEF Order, Undamaged
  <2> QED BY <2>1, <2>3, <2>4
<1> QED BY <1>1, <1>2, <1>3, <1>4 DEF Next

LEMMA RxInvariant == KeepsUp => (Spec => []RxInv)
<1> SUFFICES ASSUME KeepsUp PROVE Spec => []RxInv
  OBVIOUS
<1>1. Init => RxInv
  BY TypeInit, JointInit DEF RxInv
<1>2. RxInv /\ [Next]_vars => RxInv'
  BY TypeStep, JointStep DEF RxInv
<1> QED BY <1>1, <1>2, PTL DEF Spec

\* While main keeps up, no bit of one packet is left in rx_rb when main turns to
\* the next, whatever is lost or damaged on the air.
THEOREM RingEmptyBetween == KeepsUp => (Spec => []EmptyBetweenPackets)
<1> SUFFICES ASSUME KeepsUp PROVE Spec => []EmptyBetweenPackets
  OBVIOUS
<1>1. RxInv => EmptyBetweenPackets
  BY DEF RxInv, Joint, Counted
<1> QED BY <1>1, RxInvariant, PTL

\* A frame sent with no fault so far is sound when main decodes it.
LEMMA UndamagedIsSound ==
  ASSUME RxInv, mpc = "decode", faults = 0
  PROVE  Sound
<1> USE DEF RxInv, Joint
<1>1. frames # <<>> /\ pos \in Nat
  BY MainBusy DEF Turns, TypeInv, Shapes
<1>2. CASE pos > 0
  BY <1>2 DEF Undamaged, Sound
<1>3. CASE ~(pos > 0)
  <2>1. pos = 0
    BY <1>1, <1>3
  <2> QED BY <1>1, <1>3, <2>1 DEF Undamaged, Sound
<1> QED BY <1>2, <1>3

\* While main keeps up and nothing is damaged, what main decodes is one frame the
\* peer sent, all of it and nothing else.
THEOREM WholePackets == KeepsUp => (Spec => []ReadsWholePacket)
<1> SUFFICES ASSUME KeepsUp PROVE Spec => []ReadsWholePacket
  OBVIOUS
<1>1. RxInv => ReadsWholePacket
  <2> SUFFICES ASSUME RxInv, mpc = "decode", faults = 0
               PROVE  \E f \in DOMAIN frames :
                        read = [i \in 1 .. HEADER + frames[f].len |-> <<f, i>>]
    BY DEF ReadsWholePacket
  <2>1. Sound
    BY UndamagedIsSound
  <2>2. /\ Len(read) = HEADER + len /\ Good(Current)
        /\ \A i \in 1 .. Len(read) : read[i] = <<Current, i>>
    BY <2>1, DecodeFacts
  <2>3. len = frames[Current].len
    BY <2>2 DEF Good
  <2>4. read \in Seq(Cell)
    BY DEF RxInv, TypeInv, Shapes
  <2>5. read = [i \in 1 .. Len(read) |-> read[i]]
    BY <2>4, LenProperties
  <2>6. read = [i \in 1 .. HEADER + frames[Current].len |-> <<Current, i>>]
    BY <2>2, <2>3, <2>5
  <2>7. Current \in DOMAIN frames
    <3>1. frames # <<>>
      BY MainBusy DEF RxInv, Joint, Turns
    <3>2. Current \in Nat /\ Current >= 1 /\ Current = Len(frames)
      BY <3>1, FrameFacts DEF RxInv, Current
    <3> QED BY <3>2, LenProperties DEF RxInv, TypeInv, Shapes
  <2> QED BY <2>6, <2>7
<1> QED BY <1>1, RxInvariant, PTL

\* While main keeps up, the only packets that do not decode are those in which the
\* air did damage: the two threads never make one themselves.
THEOREM NoGarbage == KeepsUp => (Spec => []GarbageOnlyFromDamage)
<1> SUFFICES ASSUME KeepsUp PROVE Spec => []GarbageOnlyFromDamage
  OBVIOUS
<1>1. RxInv => GarbageOnlyFromDamage
  <2> SUFFICES ASSUME RxInv, garbage > 0 PROVE faults > 0
    BY DEF GarbageOnlyFromDamage
  <2>1. faults \in Nat /\ faults # 0
    BY DEF RxInv, Joint, Undamaged, TypeInv, Shapes
  <2> QED BY <2>1
<1> QED BY <1>1, RxInvariant, PTL

\* While main keeps up, the receive path is the link of FrameLink: every step of
\* either thread or of the air sends a frame, completes one, hands an intact one
\* to the TUN device once and in order, or changes nothing the link knows of.
THEOREM LinkSafety ==
  KeepsUp => (Spec => Link!Init /\ [][Link!Next]_<<Len(frames), intact, delivered>>)
<1> SUFFICES ASSUME KeepsUp
             PROVE  Spec => Link!Init /\ [][Link!Next]_<<Len(frames), intact, delivered>>
  OBVIOUS
<1>1. Init => Link!Init
  BY EmptyCells DEF Init, Link!Init
<1>2. RxInv /\ [Next]_vars => [Link!Next]_<<Len(frames), intact, delivered>>
  <2> SUFFICES ASSUME RxInv, [Next]_vars
               PROVE  Link!Next \/ UNCHANGED <<Len(frames), intact, delivered>>
    OBVIOUS
  <2> USE DEF RxInv, Joint
  <2>1. CASE CbBit
    <3>1. PICK b : Idle(b) \/ Start(b) \/ Continue(b) \/ Damage(b)
      BY <2>1 DEF CbBit
    <3>2. delivered' = delivered
      BY <2>1 DEF CbBit
    <3>3. CASE Start(b)
      <4>1. PICK e \in Sendable : frames' = Append(frames, e)
        BY <3>3 DEF Start, Sendable
      <4>2. Len(frames') = Len(frames) + 1
        BY <4>1, AppendProperties DEF TypeInv, Shapes
      <4>3. intact' = intact
        BY <3>3 DEF Start
      <4> QED BY <3>2, <4>2, <4>3 DEF Link!Next, Link!Send
    <3>4. CASE Continue(b)
      BY <3>2, <3>4 DEF Continue, Link!Next, Link!Arrive
    <3>5. CASE Idle(b) \/ Damage(b)
      BY <3>2, <3>5 DEF Idle, Damage
    <3> QED BY <3>1, <3>3, <3>4, <3>5
  <2>2. CASE MDecode
    <3> DEFINE f == read[Len(read)][1]
    <3>1. /\ Len(read) > HEADER /\ Current \notin Out
          /\ Good(f) => f = Current /\ f \in Nat
      BY <2>2, DecodeFacts DEF MDecode
    <3>2. /\ \/ Good(f) /\ delivered' = Append(delivered, f)
             \/ delivered' = delivered
          /\ frames' = frames /\ intact' = intact
      <4>1. (IF Len(read) > HEADER THEN read[Len(read)][1] ELSE 0) = f
        BY <3>1
      <4> QED BY <2>2, <4>1 DEF MDecode, Good, air
    <3> HIDE DEF f
    <3>3. CASE Good(f) /\ delivered' = Append(delivered, f)
      <4>1. f = Current /\ f \in Nat /\ f > 0 /\ f \in 1 .. Len(frames)
        BY <3>1, <3>3 DEF Good, Current
      <4>2. \A g \in Out : g < f
        BY <3>1, <4>1 DEF AirOK
      <4>3. \A g \in intact : g < f => g \in Out
        BY <4>1 DEF Order
      <4>4. Link!Out = Out
        BY DEF Link!Out, Out
      <4>5. Link!Deliver(f)
        BY <3>2, <3>3, <4>2, <4>3, <4>4 DEF Link!Deliver
      <4> QED BY <4>1, <4>5 DEF Link!Next
    <3> QED BY <3>2, <3>3
  <2>3. CASE Callback /\ ~CbBit
    BY <2>3 DEF Callback, CbPut, CbPayload, CbHeader, CbHeaderDone, CbResetFields, CbResetRing,
                air, outcome
  <2>4. CASE Main /\ ~MDecode
    BY <2>4 DEF Main, MPoll, MLoadLen, MGetHeader, MGetPayload, MGet, MCheckLen, MResetState,
                MResetBits, MResetLen, MResetHeader, MResetRing, MResetScrambler,
                MResetCorrelator, MStore, MClearReady, air, outcome
  <2>5. CASE Stall \/ UNCHANGED vars
    BY <2>5 DEF Stall, vars, air, outcome
  <2> QED BY <2>1, <2>2, <2>3, <2>4, <2>5 DEF Next
<1> QED BY <1>1, <1>2, RxInvariant, PTL DEF Spec

-----------------------------------------------------------------------------
(* However far main falls behind.                                          *)

\* Frames come out in the order they were sent and none twice, however slow main
\* is, whatever it loses and whatever its resets cut short.
DeliveredInOrder ==
  /\ Out \subseteq 1 .. Current
  /\ \A i, j \in DOMAIN delivered : i < j => delivered[i] < delivered[j]

\* The bits that main has or will have.
Cells == {read[i] : i \in 1 .. Len(read)} \cup {rx_rb[i] : i \in 1 .. Len(rx_rb)}

\* Of two bits that are no junk the first was sent before the second.
Before(c, d) == c[1] > 0 /\ d[1] > 0 => c[1] < d[1] \/ (c[1] = d[1] /\ c[2] < d[2])

Sorted(s) == \A i, j \in 1 .. Len(s) : i < j => Before(s[i], s[j])

\* The bits read and those still in rx_rb are in the order they were sent.
Queued ==
  /\ Sorted(read) /\ Sorted(rx_rb)
  /\ \A i \in 1 .. Len(read), j \in 1 .. Len(rx_rb) : Before(read[i], rx_rb[j])

\* A bit of a frame that was sent, and has passed, and is not out yet.
Placed(c) == c[1] > 0 =>
  /\ c[1] \in 1 .. Current /\ c[2] \in 1 .. HEADER + frames[c[1]].len
  /\ c[1] = Current /\ pos > 0 => SYNC + c[2] <= pos
  /\ \A g \in Out : g < c[1]

\* The bit that the callback is about to put is newer than all of these.
Coming ==
  cpc = "put" /\ bit[1] > 0 =>
    /\ bit[1] = Current /\ Current \in Nat /\ Current >= 1 /\ Current \notin Out
    /\ bit[2] <= FrameLen(Current) /\ pos \in {0, bit[2]}
    /\ \A c \in Cells : c[1] = Current => SYNC + c[2] < bit[2]

\* A frame comes out with its last bit, so none of its bits is yet to come.
OrderInv ==
  /\ Queued /\ \A c \in Cells : Placed(c)
  /\ Coming
  /\ pos > 0 => Current >= 1 /\ pos < FrameLen(Current)
  /\ \A g \in Out : g \in 1 .. Current /\ (g = Current => pos = 0)
  /\ mpc = "decode" => Len(read) = HEADER + len
  /\ DeliveredInOrder

LEMMA OrderInit == Init => OrderInv
<1> SUFFICES ASSUME Init PROVE OrderInv
  OBVIOUS
<1>1. /\ read = <<>> /\ rx_rb = <<>> /\ delivered = <<>> /\ pos = 0 /\ cpc = "idle" /\ mpc = "poll"
  BY DEF Init
<1>2. Len(read) = 0 /\ Len(rx_rb) = 0
  BY <1>1, EmptyCells
<1>3. Cells = {} /\ Queued
  BY <1>2 DEF Cells, Queued, Sorted
<1>4. DOMAIN delivered = {}
  BY <1>1
<1>5. Out = {}
  BY <1>4 DEF Out
<1> QED BY <1>1, <1>3, <1>4, <1>5 DEF OrderInv, Coming, DeliveredInOrder

\* Sizes of the queues; their cells are cells.
LEMMA CellFacts ==
  ASSUME TypeInv
  PROVE  /\ Len(read) \in Nat /\ Len(rx_rb) \in Nat /\ Current \in Nat /\ pos \in Nat
         /\ \A c \in Cells : c[1] \in Nat /\ c[2] \in Nat
<1>1. read \in Seq(Cell) /\ rx_rb \in Seq(Cell) /\ frames \in Seq(Sendable) /\ pos \in Nat
  BY DEF TypeInv, Shapes
<1>2. Len(read) \in Nat /\ Len(rx_rb) \in Nat /\ Current \in Nat
  BY <1>1, LenProperties DEF Current
<1>3. ASSUME NEW c \in Cells PROVE c \in Cell
  BY <1>1, ElementOfSeq DEF Cells
<1> QED BY <1>1, <1>2, <1>3 DEF Cell

LEMMA LenOf ==
  ASSUME TypeInv, NEW f \in 1 .. Current
  PROVE  frames[f].len \in 1 .. MaxLen /\ FrameLen(f) = SYNC + HEADER + frames[f].len
<1>1. frames[f] \in Sendable
  BY ElementOfSeq DEF TypeInv, Shapes, Current
<1> QED BY <1>1 DEF Sendable, FrameLen

\* What Coming and the air allow when the air stands still and no bit is added.
LEMMA Fewer ==
  ASSUME TypeInv, OrderInv, UNCHANGED <<frames, pos, delivered>>,
         read' = read \/ read' = <<>>, rx_rb' = rx_rb \/ rx_rb' = <<>>,
         cpc' = "put" => cpc = "put" /\ bit' = bit,
         mpc' = "decode" => mpc = "decode" /\ read' = read /\ len' = len
  PROVE  OrderInv'
<1>1. Cells' \subseteq Cells
  <2>1. Len(<<>>) = 0
    BY EmptyCells
  <2> QED BY <2>1 DEF Cells
<1>2. Queued'
  <2>1. Len(<<>>) = 0
    BY EmptyCells
  <2>2. Sorted(read)' /\ Sorted(rx_rb)'
    BY <2>1 DEF OrderInv, Queued, Sorted
  <2>3. \A i \in 1 .. Len(read'), j \in 1 .. Len(rx_rb') : Before(read'[i], rx_rb'[j])
    BY <2>1 DEF OrderInv, Queued
  <2> QED BY <2>2, <2>3 DEF Queued, Before
<1>3. Out' = Out /\ Current' = Current /\ \A f : FrameLen(f)' = FrameLen(f)
  BY DEF Out, Current, FrameLen
<1>4. \A c \in Cells' : Placed(c)'
  BY <1>1, <1>3 DEF OrderInv, Placed
<1>5. Coming'
  BY <1>1, <1>3 DEF OrderInv, Coming, FrameLen, Current
<1>6. pos' > 0 => Current' >= 1 /\ pos' < FrameLen(Current)'
  BY <1>3 DEF OrderInv, FrameLen, Current
<1>7. DeliveredInOrder'
  BY <1>3 DEF OrderInv, DeliveredInOrder
<1>8. mpc' = "decode" => Len(read') = HEADER + len'
  BY DEF OrderInv
<1> QED BY <1>2, <1>3, <1>4, <1>5, <1>6, <1>7, <1>8 DEF OrderInv

\* The bit put is newer than all that main has or will have.
LEMMA OrderCbPut ==
  ASSUME TypeInv, OrderInv, CbPut
  PROVE  OrderInv'
<1>0. PICK b : b = Descrambled
  OBVIOUS
<1>1. /\ cpc = "put" /\ cpc' = "count"
      /\ rx_rb' = IF Len(rx_rb) < RxCap THEN Append(rx_rb, b) ELSE rx_rb
      /\ UNCHANGED <<frames, pos, delivered, mpc, len, read>>
  BY <1>0 DEF CbPut, air, main, outcome, Descrambled
<1>2. CASE rx_rb' = rx_rb
  BY <1>1, <1>2, Fewer
<1>3. CASE rx_rb' = Append(rx_rb, b)
  <2>0. b \in Cell /\ rx_rb \in Seq(Cell) /\ scrambler \in Nat /\ bit \in Cell
    BY <1>0, Sizes DEF TypeInv, TypeOK, Shapes, Descrambled, Junk, Cell
  <2>1. b[1] > 0 => /\ b[1] = bit[1] /\ bit[1] > 0 /\ b[2] = scrambler + 1 /\ bit[2] = SYNC + b[2]
                    /\ b[1] \in Nat /\ b[2] \in Nat /\ b[2] >= 1
    BY <1>0, <2>0, Sizes DEF Descrambled, Junk, Cell
  <2>2. /\ rx_rb' \in Seq(Cell) /\ Len(rx_rb') = Len(rx_rb) + 1
        /\ \A i \in 1 .. Len(rx_rb) : rx_rb'[i] = rx_rb[i]
        /\ rx_rb'[Len(rx_rb) + 1] = b
    BY <1>3, <2>0, Appended
  <2>3. Len(read) \in Nat /\ Len(rx_rb) \in Nat /\ Current \in Nat /\ pos \in Nat
    BY CellFacts
  <2>4. Cells' = Cells \cup {b}
    BY <1>1, <2>2, <2>3 DEF Cells
  <2>5. b[1] > 0 => /\ b[1] = Current /\ Current >= 1 /\ Current \notin Out
                    /\ SYNC + b[2] <= FrameLen(Current) /\ pos \in {0, SYNC + b[2]}
                    /\ \A c \in Cells : c[1] = Current => SYNC + c[2] < SYNC + b[2]
    BY <1>1, <2>1 DEF OrderInv, Coming
  <2>6. ASSUME NEW c \in Cells PROVE Before(c, b)
    <3> SUFFICES ASSUME c[1] > 0, b[1] > 0 PROVE c[1] < b[1] \/ (c[1] = b[1] /\ c[2] < b[2])
      BY DEF Before
    <3>1. c[1] \in 1 .. Current /\ c[2] \in Nat
      BY <2>6, CellFacts DEF OrderInv, Placed
    <3>2. c[1] = Current => c[2] < b[2]
      BY <2>1, <2>5, <2>6, <3>1, Sizes
    <3> QED BY <2>3, <2>5, <3>1, <3>2
  <2>7. Out' = Out /\ Current' = Current /\ \A f : FrameLen(f)' = FrameLen(f)
    BY <1>1 DEF Out, Current, FrameLen
  <2>8. Placed(b)'
    <3> SUFFICES ASSUME b[1] > 0
                 PROVE  /\ b[1] \in 1 .. Current /\ b[2] \in 1 .. HEADER + frames[b[1]].len
                        /\ b[1] = Current /\ pos > 0 => SYNC + b[2] <= pos
                        /\ \A g \in Out : g < b[1]
      BY <1>1, <2>7 DEF Placed
    <3>1. FrameLen(Current) = SYNC + HEADER + frames[Current].len /\ frames[Current].len \in 1 .. MaxLen
      BY <2>3, <2>5, LenOf
    <3>2. b[2] \in 1 .. HEADER + frames[b[1]].len
      BY <2>1, <2>5, <3>1, Sizes
    <3>3. \A g \in Out : g < b[1]
      BY <2>3, <2>5 DEF OrderInv
    <3> QED BY <2>1, <2>3, <2>5, <3>2, <3>3, Sizes
  <2>9. \A c \in Cells' : Placed(c)'
    <3>1. \A c \in Cells : Placed(c)'
      BY <1>1, <2>7 DEF OrderInv, Placed
    <3> QED BY <2>4, <2>8, <3>1
  <2>10. Queued'
    <3>1. Sorted(rx_rb')
      <4> SUFFICES ASSUME NEW i \in 1 .. Len(rx_rb'), NEW j \in 1 .. Len(rx_rb'), i < j
                   PROVE  Before(rx_rb'[i], rx_rb'[j])
        BY DEF Sorted
      <4>1. i \in 1 .. Len(rx_rb) /\ rx_rb'[i] = rx_rb[i]
        BY <2>2, <2>3
      <4>2. CASE j = Len(rx_rb) + 1
        <5>1. rx_rb[i] \in Cells
          BY <4>1 DEF Cells
        <5> QED BY <2>2, <2>6, <4>1, <4>2, <5>1
      <4>3. CASE j # Len(rx_rb) + 1
        <5>1. j \in 1 .. Len(rx_rb) /\ rx_rb'[j] = rx_rb[j]
          BY <2>2, <2>3, <4>3
        <5> QED BY <4>1, <5>1 DEF OrderInv, Queued, Sorted
      <4> QED BY <4>2, <4>3
    <3>2. \A i \in 1 .. Len(read), j \in 1 .. Len(rx_rb') : Before(read[i], rx_rb'[j])
      <4> SUFFICES ASSUME NEW i \in 1 .. Len(read), NEW j \in 1 .. Len(rx_rb')
                   PROVE  Before(read[i], rx_rb'[j])
        OBVIOUS
      <4>1. CASE j = Len(rx_rb) + 1
        <5>1. read[i] \in Cells
          BY DEF Cells
        <5> QED BY <2>2, <2>6, <4>1, <5>1
      <4>2. CASE j # Len(rx_rb) + 1
        <5>1. j \in 1 .. Len(rx_rb) /\ rx_rb'[j] = rx_rb[j]
          BY <2>2, <2>3, <4>2
        <5> QED BY <5>1 DEF OrderInv, Queued
      <4> QED BY <4>1, <4>2
    <3> QED BY <1>1, <3>1, <3>2 DEF OrderInv, Queued, Sorted, Before
  <2>11. Coming' /\ DeliveredInOrder'
    BY <1>1, <2>7 DEF Coming, OrderInv, DeliveredInOrder
  <2> QED BY <1>1, <2>7, <2>9, <2>10, <2>11 DEF OrderInv
<1> QED BY <1>1, <1>2, <1>3

\* A bit passes on the air: the buffers do not change, and a bit of a frame is the next of
\* the current one.
LEMMA AirGoesOn ==
  ASSUME TypeInv, pos > 0 => Current >= 1 /\ pos < FrameLen(Current),
         NEW b, Idle(b) \/ Start(b) \/ Continue(b) \/ Damage(b)
  PROVE  /\ Current \in Nat /\ Current' \in Nat /\ pos \in Nat /\ pos' \in Nat
         /\ \A f \in 1 .. Current : frames'[f] = frames[f]
         /\ \/ Current' = Current /\ pos' = pos /\ b[1] = 0
            \/ Current' = Current + 1 /\ pos = 0 /\ pos' = 1 /\ b = <<Current', 1>>
            \/ Current' = Current /\ pos > 0 /\ pos' \in {0, pos + 1} /\ (b[1] = 0 \/ b = <<Current, pos + 1>>)
         /\ pos' > 0 => Current' >= 1 /\ pos' < FrameLen(Current)'
         /\ b[1] > 0 => b[2] <= FrameLen(Current)'
<1> USE Sizes
<1>1. Current \in Nat /\ pos \in Nat /\ frames \in Seq(Sendable)
  BY CellFacts DEF TypeInv, Shapes
<1>2. CASE Start(b)
  <2>1. PICK e \in Sendable : frames' = Append(frames, e)
    BY <1>2 DEF Start, Sendable
  <2>2. /\ Len(frames') = Len(frames) + 1 /\ frames'[Len(frames) + 1] = e
        /\ \A f \in 1 .. Current : frames'[f] = frames[f]
    BY <1>1, <2>1, AppendProperties DEF Current
  <2>3. Current' = Current + 1 /\ pos = 0 /\ pos' = 1 /\ b = <<Current', 1>>
    BY <1>2, <2>2 DEF Start, Current
  <2>4. FrameLen(Current)' = SYNC + HEADER + e.len /\ e.len \in 1 .. MaxLen
    BY <2>2, <2>3 DEF FrameLen, Sendable, Current
  <2> QED BY <1>1, <2>2, <2>3, <2>4
<1>3. CASE ~Start(b)
  <2>1. frames' = frames /\ Current' = Current
    BY <1>3 DEF Idle, Continue, Damage, Current
  <2>2. FrameLen(Current)' = FrameLen(Current)
    BY <2>1 DEF FrameLen, Current
  <2>3. pos > 0 => FrameLen(Current) \in Nat /\ pos + 1 <= FrameLen(Current)
    <3> SUFFICES ASSUME pos > 0 PROVE FrameLen(Current) \in Nat /\ pos + 1 <= FrameLen(Current)
      OBVIOUS
    <3>1. Current \in 1 .. Current /\ pos < FrameLen(Current)
      BY <1>1
    <3>2. FrameLen(Current) = SYNC + HEADER + frames[Current].len /\ frames[Current].len \in 1 .. MaxLen
      BY <3>1, LenOf
    <3> QED BY <1>1, <3>1, <3>2
  <2>4. CASE Idle(b)
    BY <1>1, <2>1, <2>2, <2>4 DEF Idle, Noise
  <2>5. CASE Continue(b)
    <3>1. /\ pos > 0 /\ b = <<Current, pos + 1>>
          /\ pos' = IF pos + 1 = FrameLen(Current) THEN 0 ELSE pos + 1
      BY <2>5 DEF Continue, Current
    <3> QED BY <1>1, <2>1, <2>2, <2>3, <3>1
  <2>6. CASE Damage(b)
    <3>1. /\ pos > 0 /\ b[1] = 0
          /\ pos' \in {0, IF pos + 1 = FrameLen(Current) THEN 0 ELSE pos + 1}
      BY <2>6 DEF Damage, Current, Noise
    <3>2. pos' = 0 \/ (pos' = pos + 1 /\ pos + 1 # FrameLen(Current))
      BY <3>1
    <3> QED BY <1>1, <2>1, <2>2, <2>3, <3>1, <3>2
  <2> QED BY <1>3, <2>4, <2>5, <2>6
<1> QED BY <1>2, <1>3

LEMMA OrderCbBit ==
  ASSUME TypeInv, OrderInv, CbBit
  PROVE  OrderInv'
<1>1. PICK b : /\ Idle(b) \/ Start(b) \/ Continue(b) \/ Damage(b)
               /\ Search(b) \/ SyncFound(b) \/ Timeout(b) \/ Data(b)
  BY DEF CbBit
<1>2. cpc = "idle" /\ UNCHANGED <<mpc, len, read, rx_rb, delivered>>
  BY <1>1 DEF CbBit, main, Search, SyncFound, Timeout, Data, rx
<1>3. cpc' = "put" => bit' = b
  BY <1>1, <1>2 DEF Search, SyncFound, Timeout, Data, callback
<1>4. /\ Current \in Nat /\ Current' \in Nat /\ pos \in Nat /\ pos' \in Nat
      /\ \A f \in 1 .. Current : frames'[f] = frames[f]
      /\ \/ Current' = Current /\ pos' = pos /\ b[1] = 0
         \/ Current' = Current + 1 /\ pos = 0 /\ pos' = 1 /\ b = <<Current', 1>>
         \/ Current' = Current /\ pos > 0 /\ pos' \in {0, pos + 1} /\ (b[1] = 0 \/ b = <<Current, pos + 1>>)
      /\ pos' > 0 => Current' >= 1 /\ pos' < FrameLen(Current)'
      /\ b[1] > 0 => b[2] <= FrameLen(Current)'
  BY <1>1, AirGoesOn DEF OrderInv
<1>5. Cells' = Cells /\ Out' = Out /\ Queued'
  BY <1>2 DEF Cells, Out, Queued, OrderInv, Sorted, Before
<1>6. ASSUME NEW c \in Cells PROVE Placed(c)'
  <2> SUFFICES ASSUME c[1] > 0
               PROVE  /\ c[1] \in 1 .. Current' /\ c[2] \in 1 .. HEADER + frames'[c[1]].len
                      /\ c[1] = Current' /\ pos' > 0 => SYNC + c[2] <= pos'
                      /\ \A g \in Out' : g < c[1]
    BY DEF Placed
  <2>1. /\ c[1] \in 1 .. Current /\ c[2] \in 1 .. HEADER + frames[c[1]].len
        /\ c[1] = Current /\ pos > 0 => SYNC + c[2] <= pos
        /\ \A g \in Out : g < c[1]
    BY <1>6 DEF OrderInv, Placed
  <2>2. c[2] \in Nat
    BY <1>6, CellFacts
  <2>3. c[1] = Current' /\ pos' > 0 => SYNC + c[2] <= pos'
    BY <1>4, <2>1, <2>2, Sizes
  <2> QED BY <1>4, <1>5, <2>1, <2>3
<1>7. \A g \in Out : g \in 1 .. Current /\ (g = Current => pos = 0)
  BY DEF OrderInv
<1>8. \A g \in Out' : g \in 1 .. Current' /\ (g = Current' => pos' = 0)
  BY <1>4, <1>5, <1>7
<1>9. ASSUME cpc' = "put", b[1] > 0
      PROVE  /\ b[1] = Current' /\ Current' >= 1 /\ Current' \notin Out'
             /\ b[2] <= FrameLen(Current)' /\ pos' \in {0, b[2]}
             /\ \A c \in Cells : c[1] = Current' => SYNC + c[2] < b[2]
  <2>1. CASE Current' = Current + 1 /\ pos' = 1 /\ b = <<Current', 1>>
    <3>1. \A c \in Cells : c[1] # Current'
      <4> SUFFICES ASSUME NEW c \in Cells, c[1] = Current' PROVE FALSE
        OBVIOUS
      <4>1. c[1] > 0
        BY <1>4, <2>1
      <4>2. c[1] \in 1 .. Current
        BY <4>1 DEF OrderInv, Placed
      <4> QED BY <1>4, <2>1, <4>2
    <3>2. Current' \notin Out'
      BY <1>4, <1>5, <1>7, <2>1
    <3> QED BY <1>4, <1>9, <2>1, <3>1, <3>2
  <2>2. CASE Current' = Current /\ pos > 0 /\ pos' \in {0, pos + 1} /\ b = <<Current, pos + 1>>
    <3>1. Current >= 1
      BY <2>2 DEF OrderInv
    <3>2. ASSUME NEW c \in Cells, c[1] = Current PROVE SYNC + c[2] < pos + 1
      <4>1. Placed(c) /\ c[2] \in Nat
        BY <3>2, CellFacts DEF OrderInv
      <4>2. c[1] > 0 /\ c[1] = Current /\ pos > 0
        BY <1>4, <2>2, <3>1, <3>2
      <4>3. SYNC + c[2] <= pos
        BY <4>1, <4>2 DEF Placed
      <4> QED BY <1>4, <4>1, <4>3, Sizes
    <3>3. Current' \notin Out'
      BY <1>4, <1>5, <1>7, <2>2
    <3> QED BY <1>4, <1>9, <2>2, <3>1, <3>2, <3>3
  <2> QED BY <1>4, <1>9, <2>1, <2>2
<1>10. Coming'
  BY <1>3, <1>4, <1>5, <1>9 DEF Coming
<1>11. DeliveredInOrder'
  <2>1. Out' \subseteq 1 .. Current'
    BY <1>8
  <2> QED BY <1>2, <2>1 DEF OrderInv, DeliveredInOrder
<1>12. mpc' = "decode" => Len(read') = HEADER + len'
  BY <1>2 DEF OrderInv
<1> QED BY <1>4, <1>5, <1>6, <1>8, <1>10, <1>11, <1>12 DEF OrderInv

LEMMA OrderStall ==
  ASSUME TypeInv, OrderInv, Stall
  PROVE  OrderInv'
<1>1. /\ UNCHANGED <<frames, mpc, len, read, rx_rb, delivered, cpc, bit>> /\ pos' = 0 /\ cpc = "idle"
  BY DEF Stall, rx, callback, main, outcome
<1>2. /\ Cells' = Cells /\ Out' = Out /\ Current' = Current /\ Queued'
  BY <1>1 DEF Cells, Out, Current, Queued, OrderInv, Sorted, Before
<1>3. ASSUME NEW c \in Cells PROVE Placed(c)'
  <2>1. Placed(c)
    BY <1>3 DEF OrderInv
  <2> QED BY <1>1, <1>2, <2>1 DEF Placed
<1>4. Coming' /\ DeliveredInOrder'
  BY <1>1, <1>2 DEF Coming, OrderInv, DeliveredInOrder
<1> QED BY <1>1, <1>2, <1>3, <1>4 DEF OrderInv

\* The oldest bit of rx_rb becomes the newest of those read.
LEMMA OrderGet ==
  ASSUME TypeInv, OrderInv, NEW pc, NEW upTo, NEW next, MGet(pc, upTo, next),
         pc # "decode", next = "decode" => upTo = HEADER + len
  PROVE  OrderInv'
<1>1. /\ UNCHANGED <<frames, pos, delivered, cpc, bit>> /\ mpc = pc
      /\ \/ mpc' = "resetState" /\ read' = <<>> /\ UNCHANGED rx_rb
         \/ /\ rx_rb # <<>> /\ read' = Append(read, Head(rx_rb)) /\ rx_rb' = Tail(rx_rb) /\ len' = len
            /\ mpc' = IF Len(read) + 1 = upTo THEN next ELSE pc
  BY DEF MGet, air, callback, outcome
<1>2. CASE mpc' = "resetState" /\ read' = <<>> /\ UNCHANGED rx_rb
  BY <1>1, <1>2, Fewer
<1>3. CASE rx_rb # <<>> /\ read' = Append(read, Head(rx_rb)) /\ rx_rb' = Tail(rx_rb) /\ len' = len
           /\ mpc' = IF Len(read) + 1 = upTo THEN next ELSE pc
  <2>1. read \in Seq(Cell) /\ rx_rb \in Seq(Cell)
    BY DEF TypeInv, Shapes
  <2>2. /\ Head(rx_rb) = rx_rb[1] /\ Head(rx_rb) \in Cell /\ Len(rx_rb) \in Nat /\ Len(rx_rb) >= 1
        /\ Len(rx_rb') = Len(rx_rb) - 1 /\ \A i \in 1 .. Len(rx_rb) - 1 : rx_rb'[i] = rx_rb[i + 1]
    BY <1>3, <2>1, Taken1
  <2>3. /\ Len(read) \in Nat /\ Len(read') = Len(read) + 1
        /\ \A i \in 1 .. Len(read) : read'[i] = read[i]
        /\ read'[Len(read) + 1] = rx_rb[1]
    BY <1>3, <2>1, <2>2, Appended
  <2>4. Cells' \subseteq Cells
    <3>1. ASSUME NEW i \in 1 .. Len(read') PROVE read'[i] \in Cells
      <4>1. i \in 1 .. Len(read) \/ i = Len(read) + 1
        BY <2>3
      <4>2. 1 \in 1 .. Len(rx_rb)
        BY <2>2
      <4> QED BY <2>3, <4>1, <4>2 DEF Cells
    <3>2. ASSUME NEW i \in 1 .. Len(rx_rb') PROVE rx_rb'[i] \in Cells
      <4>1. i \in 1 .. Len(rx_rb) - 1 /\ i + 1 \in 1 .. Len(rx_rb)
        BY <2>2
      <4> QED BY <2>2, <4>1 DEF Cells
    <3> QED BY <3>1, <3>2 DEF Cells
  <2>5. Sorted(read')
    <3> SUFFICES ASSUME NEW i \in 1 .. Len(read'), NEW j \in 1 .. Len(read'), i < j
                 PROVE  Before(read'[i], read'[j])
      BY DEF Sorted
    <3>1. i \in 1 .. Len(read) /\ read'[i] = read[i]
      BY <2>3
    <3>2. CASE j \in 1 .. Len(read)
      BY <2>3, <3>1, <3>2 DEF OrderInv, Queued, Sorted
    <3>3. CASE j = Len(read) + 1
      <4>1. read'[j] = rx_rb[1] /\ 1 \in 1 .. Len(rx_rb)
        BY <2>2, <2>3, <3>3
      <4> QED BY <3>1, <4>1 DEF OrderInv, Queued
    <3> QED BY <2>3, <3>2, <3>3
  <2>6. Sorted(rx_rb')
    <3> SUFFICES ASSUME NEW i \in 1 .. Len(rx_rb'), NEW j \in 1 .. Len(rx_rb'), i < j
                 PROVE  Before(rx_rb'[i], rx_rb'[j])
      BY DEF Sorted
    <3>1. /\ i + 1 \in 1 .. Len(rx_rb) /\ j + 1 \in 1 .. Len(rx_rb) /\ i + 1 < j + 1
          /\ rx_rb'[i] = rx_rb[i + 1] /\ rx_rb'[j] = rx_rb[j + 1]
      BY <2>2
    <3> QED BY <3>1 DEF OrderInv, Queued, Sorted
  <2>7. ASSUME NEW i \in 1 .. Len(read'), NEW j \in 1 .. Len(rx_rb')
        PROVE  Before(read'[i], rx_rb'[j])
    <3>1. j + 1 \in 1 .. Len(rx_rb) /\ rx_rb'[j] = rx_rb[j + 1] /\ 1 < j + 1 /\ 1 \in 1 .. Len(rx_rb)
      BY <2>2
    <3>2. CASE i \in 1 .. Len(read)
      BY <2>3, <3>1, <3>2 DEF OrderInv, Queued
    <3>3. CASE i = Len(read) + 1
      BY <2>3, <3>1, <3>3 DEF OrderInv, Queued, Sorted
    <3> QED BY <2>3, <3>2, <3>3
  <2>8. Queued'
    BY <2>5, <2>6, <2>7 DEF Queued, Sorted, Before
  <2>9. Out' = Out /\ Current' = Current /\ FrameLen(Current)' = FrameLen(Current)
    BY <1>1 DEF Out, Current, FrameLen
  <2>10. \A c \in Cells' : Placed(c)'
    BY <1>1, <2>4, <2>9 DEF OrderInv, Placed
  <2>11. Coming' /\ DeliveredInOrder'
    BY <1>1, <2>4, <2>9 DEF OrderInv, Coming, DeliveredInOrder
  <2>12. mpc' = "decode" => Len(read') = HEADER + len'
    BY <1>1, <1>3, <2>3
  <2> QED BY <1>1, <2>8, <2>9, <2>10, <2>11, <2>12 DEF OrderInv
<1> QED BY <1>1, <1>2, <1>3

LEMMA NumberAppended ==
  ASSUME NEW s \in Seq(Nat), NEW n \in Nat, NEW t, t = Append(s, n)
  PROVE  /\ Len(t) = Len(s) + 1 /\ DOMAIN s = 1 .. Len(s)
         /\ DOMAIN t = 1 .. Len(s) + 1
         /\ \A i \in 1 .. Len(s) : t[i] = s[i]
         /\ t[Len(s) + 1] = n
<1>1. /\ t \in Seq(Nat) /\ Len(t) = Len(s) + 1
      /\ \A i \in 1 .. Len(s) : t[i] = s[i]
      /\ t[Len(s) + 1] = n
  BY AppendProperties
<1>2. DOMAIN s = 1 .. Len(s) /\ DOMAIN t = 1 .. Len(t)
  BY <1>1, LenProperties
<1> QED BY <1>1, <1>2

\* A frame that is delivered was read to its last bit: nothing of it can follow, and
\* what is in rx_rb is newer.
LEMMA OrderDecode ==
  ASSUME TypeInv, OrderInv, MDecode
  PROVE  OrderInv'
<1> DEFINE f0 == IF Len(read) > HEADER THEN read[Len(read)][1] ELSE 0
<1>1. PICK f : f = f0
  OBVIOUS
<1>2. /\ mpc = "decode" /\ mpc' = "resetState" /\ read' = <<>>
      /\ UNCHANGED <<frames, pos, cpc, bit, rx_rb>>
      /\ (Good(f) /\ delivered' = Append(delivered, f)) \/ delivered' = delivered
  BY <1>1 DEF MDecode, Good, air, rx, callback
<1>3. CASE delivered' = delivered
  BY <1>2, <1>3, Fewer
<1>4. CASE Good(f) /\ delivered' = Append(delivered, f)
  <2>1. Len(read) = HEADER + len /\ Len(read) > HEADER /\ f = read[Len(read)][1]
        /\ Len(read) \in 1 .. Len(read) /\ len \in Nat /\ len >= 1
    <3>1. Len(read) = HEADER + len /\ len \in Nat /\ Len(read) \in Nat
      BY <1>2, CellFacts DEF OrderInv, TypeInv, Shapes
    <3>2. f > 0
      BY <1>4 DEF Good
    <3>3. Len(read) > HEADER
      BY <1>1, <3>2
    <3> QED BY <1>1, <3>1, <3>3, Sizes
  <2>2. read[Len(read)] = <<f, HEADER + len>> /\ read[Len(read)] \in Cells
    <3>1. Len(read) \in HEADER + 1 .. HEADER + len
      BY <2>1, Sizes
    <3> QED BY <1>4, <2>1, <3>1 DEF Good, Cells
  <2>3. PICK d \in Cells : d[1] = f /\ d[2] = HEADER + len /\ d = read[Len(read)]
    BY <2>2
  <2>4. f > 0 /\ len = frames[f].len
    BY <1>4 DEF Good
  <2>5. /\ f \in 1 .. Current /\ (f = Current /\ pos > 0 => SYNC + (HEADER + len) <= pos)
        /\ \A g \in Out : g < f
    BY <2>3, <2>4 DEF OrderInv, Placed
  <2>6. /\ Current \in Nat /\ pos \in Nat /\ FrameLen(f) = SYNC + HEADER + len
        /\ \A c \in Cells : c[1] \in Nat /\ c[2] \in Nat
    BY <2>4, <2>5, LenOf, CellFacts
  <2>7. f = Current => pos = 0
    <3> SUFFICES ASSUME f = Current, pos > 0 PROVE FALSE
      BY <2>6
    <3>1. pos < FrameLen(f)
      BY DEF OrderInv
    <3> QED BY <2>1, <2>5, <2>6, <3>1, Sizes
  <2>8. delivered \in Seq(Nat) /\ f \in Nat /\ Len(delivered) \in Nat
    BY <2>5, <2>6, LenProperties DEF TypeInv, Shapes
  <2>9. /\ Len(delivered') = Len(delivered) + 1 /\ DOMAIN delivered = 1 .. Len(delivered)
        /\ DOMAIN delivered' = 1 .. Len(delivered) + 1
        /\ \A i \in 1 .. Len(delivered) : delivered'[i] = delivered[i]
        /\ delivered'[Len(delivered) + 1] = f
    BY <1>4, <2>8, NumberAppended
  <2>10. Out' = Out \cup {f}
    BY <2>8, <2>9 DEF Out
  <2>11. Current' = Current /\ FrameLen(Current)' = FrameLen(Current)
    BY <1>2 DEF Current, FrameLen
  <2>12. Cells' \subseteq {rx_rb[i] : i \in 1 .. Len(rx_rb)}
    BY <1>2, EmptyCells DEF Cells
  <2>13. Queued'
    <3>1. Len(read') = 0
      BY <1>2, EmptyCells
    <3> QED BY <1>2, <3>1 DEF OrderInv, Queued, Sorted, Before
  <2>14. ASSUME NEW c \in Cells' PROVE Placed(c)'
    <3>1. PICK j \in 1 .. Len(rx_rb) : c = rx_rb[j]
      BY <2>12
    <3>2. c \in Cells /\ Placed(c)
      BY <3>1 DEF Cells, OrderInv
    <3>3. c[1] > 0 => f < c[1]
      <4> SUFFICES ASSUME c[1] > 0 PROVE f < c[1]
        OBVIOUS
      <4>1. Before(d, c)
        BY <2>1, <2>3, <3>1 DEF OrderInv, Queued
      <4>2. f < c[1] \/ (f = c[1] /\ HEADER + len < c[2])
        BY <2>3, <2>4, <4>1 DEF Before
      <4>3. f = c[1] => c[2] <= HEADER + len
        BY <2>4, <3>2 DEF Placed
      <4> QED BY <2>1, <2>6, <3>2, <4>2, <4>3, Sizes
    <3> QED BY <1>2, <2>10, <2>11, <3>2, <3>3 DEF Placed
  <2>15. Coming'
    <3> SUFFICES ASSUME cpc = "put", bit[1] > 0
                 PROVE  /\ bit[1] = Current /\ Current \in Nat /\ Current >= 1 /\ Current \notin Out'
                        /\ bit[2] <= FrameLen(Current) /\ pos \in {0, bit[2]}
                        /\ \A c \in Cells' : c[1] = Current => SYNC + c[2] < bit[2]
      BY <1>2, <2>11 DEF Coming
    <3>1. /\ bit[1] = Current /\ Current >= 1 /\ Current \notin Out
          /\ bit[2] <= FrameLen(Current) /\ pos \in {0, bit[2]}
          /\ \A c \in Cells : c[1] = Current => SYNC + c[2] < bit[2]
      BY DEF OrderInv, Coming
    <3>2. f # Current
      <4> SUFFICES ASSUME f = Current PROVE FALSE
        OBVIOUS
      <4>1. SYNC + (HEADER + len) < bit[2]
        BY <2>3, <3>1
      <4>2. bit[2] <= SYNC + HEADER + len
        BY <2>6, <3>1
      <4>3. bit[2] \in Nat
        BY DEF TypeInv, Shapes, Cell
      <4> QED BY <2>1, <4>1, <4>2, <4>3, Sizes
    <3>3. Cells' \subseteq Cells
      BY <2>12 DEF Cells
    <3> QED BY <2>6, <2>10, <3>1, <3>2, <3>3
  <2>16. \A g \in Out' : g \in 1 .. Current /\ (g = Current => pos = 0)
    BY <2>5, <2>7, <2>10 DEF OrderInv
  <2>17. DeliveredInOrder'
    <3>1. \A g \in Out : g < f
      BY <2>5
    <3>2. ASSUME NEW i \in 1 .. Len(delivered) + 1, NEW j \in 1 .. Len(delivered) + 1, i < j
          PROVE  delivered'[i] < delivered'[j]
      <4>1. i \in 1 .. Len(delivered) /\ delivered'[i] = delivered[i]
        BY <2>8, <2>9, <3>2
      <4>2. CASE j = Len(delivered) + 1
        <5>1. delivered[i] \in Out
          BY <2>9, <4>1 DEF Out
        <5> QED BY <2>9, <3>1, <4>1, <4>2, <5>1
      <4>3. CASE j # Len(delivered) + 1
        <5>1. j \in 1 .. Len(delivered) /\ delivered'[j] = delivered[j]
          BY <2>8, <2>9, <3>2, <4>3
        <5> QED BY <2>9, <3>2, <4>1, <5>1 DEF OrderInv, DeliveredInOrder
      <4> QED BY <4>2, <4>3
    <3>3. Out' \subseteq 1 .. Current'
      BY <2>11, <2>16
    <3> QED BY <2>9, <3>2, <3>3 DEF DeliveredInOrder
  <2>18. (\A g \in Out : g \in 1 .. Current /\ (g = Current => pos = 0))'
         /\ (pos > 0 => Current >= 1 /\ pos < FrameLen(Current))'
    BY <1>2, <2>11, <2>16 DEF OrderInv
  <2> QED BY <1>2, <2>13, <2>14, <2>15, <2>17, <2>18 DEF OrderInv
<1> QED BY <1>2, <1>3, <1>4

LEMMA OrderStep == TypeInv /\ OrderInv /\ [Next]_vars => OrderInv'
<1> SUFFICES ASSUME TypeInv, OrderInv, [Next]_vars PROVE OrderInv'
  OBVIOUS
<1>1. CASE CbPayload \/ CbHeader \/ CbHeaderDone \/ CbResetFields \/ CbResetRing
  <2>1. /\ UNCHANGED <<frames, pos, delivered, mpc, len, read>>
        /\ rx_rb' = rx_rb \/ rx_rb' = <<>>
        /\ cpc' # "put"
    BY <1>1 DEF CbPayload, CbHeader, CbHeaderDone, CbResetFields, CbResetRing, air, main, outcome
  <2> QED BY <2>1, Fewer
<1>2. CASE Callback
  BY <1>1, <1>2, OrderCbBit, OrderCbPut DEF Callback
<1>3. CASE \/ MPoll \/ MLoadLen \/ MCheckLen \/ MResetState \/ MResetBits \/ MResetLen
           \/ MResetHeader \/ MResetRing \/ MResetScrambler \/ MResetCorrelator
           \/ MClearReady
  <2>1. /\ UNCHANGED <<frames, pos, delivered, cpc, bit>>
        /\ read' = read \/ read' = <<>>
        /\ rx_rb' = rx_rb \/ rx_rb' = <<>>
        /\ mpc' # "decode"
    BY <1>3 DEF MPoll, MLoadLen, MCheckLen, MResetState, MResetBits, MResetLen, MResetHeader,
                MResetRing, MResetScrambler, MResetCorrelator, MStore, MClearReady,
                air, rx, callback, main, outcome
  <2> QED BY <2>1, Fewer
<1>4. CASE MGetHeader
  BY <1>4, OrderGet DEF MGetHeader
<1>5. CASE MGetPayload
  BY <1>5, OrderGet DEF MGetPayload
<1>6. CASE Main
  BY <1>3, <1>4, <1>5, <1>6, OrderDecode DEF Main
<1>7. CASE UNCHANGED vars
  <2>1. UNCHANGED <<frames, pos, delivered, read, rx_rb, cpc, bit, mpc, len>>
    BY <1>7 DEF vars, air, rx, callback, main, outcome
  <2> QED BY <2>1, Fewer
<1> QED BY <1>2, <1>6, <1>7, OrderStall DEF Next

\* Frames come out in the order they were sent, none twice, whatever the air damages
\* or silences and however long main takes: rx_reset in the middle of a frame, a packet
\* read with the next one's length and a header left in rx_rb may lose frames, never
\* repeat or swap them.
THEOREM OnceInOrder == Spec => []DeliveredInOrder
<1>1. OrderInv => DeliveredInOrder
  BY DEF OrderInv
<1> QED BY <1>1, OrderInit, OrderStep, TypeInit, TypeStep, PTL DEF Spec
=============================================================================
