------------------------ MODULE BitRingThreadsProofs ------------------------
(***************************************************************************)
(* Proofs about put_bits and get_bits run by two threads, for every size   *)
(* of the ring, every number of bits in a byte and every length of a run.  *)
(*                                                                         *)
(* The inductive invariant has three parts.  Locals says what the locals   *)
(* of the two calls stand for at each step of theirs.  Joint, which holds  *)
(* until the first early read, relates the two threads: how far apart they *)
(* are, counting the bits written but not yet counted in count_put and the *)
(* bits read but not yet counted in count_get, and where in the ring every *)
(* bit lies that is between them.  The stale copy of head that get_bits    *)
(* compares with tail is harmless because of Fresh: while the reader is in *)
(* its test, the writer only moves away from it.  LastByte adds what the   *)
(* capacity rests on: the last byte before the full test closes takes one  *)
(* bit, however the reader moves meanwhile.                                *)
(***************************************************************************)
EXTENDS BitRingThreads, SequenceTheorems, TLAPS

Bits(n) == SIZE_BYTE * n

\* The slot d bytes after slot i, and the bytes from slot i on to slot j.
Ahead(i, d) == IF i + d < BUFFER_SIZE THEN i + d ELSE i + d - BUFFER_SIZE
Dist(i, j)  == IF j >= i THEN j - i ELSE j - i + BUFFER_SIZE

Used == Dist(t, head)

\* The bits really written in the byte at head, and read from the one at tail.
Written == IF wpc \in {"clear", "zeroCount"} THEN 0
           ELSE IF wpc = "or" THEN cp
           ELSE IF wpc = "storeCount" THEN cp + 1 ELSE count_put
Returned == IF rpc = "storeCount" THEN cg + 1 ELSE count_get

\* The bits of sent before the byte at tail.
Base == Len(got) - Returned

Locals ==
  /\ h = head /\ t = tail
  /\ wpc # "idle" => cp = count_put
  /\ wpc \in {"storeHead", "clear", "zeroCount"} => cp = SIZE_BYTE
  /\ wpc \in {"or", "storeCount"} => cp < SIZE_BYTE
  /\ rpc \in {"storeTail", "read", "storeCount"} => cg = count_get
  /\ rpc = "storeTail" => cg = SIZE_BYTE
  /\ rpc \in {"read", "storeCount"} => cg < SIZE_BYTE
  /\ Len(sent) <= MaxBits
  /\ wpc \notin {"idle", "storeCount"} => Len(sent) < MaxBits

Counts == Len(sent) = Base + Bits(Used) + Written

Prefix == Len(got) <= Len(sent) /\ \A i \in 1 .. Len(got) : got[i] = sent[i]

Contents ==
  \A d \in 0 .. Used, k \in Pos :
    Base + Bits(d) + k + 1 \in 1 .. Len(sent) =>
      buf[Ahead(t, d)][k] = sent[Base + Bits(d) + k + 1]

Cleared == wpc # "clear" => \A k \in Pos : k >= Written => buf[head][k] = 0
Promise == rpc \in {"storeTail", "read"} => Len(got) < Len(sent)
Space   == wpc = "storeHead" => Succ(h) # t
Fresh   == rpc = "loadCount" => Dist(t, rh) <= Used
Opened  == wpc = "idle" /\ count_put = 0 => head = t
Behind  == (wpc = "storeCount" /\ cp > 0 /\ head = t)
             => Returned <= cp /\ (rpc = "read" => cg < cp)

Joint == /\ Counts /\ Prefix /\ Contents /\ Cleared
         /\ Promise /\ Space /\ Fresh /\ Opened /\ Behind

ThreadsInv == TypeOK /\ Locals /\ (~early => Joint)

-----------------------------------------------------------------------------
(* Arithmetic of bytes and slots.                                          *)

LEMMA BitsFacts ==
  /\ \A n \in Nat : Bits(n) \in Nat
  /\ Bits(0) = 0
  /\ \A n \in Nat : Bits(n + 1) = Bits(n) + SIZE_BYTE
  /\ \A m, n \in Nat : m < n => Bits(m) + SIZE_BYTE <= Bits(n)
<1>1. \A n \in Nat : Bits(n) \in Nat /\ Bits(n + 1) = Bits(n) + SIZE_BYTE
  BY ThreadsAssumption DEF Bits
<1>2. Bits(0) = 0
  BY ThreadsAssumption DEF Bits
<1>3. ASSUME NEW m \in Nat, NEW n \in Nat, m < n
      PROVE  Bits(m) + SIZE_BYTE <= Bits(n)
  <2> DEFINE e == n - m - 1
  <2>1. e \in Nat /\ n = (m + 1) + e
    BY <1>3
  <2>2. Bits(n) = Bits(m + 1) + Bits(e)
    BY <2>1, ThreadsAssumption DEF Bits
  <2> QED BY <2>1, <2>2, <1>1
<1> QED BY <1>1, <1>2, <1>3

\* (i + 1) & BUFFER_MASK
LEMMA SuccFacts ==
  ASSUME NEW i \in Slot
  PROVE  /\ Succ(i) = IF i = BUFFER_SIZE - 1 THEN 0 ELSE i + 1
         /\ Succ(i) \in Slot
<1>1. CASE i = BUFFER_SIZE - 1
  BY <1>1, ThreadsAssumption DEF Slot, Succ
<1>2. CASE i # BUFFER_SIZE - 1
  BY <1>2, ThreadsAssumption DEF Slot, Succ
<1> QED BY <1>1, <1>2

LEMMA DistFacts ==
  ASSUME NEW i \in Slot, NEW j \in Slot
  PROVE  /\ Dist(i, j) \in 0 .. (BUFFER_SIZE - 1)
         /\ Dist(i, j) = 0 <=> i = j
         /\ Ahead(i, Dist(i, j)) = j
         /\ Succ(j) # i => Dist(i, Succ(j)) = Dist(i, j) + 1
         /\ i # j => Dist(Succ(i), j) = Dist(i, j) - 1
BY SuccFacts, ThreadsAssumption DEF Slot, Dist, Ahead

LEMMA AheadFacts ==
  ASSUME NEW i \in Slot
  PROVE  /\ \A d \in 0 .. (BUFFER_SIZE - 1) : Ahead(i, d) \in Slot
         /\ \A d, e \in 0 .. (BUFFER_SIZE - 1) : Ahead(i, d) = Ahead(i, e) => d = e
         /\ \A d \in 0 .. (BUFFER_SIZE - 2) : Ahead(Succ(i), d) = Ahead(i, d + 1)
         /\ Ahead(i, 0) = i
BY SuccFacts, ThreadsAssumption DEF Slot, Ahead

\* What the types and the locals say of the derived quantities.
LEMMA Derived ==
  ASSUME TypeOK, Locals
  PROVE  /\ Used \in 0 .. (BUFFER_SIZE - 1) /\ Used \in Nat /\ Bits(Used) \in Nat
         /\ Used = 0 <=> head = t
         /\ Ahead(t, Used) = head
         /\ Written \in 0 .. SIZE_BYTE /\ Returned \in 0 .. SIZE_BYTE
         /\ Len(sent) \in Nat /\ Len(got) \in Nat /\ Base \in Int
         /\ SIZE_BYTE \in Nat /\ SIZE_BYTE >= 1
         /\ head \in Slot /\ t \in Slot
<1>1. head \in Slot /\ t \in Slot
  BY DEF TypeOK
<1>2. /\ Used \in 0 .. (BUFFER_SIZE - 1) /\ Used \in Nat
      /\ Used = 0 <=> head = t
      /\ Ahead(t, Used) = head
  BY <1>1, DistFacts, ThreadsAssumption DEF Used
<1>3. Written \in 0 .. SIZE_BYTE
  BY ThreadsAssumption DEF TypeOK, Locals, Written
<1>4. Returned \in 0 .. SIZE_BYTE
  BY ThreadsAssumption DEF TypeOK, Locals, Returned
<1>5. Len(sent) \in Nat /\ Len(got) \in Nat
  BY DEF TypeOK
<1>6. Base \in Int
  BY <1>4, <1>5, ThreadsAssumption DEF Base
<1> QED BY <1>1, <1>2, <1>3, <1>4, <1>5, <1>6, BitsFacts, ThreadsAssumption

-----------------------------------------------------------------------------
(* Types and locals.                                                       *)

LEMMA InitLocals == Init => TypeOK /\ Locals
<1> SUFFICES ASSUME Init PROVE TypeOK /\ Locals
  OBVIOUS
<1>1. early \in BOOLEAN
  BY Zenon DEF Init
<1>2. sent \in Seq(Bit) /\ got \in Seq(Bit) /\ Len(sent) = 0
  BY DEF Init
<1>3. TypeOK
  BY <1>1, <1>2, ThreadsAssumption DEF Init, TypeOK, Slot, Bit
<1>4. Locals
  BY <1>2, ThreadsAssumption DEF Init, Locals
<1> QED BY <1>3, <1>4

LEMMA NextLocals ==
  ASSUME TypeOK, Locals, [Next]_vars
  PROVE  TypeOK' /\ Locals'
<1> USE DEF TypeOK, Locals
<1>0. SIZE_BYTE \in Nat /\ SIZE_BYTE >= 1 /\ MaxBits \in Nat /\ Len(sent) \in Nat
  BY ThreadsAssumption
<1>1. ASSUME NEW b \in Bit, WLoadTail(b) PROVE TypeOK' /\ Locals'
  BY <1>0, <1>1 DEF WLoadTail, ring, reader
<1>2. CASE WStoreHead
  BY <1>0, <1>2, SuccFacts DEF WStoreHead, reader
<1>3. CASE WClear
  <2>1. buf' \in [Slot -> Byte]
    <3>1. Zero \in Byte
      BY DEF Zero, Byte, Bit
    <3> QED BY <1>3, <3>1 DEF WClear
  <2> QED BY <1>0, <1>3, <2>1 DEF WClear, reader
<1>4. CASE WZeroCount
  BY <1>0, <1>4 DEF WZeroCount, reader
<1>5. CASE WOr
  <2>1. buf' \in [Slot -> Byte]
    <3>1. buf[h] \in Byte /\ h \in Slot
      OBVIOUS
    <3>2. [buf[h] EXCEPT ![cp] = IF bit = 1 THEN 1 ELSE @] \in Byte
      BY <3>1 DEF Byte, Bit
    <3> QED BY <1>5, <3>1, <3>2 DEF WOr
  <2>2. sent' \in Seq(Bit) /\ Len(sent') = Len(sent) + 1
    BY <1>5, AppendProperties DEF WOr
  <2> QED BY <1>0, <1>5, <2>1, <2>2 DEF WOr, reader
<1>6. CASE WStoreCount
  BY <1>0, <1>6 DEF WStoreCount, reader
<1>7. CASE RLoadHead
  BY <1>0, <1>7 DEF RLoadHead, ring, writer
<1>8. CASE RLoadCount
  <2>1. early' \in BOOLEAN
    BY <1>8, Zenon DEF RLoadCount
  <2> QED BY <1>0, <1>8, <2>1 DEF RLoadCount, ring, writer
<1>9. CASE RStoreTail
  BY <1>0, <1>9, SuccFacts DEF RStoreTail, writer
<1>10. CASE RRead
  <2>1. got' \in Seq(Bit)
    <3>1. buf[t][cg] \in Bit
      <4>1. cg \in Pos /\ t \in Slot
        BY <1>0, <1>10 DEF RRead, Pos
      <4> QED BY <4>1 DEF Byte
    <3> QED BY <1>10, <3>1, AppendProperties DEF RRead
  <2> QED BY <1>0, <1>10, <2>1 DEF RRead, ring, writer
<1>11. CASE RStoreCount
  BY <1>0, <1>11 DEF RStoreCount, writer
<1>12. CASE UNCHANGED vars
  BY <1>12 DEF vars, ring, writer, reader
<1> QED BY <1>1, <1>2, <1>3, <1>4, <1>5, <1>6, <1>7, <1>8, <1>9, <1>10, <1>11, <1>12
        DEF Next, Writer, Reader

-----------------------------------------------------------------------------
(* The two threads together.                                               *)

LEMMA InitJoint == Init => Joint
<1> SUFFICES ASSUME Init PROVE Joint
  OBVIOUS
<1>1. TypeOK /\ Locals
  BY InitLocals
<1>2. /\ Used = 0 /\ Written = 0 /\ Returned = 0 /\ Base = 0
      /\ Len(sent) = 0 /\ Len(got) = 0 /\ head = 0 /\ buf[0] = Zero
  BY ThreadsAssumption DEF Init, Used, Dist, Written, Returned, Base
<1>3. Counts /\ Prefix /\ Contents
  BY <1>1, <1>2, BitsFacts, Derived DEF Counts, Prefix, Contents
<1>4. Cleared
  BY <1>2 DEF Cleared, Zero
<1>5. Promise /\ Space /\ Fresh /\ Opened /\ Behind
  BY DEF Init, Promise, Space, Fresh, Opened, Behind
<1> QED BY <1>3, <1>4, <1>5 DEF Joint

\* A step that changes none of the bits, the indices and the derived counts
\* keeps what is said of the bits.
LEMMA SameBits ==
  ASSUME TypeOK, Locals, Joint,
         UNCHANGED <<buf, head, t, sent, got>>,
         Written' = Written, Returned' = Returned
  PROVE  /\ Used' = Used /\ Base' = Base
         /\ Counts' /\ Prefix' /\ Contents'
         /\ wpc # "clear" => Cleared'
<1>1. Used' = Used /\ Base' = Base
  BY DEF Used, Base
<1>2. Counts' /\ Prefix'
  BY <1>1 DEF Joint, Counts, Prefix, Bits
<1>3. Contents'
  BY <1>1 DEF Joint, Contents, Bits
<1>4. wpc # "clear" => Cleared'
  BY DEF Joint, Cleared
<1> QED BY <1>1, <1>2, <1>3, <1>4

\* put_bits enters and finds room, or returns at once.
LEMMA WLoadTailJoint ==
  ASSUME TypeOK, Locals, Joint, NEW b \in Bit, WLoadTail(b)
  PROVE  Joint'
<1>1. /\ wpc = "idle" /\ cp' = count_put /\ h' = head
      /\ wpc' = IF Succ(head) = tail THEN "idle"
                ELSE IF count_put = SIZE_BYTE THEN "storeHead" ELSE "or"
      /\ UNCHANGED <<head, tail, count_put, count_get, buf, rpc, rh, t, cg, sent, got>>
  BY DEF WLoadTail, ring, reader
<1>2. Written' = Written /\ Returned' = Returned
  BY <1>1 DEF Written, Returned
<1>3. Used' = Used /\ Counts' /\ Prefix' /\ Contents' /\ Cleared'
  BY <1>1, <1>2, SameBits
<1>4. Promise' /\ Fresh' /\ Opened' /\ Behind'
  BY <1>1, <1>3 DEF Joint, Promise, Fresh, Opened, Behind, Dist
<1>5. Space'
  BY <1>1 DEF Space, Locals, Succ
<1> QED BY <1>3, <1>4, <1>5 DEF Joint

\* head moves to the byte put_bits opens: nothing is in it yet.
LEMMA WStoreHeadJoint ==
  ASSUME TypeOK, Locals, Joint, WStoreHead
  PROVE  Joint'
<1>1. /\ wpc = "storeHead" /\ wpc' = "clear" /\ head' = Succ(head) /\ count_put = SIZE_BYTE
      /\ UNCHANGED <<tail, count_put, count_get, buf, rpc, rh, t, cg, sent, got>>
  BY DEF WStoreHead, Locals, reader
<1>2. Used' = Used + 1
  BY <1>1, DistFacts, Derived DEF Used, Joint, Space, Locals
<1>3. Written = SIZE_BYTE /\ Written' = 0 /\ Returned' = Returned /\ Base' = Base
  BY <1>1 DEF Written, Returned, Base
<1>4. Bits(Used + 1) = Bits(Used) + SIZE_BYTE
  BY Derived, BitsFacts
<1>5. Counts' /\ Prefix'
  BY SMTT(30), <1>1, <1>2, <1>3, <1>4, Derived DEF Joint, Counts, Prefix, Bits
<1>6. Contents'
  <2> SUFFICES ASSUME NEW d \in 0 .. (Used + 1), NEW k \in Pos,
                      Base + Bits(d) + k + 1 \in 1 .. Len(sent)
               PROVE  buf[Ahead(t, d)][k] = sent[Base + Bits(d) + k + 1]
    BY <1>1, <1>2, <1>3 DEF Contents, Bits
  <2>1. k \in Nat
    BY Derived DEF Pos
  <2>2. d # Used + 1
    BY SMTT(30), <2>1, <1>3, <1>4, Derived DEF Joint, Counts
  <2>3. d \in 0 .. Used
    BY <2>2, Derived
  <2> QED BY <2>3 DEF Joint, Contents
<1>7. Cleared' /\ Promise' /\ Space' /\ Opened' /\ Behind'
  BY <1>1 DEF Joint, Cleared, Promise, Space, Opened, Behind
<1>8. Fresh'
  <2>1. rpc = "loadCount" => Dist(t, rh) <= Used /\ Dist(t, rh) \in Nat
    BY Derived, DistFacts, ThreadsAssumption DEF Joint, Fresh, TypeOK
  <2> QED BY <2>1, <1>1, <1>2, Derived DEF Fresh, Dist
<1> QED BY <1>5, <1>6, <1>7, <1>8 DEF Joint

\* The byte opened is cleared: no bit of sent is in it.
LEMMA WClearJoint ==
  ASSUME TypeOK, Locals, Joint, WClear
  PROVE  Joint'
<1>1. /\ wpc = "clear" /\ wpc' = "zeroCount" /\ buf' = [buf EXCEPT ![head] = Zero]
      /\ UNCHANGED <<head, tail, count_put, count_get, h, cp, bit, rpc, rh, t, cg, sent, got>>
  BY DEF WClear, Locals, reader
<1>2. Written = 0 /\ Written' = 0 /\ Returned' = Returned /\ Base' = Base /\ Used' = Used
  BY <1>1 DEF Written, Returned, Base, Used
<1>3. Counts' /\ Prefix'
  BY <1>1, <1>2 DEF Joint, Counts, Prefix, Bits
<1>4. Contents'
  <2> SUFFICES ASSUME NEW d \in 0 .. Used, NEW k \in Pos,
                      Base + Bits(d) + k + 1 \in 1 .. Len(sent)
               PROVE  buf'[Ahead(t, d)][k] = sent[Base + Bits(d) + k + 1]
    BY <1>1, <1>2 DEF Contents, Bits
  <2>1. k \in Nat
    BY Derived DEF Pos
  <2>2. d # Used
    BY <2>1, <1>2, Derived DEF Joint, Counts
  <2>3. d \in 0 .. (BUFFER_SIZE - 1)
    BY Derived, ThreadsAssumption
  <2>4. Ahead(t, d) # head /\ Ahead(t, d) \in Slot
    BY <2>2, <2>3, Derived, AheadFacts
  <2>5. buf[Ahead(t, d)][k] = sent[Base + Bits(d) + k + 1]
    BY DEF Joint, Contents
  <2> QED BY <1>1, <2>4, <2>5 DEF TypeOK
<1>5. Cleared'
  BY <1>1 DEF Cleared, TypeOK, Zero
<1>6. Promise' /\ Space' /\ Fresh' /\ Opened' /\ Behind'
  BY <1>1, <1>2 DEF Joint, Promise, Space, Fresh, Opened, Behind, Dist
<1> QED BY <1>3, <1>4, <1>5, <1>6 DEF Joint

LEMMA WZeroCountJoint ==
  ASSUME TypeOK, Locals, Joint, WZeroCount
  PROVE  Joint'
<1>1. /\ wpc = "zeroCount" /\ wpc' = "or" /\ cp' = 0
      /\ UNCHANGED <<head, tail, count_get, buf, h, bit, rpc, rh, t, cg, sent, got>>
  BY DEF WZeroCount, reader
<1>2. Written' = Written /\ Returned' = Returned
  BY <1>1 DEF Written, Returned
<1>3. Used' = Used /\ Counts' /\ Prefix' /\ Contents' /\ Cleared'
  BY <1>1, <1>2, SameBits
<1>4. Promise' /\ Space' /\ Fresh' /\ Opened' /\ Behind'
  BY <1>1, <1>3 DEF Joint, Promise, Space, Fresh, Opened, Behind, Dist
<1> QED BY <1>3, <1>4 DEF Joint

\* The bit is written, where the reader will look for it.
LEMMA WOrJoint ==
  ASSUME TypeOK, Locals, Joint, WOr
  PROVE  Joint'
<1>1. /\ wpc = "or" /\ wpc' = "storeCount" /\ sent' = Append(sent, bit)
      /\ cp \in Pos /\ bit \in Bit /\ cp = count_put
      /\ buf' = [buf EXCEPT ![head][cp] = IF bit = 1 THEN 1 ELSE @]
      /\ UNCHANGED <<head, tail, count_put, count_get, h, cp, bit, rpc, rh, t, cg, got>>
  BY ThreadsAssumption DEF WOr, Locals, TypeOK, Pos, reader
<1>2. /\ Written = cp /\ Written' = cp + 1 /\ cp \in Nat
      /\ Returned' = Returned /\ Base' = Base /\ Used' = Used
  BY <1>1, ThreadsAssumption DEF Written, Returned, Base, Used, Pos
<1>3. /\ Len(sent') = Len(sent) + 1 /\ sent'[Len(sent) + 1] = bit
      /\ \A n \in 1 .. Len(sent) : sent'[n] = sent[n]
  BY <1>1, AppendProperties DEF TypeOK
<1>4. Counts'
  BY <1>1, <1>2, <1>3, Derived DEF Joint, Counts, Bits
<1>5. Prefix'
  BY <1>1, <1>3, Derived DEF Joint, Prefix
<1>6. /\ buf' \in [Slot -> [Pos -> Bit]]
      /\ buf'[head][cp] = bit
      /\ \A j \in Pos : j # cp => buf'[head][j] = buf[head][j]
      /\ \A i \in Slot : i # head => buf'[i] = buf[i]
  <2>1. buf \in [Slot -> [Pos -> Bit]] /\ head \in Slot
    BY DEF TypeOK, Byte
  <2>2. buf[head][cp] = 0
    BY <1>1, <1>2 DEF Joint, Cleared
  <2>3. (IF bit = 1 THEN 1 ELSE buf[head][cp]) = bit
    BY <1>1, <2>2 DEF Bit
  <2>4. buf' = [buf EXCEPT ![head] = [buf[head] EXCEPT ![cp] = bit]]
    BY <1>1, <2>1, <2>3
  <2> QED BY <1>1, <2>1, <2>4
<1>7. Contents'
  <2> SUFFICES ASSUME NEW d \in 0 .. Used, NEW k \in Pos,
                      Base + Bits(d) + k + 1 \in 1 .. Len(sent')
               PROVE  buf'[Ahead(t, d)][k] = sent'[Base + Bits(d) + k + 1]
    BY <1>1, <1>2 DEF Contents, Bits
  <2> DEFINE n == Base + Bits(d) + k + 1
  <2>1. k \in Nat /\ k < SIZE_BYTE /\ d \in Nat /\ Bits(d) \in Nat
    BY SMTT(30), Derived, BitsFacts DEF Pos
  <2>2. n \in 1 .. Len(sent) => buf[Ahead(t, d)][k] = sent[n]
    BY DEF Joint, Contents
  <2>5. n \in Int /\ 1 <= n /\ n <= Len(sent) + 1
    BY <1>3, <2>1, Derived
  <2>3. CASE d = Used
    <3>1. n = Len(sent) - cp + k + 1
      BY <2>3, <1>2, <2>1, Derived DEF Joint, Counts
    <3>2. CASE k = cp
      <4>1. n = Len(sent) + 1
        BY <3>1, <3>2, <1>2, Derived
      <4> QED BY <4>1, <2>3, <3>2, <1>3, <1>6, Derived
    <3>3. CASE k # cp
      <4>1. n <= Len(sent)
        BY <3>1, <3>3, <1>2, <2>1, <2>5, Derived
      <4>2. n \in 1 .. Len(sent)
        BY <4>1, <2>5, Derived
      <4> QED BY <4>2, <2>2, <2>3, <3>3, <1>3, <1>6, Derived
    <3> QED BY <3>2, <3>3
  <2>4. CASE d # Used
    <3>0. d < Used
      BY <2>1, <2>4, Derived
    <3>1. Bits(d) + SIZE_BYTE <= Bits(Used)
      BY <3>0, <2>1, Derived, BitsFacts
    <3>5. Len(sent) = Base + Bits(Used) + cp
      BY <1>2 DEF Joint, Counts
    <3>6. n <= Len(sent)
      <4>1. Base \in Int /\ Bits(d) \in Nat /\ Bits(Used) \in Nat
        BY <2>1, Derived, BitsFacts
      <4>2. k \in Nat /\ k + 1 <= SIZE_BYTE /\ cp \in Nat /\ SIZE_BYTE \in Nat
        BY <1>2, ThreadsAssumption DEF Pos
      <4>3. Bits(d) + k + 1 <= Bits(Used)
        BY <3>1, <4>1, <4>2
      <4> QED BY <2>1, <3>5, <4>1, <4>2, <4>3
    <3>2. n \in 1 .. Len(sent)
      BY <3>6, <2>5, Derived
    <3>3. d \in 0 .. (BUFFER_SIZE - 1)
      BY Derived, ThreadsAssumption
    <3>4. Ahead(t, d) # head /\ Ahead(t, d) \in Slot
      BY <2>4, <3>3, Derived, AheadFacts
    <3> QED BY <3>2, <3>4, <2>2, <1>3, <1>6
  <2> QED BY <2>3, <2>4
<1>8. Cleared'
  <2> SUFFICES ASSUME NEW k \in Pos, k >= cp + 1
               PROVE  buf'[head][k] = 0
    BY <1>1, <1>2 DEF Cleared
  <2>1. k \in Nat /\ k # cp /\ k >= cp
    BY <1>2, Derived DEF Pos
  <2>2. buf[head][k] = 0
    BY <2>1, <1>1, <1>2 DEF Joint, Cleared
  <2> QED BY <2>1, <2>2, <1>6
<1>9. Promise' /\ Space' /\ Fresh' /\ Opened'
  BY <1>1, <1>2, <1>3, Derived DEF Joint, Promise, Space, Fresh, Opened, Dist
<1>10. Behind'
  <2> SUFFICES ASSUME cp > 0, head = t
               PROVE  Returned <= cp /\ (rpc = "read" => cg < cp)
    BY <1>1, <1>2 DEF Behind
  <2>1. Len(sent) = Base + cp /\ Base = Len(got) - Returned
    BY <1>2, Derived, BitsFacts DEF Joint, Counts, Base
  <2>2. Returned <= cp
    BY <2>1, <1>2, Derived DEF Joint, Prefix
  <2>3. rpc = "read" => cg < cp
    <3>1. rpc = "read" => Returned = cg /\ Len(got) < Len(sent)
      BY DEF Joint, Promise, Returned, Locals
    <3> QED BY <3>1, <2>1, <1>2, Derived
  <2> QED BY <2>2, <2>3
<1> QED BY <1>4, <1>5, <1>7, <1>8, <1>9, <1>10 DEF Joint

LEMMA WStoreCountJoint ==
  ASSUME TypeOK, Locals, Joint, WStoreCount
  PROVE  Joint'
<1>1. /\ wpc = "storeCount" /\ wpc' = "idle" /\ count_put' = cp + 1 /\ cp \in Nat
      /\ UNCHANGED <<head, tail, count_get, buf, h, cp, bit, rpc, rh, t, cg, sent, got>>
  BY ThreadsAssumption DEF WStoreCount, TypeOK, reader
<1>2. Written' = Written /\ Returned' = Returned
  BY <1>1 DEF Written, Returned
<1>3. Used' = Used /\ Counts' /\ Prefix' /\ Contents' /\ Cleared'
  BY <1>1, <1>2, SameBits
<1>4. Promise' /\ Space' /\ Fresh' /\ Opened' /\ Behind'
  BY <1>1, <1>3 DEF Joint, Promise, Space, Fresh, Opened, Behind, Dist
<1> QED BY <1>3, <1>4 DEF Joint

LEMMA RLoadHeadJoint ==
  ASSUME TypeOK, Locals, Joint, RLoadHead
  PROVE  Joint'
<1>1. /\ rpc = "idle" /\ rpc' = "loadCount" /\ rh' = head /\ t' = t
      /\ UNCHANGED <<head, tail, count_put, count_get, buf, wpc, h, cp, bit, cg, sent, got>>
  BY DEF RLoadHead, Locals, ring, writer
<1>2. Written' = Written /\ Returned' = Returned
  BY <1>1 DEF Written, Returned
<1>3. Used' = Used /\ Counts' /\ Prefix' /\ Contents' /\ (wpc # "clear" => Cleared')
  BY <1>1, <1>2, SameBits
<1>4. Cleared'
  BY <1>1, <1>3 DEF Cleared
<1>5. Fresh'
  <2>1. Dist(t, head) = Used /\ Used \in Nat
    BY Derived DEF Used
  <2> QED BY <2>1, <1>1, <1>3 DEF Fresh, Dist
<1>6. Promise' /\ Space' /\ Opened' /\ Behind'
  BY <1>1, <1>2 DEF Joint, Promise, Space, Opened, Behind
<1> QED BY <1>3, <1>4, <1>5, <1>6 DEF Joint

\* The test for empty, of a bit that is there: if the writer has not counted it
\* yet, the reader is in an earlier place of that byte.
LEMMA RLoadCountJoint ==
  ASSUME TypeOK, Locals, Joint, RLoadCount,
         rpc' # "idle" => Len(got) < Len(sent)
  PROVE  Joint'
<1>1. /\ rpc = "loadCount" /\ cg' = count_get
      /\ rpc' = IF t = rh /\ count_get = count_put THEN "idle"
                ELSE IF count_get = SIZE_BYTE THEN "storeTail" ELSE "read"
      /\ UNCHANGED <<head, tail, count_put, count_get, buf, wpc, h, cp, bit, rh, t, sent, got>>
  BY DEF RLoadCount, ring, writer
<1>2. Written' = Written /\ Returned' = Returned
  BY <1>1 DEF Written, Returned
<1>3. Used' = Used /\ Counts' /\ Prefix' /\ Contents' /\ (wpc # "clear" => Cleared')
  BY <1>1, <1>2, SameBits
<1>4. Cleared'
  BY <1>1, <1>3 DEF Cleared
<1>5. Promise' /\ Space' /\ Fresh' /\ Opened'
  BY <1>1 DEF Joint, Promise, Space, Fresh, Opened
<1>6. Behind'
  <2> SUFFICES ASSUME wpc = "storeCount", cp > 0, head = t
               PROVE  Returned <= cp /\ (rpc' = "read" => count_get < cp)
    BY <1>1, <1>2 DEF Behind
  <2>1. rh = t
    <3>1. Dist(t, rh) \in 0 .. (BUFFER_SIZE - 1) /\ Dist(t, rh) <= 0
      BY <1>1, Derived, DistFacts DEF Joint, Fresh, TypeOK
    <3>2. Dist(t, rh) = 0
      BY <3>1, ThreadsAssumption
    <3> QED BY <3>2, DistFacts DEF TypeOK
  <2>2. Returned <= cp /\ Returned = count_get /\ cp = count_put
    BY <1>1 DEF Joint, Behind, Returned, Locals
  <2> QED BY <2>1, <2>2, <1>1, ThreadsAssumption DEF TypeOK
<1> QED BY <1>3, <1>4, <1>5, <1>6 DEF Joint

\* The reader moves to the next byte: there is one.
LEMMA RStoreTailJoint ==
  ASSUME TypeOK, Locals, Joint, RStoreTail
  PROVE  Joint' /\ head # t
<1>1. /\ rpc = "storeTail" /\ rpc' = "read" /\ t' = Succ(t) /\ count_get = SIZE_BYTE
      /\ count_get' = 0 /\ cg' = 0
      /\ UNCHANGED <<head, count_put, buf, wpc, h, cp, bit, rh, sent, got>>
  BY DEF RStoreTail, Locals, writer
<1>2. Returned = SIZE_BYTE /\ Returned' = 0 /\ Written' = Written /\ Base' = Base + SIZE_BYTE
  <2>1. Returned = SIZE_BYTE /\ Returned' = 0 /\ Written' = Written
    BY <1>1 DEF Returned, Written
  <2> QED BY <2>1, <1>1, Derived DEF Base
<1>3. Used \in 1 .. (BUFFER_SIZE - 1)
  <2>1. Base + SIZE_BYTE = Len(got) /\ Len(got) < Len(sent)
    BY <1>1, <1>2, Derived DEF Base, Joint, Promise
  <2>2. Bits(Used) > 0
    BY <2>1, Derived DEF Joint, Counts
  <2>3. Used # 0
    BY <2>2, BitsFacts
  <2> QED BY <2>3, Derived, ThreadsAssumption
<1>4. head # t /\ Used' = Used - 1
  <2>1. head # t
    BY <1>3, Derived, ThreadsAssumption
  <2> QED BY <2>1, <1>1, Derived, DistFacts DEF Used
<1>5. Used - 1 \in Nat /\ Bits(Used) = Bits(Used - 1) + SIZE_BYTE /\ Bits(Used - 1) \in Nat
  <2>1. Used - 1 \in Nat /\ Used = (Used - 1) + 1
    BY <1>3, ThreadsAssumption
  <2> QED BY <2>1, BitsFacts
<1>6. Counts'
  <2>1. Len(sent) = Base + Bits(Used) + Written
    BY DEF Joint, Counts
  <2>2. Len(sent) = (Base + SIZE_BYTE) + Bits(Used - 1) + Written
    BY <2>1, <1>5, Derived
  <2> QED BY <2>2, <1>1, <1>2, <1>4 DEF Counts, Bits
<1>7. Prefix'
  BY <1>1 DEF Joint, Prefix
<1>8. Contents'
  <2> SUFFICES ASSUME NEW d \in 0 .. (Used - 1), NEW k \in Pos,
                      Base + SIZE_BYTE + Bits(d) + k + 1 \in 1 .. Len(sent)
               PROVE  buf[Ahead(Succ(t), d)][k] = sent[Base + SIZE_BYTE + Bits(d) + k + 1]
    BY <1>1, <1>2, <1>4 DEF Contents, Bits, Ahead
  <2>1. /\ d \in Nat /\ d + 1 \in 0 .. Used /\ d \in 0 .. (BUFFER_SIZE - 2)
        /\ k \in Int
    BY <1>3, Derived, ThreadsAssumption DEF Pos
  <2>2. Bits(d + 1) = Bits(d) + SIZE_BYTE /\ Bits(d) \in Nat
    BY <2>1, BitsFacts
  <2>3. Base + Bits(d + 1) + k + 1 = Base + SIZE_BYTE + Bits(d) + k + 1
    BY <2>1, <2>2, Derived
  <2>4. buf[Ahead(t, d + 1)][k] = sent[Base + Bits(d + 1) + k + 1]
    BY <2>1, <2>3 DEF Joint, Contents
  <2> QED BY <2>1, <2>3, <2>4, Derived, AheadFacts
<1>9. Cleared' /\ Promise' /\ Fresh'
  BY <1>1, <1>2 DEF Joint, Cleared, Promise, Fresh
<1>10. Space'
  <2>1. Succ(h) # Succ(t)
    <3>1. h \in Slot /\ t \in Slot /\ h # t
      BY <1>4, Derived DEF Locals
    <3> QED BY <3>1, SuccFacts, ThreadsAssumption DEF Slot
  <2> QED BY <2>1, <1>1 DEF Space, Succ
<1>11. Opened'
  BY <1>1, <1>4 DEF Joint, Opened
<1>12. Behind'
  <2>1. cp \in Int /\ Returned' = 0 /\ cg' = 0 /\ cp' = cp
    BY <1>1, <1>2, ThreadsAssumption DEF TypeOK
  <2> QED BY <2>1 DEF Behind
<1> QED BY <1>4, <1>6, <1>7, <1>8, <1>9, <1>10, <1>11, <1>12 DEF Joint

\* The bit read is the next one of those sent.
LEMMA RReadJoint ==
  ASSUME TypeOK, Locals, Joint, RRead
  PROVE  Joint'
<1>1. /\ rpc = "read" /\ rpc' = "storeCount" /\ cg \in Pos /\ cg = count_get
      /\ UNCHANGED <<head, tail, count_put, count_get, buf, wpc, h, cp, bit, rh, t, cg, sent>>
  BY ThreadsAssumption DEF RRead, Locals, TypeOK, Pos, ring, writer
<1>2. Len(got) < Len(sent) /\ got' = Append(got, buf[t][cg])
  <2>1. Len(got) < Len(sent)
    BY <1>1 DEF Joint, Promise
  <2>2. Len(got) <= MaxBits
    BY <2>1, Derived, ThreadsAssumption DEF Locals
  <2> QED BY <2>1, <2>2 DEF RRead
<1>3. buf[t][cg] = sent[Len(got) + 1]
  <2>1. Base = Len(got) - cg /\ cg \in Nat
    BY <1>1, Derived DEF Base, Returned, Pos
  <2>2. Base + Bits(0) + cg + 1 = Len(got) + 1
    <3>1. Bits(0) = 0
      BY BitsFacts
    <3>2. Len(got) \in Nat
      BY Derived
    <3> QED BY <2>1, <3>1, <3>2
  <2>3. Len(got) + 1 \in 1 .. Len(sent) /\ 0 \in 0 .. Used
    BY <1>2, Derived
  <2>4. buf[Ahead(t, 0)][cg] = sent[Base + Bits(0) + cg + 1]
    BY <1>1, <2>2, <2>3 DEF Joint, Contents
  <2> QED BY <2>2, <2>4, Derived, AheadFacts
<1>4. /\ Len(got') = Len(got) + 1 /\ got'[Len(got) + 1] = sent[Len(got) + 1]
      /\ \A i \in 1 .. Len(got) : got'[i] = got[i]
  <2>1. buf[t][cg] \in Bit
    BY <1>1 DEF TypeOK, Byte
  <2> QED BY <2>1, <1>2, <1>3, AppendProperties DEF TypeOK
<1>5. /\ Written' = Written /\ Returned = cg /\ Returned' = cg + 1
      /\ Used' = Used /\ cg \in Nat
  BY <1>1, Derived DEF Written, Returned, Used, Pos
<1>6. Base' = Base
  BY <1>4, <1>5, Derived DEF Base
<1>7. Counts' /\ Contents'
  BY <1>1, <1>5, <1>6 DEF Joint, Counts, Contents, Bits
<1>8. Prefix'
  BY <1>1, <1>2, <1>4, Derived DEF Joint, Prefix
<1>9. Cleared' /\ Promise' /\ Space' /\ Fresh' /\ Opened'
  BY <1>1, <1>5 DEF Joint, Cleared, Promise, Space, Fresh, Opened
<1>10. Behind'
  <2>1. (wpc = "storeCount" /\ cp > 0 /\ head = t) => cg < cp
    BY <1>1 DEF Joint, Behind
  <2>2. cp \in Int
    BY ThreadsAssumption DEF TypeOK
  <2> QED BY <2>1, <2>2, <1>1, <1>5 DEF Behind
<1> QED BY <1>7, <1>8, <1>9, <1>10 DEF Joint

LEMMA RStoreCountJoint ==
  ASSUME TypeOK, Locals, Joint, RStoreCount
  PROVE  Joint'
<1>1. /\ rpc = "storeCount" /\ rpc' = "idle" /\ count_get' = cg + 1
      /\ UNCHANGED <<head, tail, count_put, buf, wpc, h, cp, bit, rh, t, cg, sent, got>>
  BY DEF RStoreCount, writer
<1>2. Written' = Written /\ Returned' = Returned
  BY <1>1 DEF Written, Returned
<1>3. Used' = Used /\ Counts' /\ Prefix' /\ Contents' /\ (wpc # "clear" => Cleared')
  BY <1>1, <1>2, SameBits
<1>4. Cleared' /\ Promise' /\ Space' /\ Fresh' /\ Opened' /\ Behind'
  BY <1>1, <1>2, <1>3 DEF Joint, Cleared, Promise, Space, Fresh, Opened, Behind
<1> QED BY <1>3, <1>4 DEF Joint

LEMMA NextJoint ==
  ASSUME TypeOK, Locals, Joint, [Next]_vars, ~early, ~early'
  PROVE  Joint'
<1>1. CASE Writer
  BY <1>1, WLoadTailJoint, WStoreHeadJoint, WClearJoint, WZeroCountJoint, WOrJoint,
     WStoreCountJoint DEF Writer
<1>2. CASE RLoadCount
  <2>1. rpc' # "idle" => Len(got) < Len(sent)
    <3>1. early' = (early \/ (rpc' # "idle" /\ Len(got) >= Len(sent)))
      BY <1>2 DEF RLoadCount
    <3>2. rpc' # "idle" => ~(Len(got) >= Len(sent))
      BY <3>1, Zenon
    <3> QED BY <3>2, Derived
  <2> QED BY <1>2, <2>1, RLoadCountJoint
<1>3. CASE RLoadHead \/ RStoreTail \/ RRead \/ RStoreCount
  BY <1>3, RLoadHeadJoint, RStoreTailJoint, RReadJoint, RStoreCountJoint
<1>4. CASE UNCHANGED vars
  <2>1. UNCHANGED <<buf, head, t, sent, got>> /\ Written' = Written /\ Returned' = Returned
    BY <1>4 DEF vars, ring, writer, reader, Written, Returned
  <2>2. Used' = Used /\ Counts' /\ Prefix' /\ Contents' /\ (wpc # "clear" => Cleared')
    BY <2>1, SameBits
  <2>3. Cleared' /\ Promise' /\ Space' /\ Fresh' /\ Opened' /\ Behind'
    BY <1>4, <2>1, <2>2 DEF vars, ring, writer, reader, Joint, Cleared, Promise, Space,
                            Fresh, Opened, Behind, Dist
  <2> QED BY <2>2, <2>3 DEF Joint
<1> QED BY <1>1, <1>2, <1>3, <1>4 DEF Next, Reader

\* Once a read was early nothing is promised any more.
LEMMA EarlyStays == ASSUME [Next]_vars PROVE early => early'
<1>1. CASE RLoadCount
  BY <1>1, Zenon DEF RLoadCount
<1>2. CASE UNCHANGED early
  BY <1>2
<1> QED BY <1>1, <1>2 DEF Next, Writer, Reader, WLoadTail, WStoreHead, WClear, WZeroCount,
        WOr, WStoreCount, RLoadHead, RStoreTail, RRead, RStoreCount, vars

LEMMA ThreadsInvariant == Spec => []ThreadsInv
<1>1. Init => ThreadsInv
  BY InitLocals, InitJoint DEF ThreadsInv
<1>2. ThreadsInv /\ [Next]_vars => ThreadsInv'
  BY NextLocals, NextJoint, EarlyStays DEF ThreadsInv
<1> QED BY <1>1, <1>2, PTL DEF Spec

-----------------------------------------------------------------------------

\* Fields and locals stay in the ranges put_bits and get_bits index with, also
\* after an early read has let the two threads run into each other.
THEOREM ThreadsTypeCorrect == Spec => []TypeOK
<1>1. ThreadsInv => TypeOK
  BY DEF ThreadsInv
<1> QED BY <1>1, ThreadsInvariant, PTL

\* However the two threads interleave, and for every size of the ring, what was
\* read is a prefix of what was written as long as no read was early: the stale
\* head, the count stored after its bit and the two moments at which a byte has
\* an index but no bit yet do no harm by themselves.
THEOREM PrefixUntilEarly == Spec => []OnlyEarlyReadsBreak
<1>1. ThreadsInv => OnlyEarlyReadsBreak
  <2> SUFFICES ASSUME ThreadsInv, ~early PROVE IsPrefix(got, sent)
    BY DEF OnlyEarlyReadsBreak
  <2>1. /\ got \in Seq(Bit) /\ sent \in Seq(Bit) /\ Len(got) <= Len(sent)
        /\ \A i \in 1 .. Len(got) : got[i] = sent[i]
    BY DEF ThreadsInv, TypeOK, Joint, Prefix
  <2> QED BY <2>1 DEF IsPrefix
<1> QED BY <1>1, ThreadsInvariant, PTL

\* An early read, for bytes of two bits or more.  (With one bit in a byte the
\* reader could have finished the byte the writer is opening.)
LEMMA EarlyStep ==
  ASSUME TypeOK, Locals, Joint, ~early, [Next]_vars, early', SIZE_BYTE >= 2
  PROVE  Opening /\ head = IF rpc' = "storeTail" THEN Succ(t) ELSE t
<1>1. RLoadCount
  <2>1. ~(early' = early)
    BY Zenon
  <2> QED BY <2>1 DEF Next, Writer, Reader, WLoadTail, WStoreHead, WClear, WZeroCount,
        WOr, WStoreCount, RLoadHead, RStoreTail, RRead, RStoreCount, vars
<1>2. rpc' # "idle" /\ Len(got) >= Len(sent)
  BY <1>1, Zenon DEF RLoadCount
<1>3. /\ rpc = "loadCount" /\ ~(t = rh /\ count_get = count_put)
      /\ rpc' = IF count_get = SIZE_BYTE THEN "storeTail" ELSE "read"
  BY <1>1, <1>2 DEF RLoadCount
<1>4. count_get = Bits(Used) + Written /\ Returned = count_get
  <2>1. Returned = count_get /\ Len(got) = Len(sent)
    BY <1>2, <1>3, Derived DEF Returned, Joint, Prefix
  <2>2. Len(sent) = (Len(got) - count_get) + Bits(Used) + Written
    BY <2>1 DEF Joint, Counts, Base
  <2>3. count_get \in Int /\ Len(got) \in Nat /\ Bits(Used) \in Nat /\ Written \in Int
    BY Derived, ThreadsAssumption DEF TypeOK
  <2>4. Len(got) = (Len(got) - count_get) + Bits(Used) + Written
    BY <2>1, <2>2
  <2>5. count_get = Bits(Used) + Written
    BY <2>3, <2>4
  <2> QED BY <2>1, <2>5
<1>5. /\ count_get \in 0 .. SIZE_BYTE /\ count_put \in 0 .. SIZE_BYTE /\ cp \in 0 .. SIZE_BYTE
      /\ SIZE_BYTE \in Nat
  BY ThreadsAssumption DEF TypeOK
<1>6. CASE Used = 0
  <2>1. head = t /\ Written = count_get
    BY <1>4, <1>6, Derived, BitsFacts
  <2>2. rh = t
    <3>1. Dist(t, rh) \in 0 .. (BUFFER_SIZE - 1) /\ Dist(t, rh) <= 0
      BY <1>3, <1>6, DistFacts DEF Joint, Fresh, TypeOK
    <3>2. Dist(t, rh) = 0
      BY <3>1, ThreadsAssumption
    <3> QED BY <3>2, DistFacts DEF TypeOK
  <2>3. Written # count_put
    BY <2>1, <2>2, <1>3
  <2>4. CASE wpc \in {"clear", "zeroCount"}
    <3>1. count_get = 0
      BY <2>1, <2>4 DEF Written
    <3> QED BY <2>1, <2>4, <3>1, <1>3 DEF Opening
  <2>5. CASE wpc = "storeCount"
    <3>1. count_get = cp + 1
      BY <2>1, <2>5 DEF Written
    <3>2. cp = 0
      BY <2>1, <2>5, <3>1, <1>4, <1>5 DEF Joint, Behind
    <3> QED BY <2>1, <2>5, <3>1, <3>2, <1>3, <1>5 DEF Opening
  <2> QED BY <2>3, <2>4, <2>5 DEF Written, Locals, TypeOK
<1>7. CASE Used # 0
  <2>1. Used \in Nat /\ 0 < Used /\ Bits(Used) >= SIZE_BYTE
    <3>1. Used \in Nat /\ 0 < Used
      BY <1>7, Derived
    <3>2. Bits(0) + SIZE_BYTE <= Bits(Used)
      BY <3>1, BitsFacts
    <3> QED BY <3>1, <3>2, <1>5, Derived, BitsFacts
  <2>2. Written = 0 /\ count_get = SIZE_BYTE /\ Bits(Used) = SIZE_BYTE
    BY <2>1, <1>4, <1>5, Derived
  <2>3. Used = 1
    <3>1. ASSUME 1 < Used PROVE FALSE
      <4>1. Bits(1) + SIZE_BYTE <= Bits(Used) /\ Bits(1) = Bits(0) + SIZE_BYTE /\ Bits(0) = 0
        <5>1. 1 = 0 + 1 /\ 1 \in Nat /\ 0 \in Nat
          OBVIOUS
        <5>2. Bits(0 + 1) = Bits(0) + SIZE_BYTE /\ Bits(0) = 0
          BY BitsFacts
        <5>3. Bits(1) + SIZE_BYTE <= Bits(Used)
          BY <3>1, <2>1, BitsFacts
        <5> QED BY <5>1, <5>2, <5>3
      <4> QED BY <4>1, <2>2, <1>5, Derived
    <3> QED BY <3>1, <2>1
  <2>4. head = Succ(t)
    <3>1. 0 \in 0 .. (BUFFER_SIZE - 2) /\ Succ(t) \in Slot /\ 0 + 1 = 1
      BY Derived, SuccFacts, ThreadsAssumption
    <3>2. Ahead(Succ(t), 0) = Ahead(t, 1) /\ Ahead(Succ(t), 0) = Succ(t)
      BY <3>1, Derived, AheadFacts
    <3> QED BY <2>3, <3>2, Derived
  <2>5. Opening
    <3>1. wpc = "idle" => count_put # 0
      BY <1>7, Derived DEF Joint, Opened
    <3> QED BY <2>2, <3>1, <1>5, Derived DEF Opening, Written, Locals, TypeOK
  <2> QED BY <2>2, <2>4, <2>5, <1>3
<1> QED BY <1>6, <1>7

\* With the code's eight bits in a byte, and any number from two on, a read is
\* early only in the byte the writer is opening, before it has stored its count.
THEOREM EarlyOnlyThere == SIZE_BYTE >= 2 => (Spec => EarlyOnlyWhileOpening)
<1> SUFFICES ASSUME SIZE_BYTE >= 2 PROVE Spec => EarlyOnlyWhileOpening
  OBVIOUS
<1>1. ThreadsInv /\ [Next]_vars =>
        [~early /\ early' =>
           Opening /\ head = IF rpc' = "storeTail" THEN Succ(t) ELSE t]_vars
  BY EarlyStep DEF ThreadsInv
<1> QED BY <1>1, ThreadsInvariant, PTL DEF Spec, EarlyOnlyWhileOpening

-----------------------------------------------------------------------------
(* The bounded queue, as far as two threads keep it.  Waiting is what is    *)
(* written and not yet read, a bit not counted yet included.                *)

Waiting    == Len(sent) - Len(got)
Capacity   == Bits(BUFFER_SIZE - 1) + 1
Guaranteed == Bits(BUFFER_SIZE - 2)

\* put_bits refuses a bit only when more than BUFFER_SIZE-2 bytes' worth wait,
\* also when the tail it tests is about to move.
RefusesNearlyFull ==
  [][(\E b \in Bit : WLoadTail(b)) /\ Succ(head) = tail /\ ~early
       => Waiting > Guaranteed]_vars

\* A step that moves a bit puts it behind those that wait, of which there are
\* less than the capacity, or takes the oldest one of them.
CarriesInOrder ==
  [][~early =>
       \/ UNCHANGED <<sent, got>>
       \/ \E b \in Bit : Waiting < Capacity /\ sent' = Append(sent, b) /\ UNCHANGED got
       \/ Waiting > 0 /\ got' = Append(got, sent[Len(got) + 1]) /\ UNCHANGED sent]_vars

\* get_bits says "empty" only when nothing waits, when the bit that waits is not
\* counted yet, or when the writer has opened a byte since head was loaded.
EmptyUnlessOvertaken ==
  [][RLoadCount /\ rpc' = "idle" /\ ~early
       => Waiting = 0 \/ wpc = "storeCount" \/ head # rh]_vars

\* The byte before the full test closes takes one bit.
LastByte ==
  Used = BUFFER_SIZE - 1 => Written <= 1 /\ (wpc = "or" => cp = 0)

LEMMA InitLastByte == Init => LastByte
<1> SUFFICES ASSUME Init PROVE LastByte
  OBVIOUS
<1>1. Used = 0 /\ Written = 0 /\ wpc = "idle"
  BY ThreadsAssumption DEF Init, Used, Dist, Written
<1> QED BY <1>1 DEF LastByte

\* Only storeHead makes the reader and the writer further apart, and it opens a
\* byte; the byte it opens then takes a bit, and the full test no other.
LEMMA NextLastByte ==
  ASSUME TypeOK, Locals, Joint, LastByte, [Next]_vars,
         RStoreTail => head # t
  PROVE  LastByte'
<1>0. Used \in 0 .. (BUFFER_SIZE - 1) /\ BUFFER_SIZE \in Nat
  BY Derived, ThreadsAssumption
<1>1. ASSUME NEW b \in Bit, WLoadTail(b) PROVE LastByte'
  <2>1. /\ wpc = "idle" /\ head' = head /\ t' = t /\ cp' = count_put /\ count_put' = count_put
        /\ wpc' = IF Succ(head) = tail THEN "idle"
                  ELSE IF count_put = SIZE_BYTE THEN "storeHead" ELSE "or"
    BY <1>1 DEF WLoadTail, ring, reader
  <2>2. Used' = Used /\ Written' = Written
    BY <2>1 DEF Used, Written, Dist
  <2>3. Used = BUFFER_SIZE - 1 => Succ(head) = tail
    <3>1. head \in Slot /\ t \in Slot /\ t = tail
      BY DEF TypeOK, Locals
    <3> QED BY <3>1, SuccFacts, ThreadsAssumption DEF Used, Dist, Slot
  <2> QED BY <2>1, <2>2, <2>3 DEF LastByte
<1>2. CASE WStoreHead
  <2>1. wpc' = "clear"
    BY <1>2 DEF WStoreHead
  <2> QED BY <2>1 DEF LastByte, Written
<1>3. CASE WClear
  <2>1. wpc' = "zeroCount"
    BY <1>3 DEF WClear
  <2> QED BY <2>1 DEF LastByte, Written
<1>4. CASE WZeroCount
  <2>1. wpc' = "or" /\ cp' = 0
    BY <1>4 DEF WZeroCount
  <2> QED BY <2>1 DEF LastByte, Written
<1>5. CASE WOr
  <2>1. /\ wpc = "or" /\ wpc' = "storeCount" /\ cp' = cp
        /\ head' = head /\ t' = t
    BY <1>5 DEF WOr, reader
  <2>2. Used' = Used
    BY <2>1 DEF Used, Dist
  <2>3. Written' = cp + 1
    BY <2>1 DEF Written
  <2> QED BY <2>1, <2>2, <2>3 DEF LastByte
<1>6. CASE WStoreCount
  <2>1. /\ wpc = "storeCount" /\ wpc' = "idle" /\ count_put' = cp + 1
        /\ head' = head /\ t' = t
    BY <1>6 DEF WStoreCount, reader
  <2>2. Used' = Used /\ Written' = Written
    BY <2>1 DEF Used, Dist, Written
  <2> QED BY <2>1, <2>2 DEF LastByte
<1>7. CASE RStoreTail
  <2>1. t' = Succ(t) /\ head' = head /\ t # head /\ t \in Slot /\ head \in Slot
    BY <1>7 DEF RStoreTail, writer, TypeOK
  <2>2. Used' = Used - 1
    BY <2>1, DistFacts DEF Used
  <2>3. Used' # BUFFER_SIZE - 1
    BY <1>0, <2>2
  <2> QED BY <2>3, ThreadsAssumption DEF LastByte
<1>8. CASE RLoadHead \/ RLoadCount \/ RRead \/ RStoreCount \/ UNCHANGED vars
  <2>1. t' = t /\ UNCHANGED <<head, wpc, cp, count_put>>
    <3>1. CASE RLoadHead
      BY <3>1 DEF RLoadHead, ring, writer, Locals
    <3> QED BY <1>8, <3>1 DEF RLoadCount, RRead, RStoreCount, ring, writer, reader, vars
  <2>2. Used' = Used /\ Written' = Written
    BY <2>1 DEF Used, Dist, Written
  <2> QED BY <2>1, <2>2 DEF LastByte
<1> QED BY <1>1, <1>2, <1>3, <1>4, <1>5, <1>6, <1>7, <1>8 DEF Next, Writer, Reader

QueueInv == ThreadsInv /\ (~early => LastByte)

LEMMA QueueInvariant == Spec => []QueueInv
<1>1. Init => QueueInv
  BY InitLocals, InitJoint, InitLastByte DEF QueueInv, ThreadsInv
<1>2. QueueInv /\ [Next]_vars => QueueInv'
  <2> SUFFICES ASSUME QueueInv, [Next]_vars PROVE QueueInv'
    OBVIOUS
  <2>1. ThreadsInv /\ TypeOK /\ Locals /\ (~early => Joint)
    BY DEF QueueInv, ThreadsInv
  <2>2. ThreadsInv'
    BY <2>1, NextLocals, NextJoint, EarlyStays DEF ThreadsInv
  <2>3. ASSUME ~early' PROVE LastByte'
    <3>1. ~early
      BY <2>3, EarlyStays
    <3>2. Joint /\ LastByte
      BY <2>1, <3>1 DEF QueueInv
    <3> QED BY <2>1, <3>2, RStoreTailJoint, NextLastByte
  <2> QED BY <2>2, <2>3 DEF QueueInv
<1> QED BY <1>1, <1>2, PTL DEF Spec

\* What waits, by the counts of the two threads.
LEMMA WaitingIs ==
  ASSUME TypeOK, Locals, Joint
  PROVE  Waiting = Bits(Used) + Written - Returned /\ Waiting >= 0
<1>1. Len(sent) = (Len(got) - Returned) + Bits(Used) + Written /\ Len(got) <= Len(sent)
  BY DEF Joint, Counts, Base, Prefix
<1>2. /\ Len(sent) \in Nat /\ Len(got) \in Nat /\ Bits(Used) \in Nat
      /\ Written \in Int /\ Returned \in Int
  BY Derived
<1> QED BY ONLY <1>1, <1>2 DEF Waiting

LEMMA TwoSizes ==
  /\ Bits(BUFFER_SIZE - 1) = Bits(BUFFER_SIZE - 2) + SIZE_BYTE
  /\ Bits(BUFFER_SIZE - 1) \in Nat /\ Bits(BUFFER_SIZE - 2) \in Nat
<1>1. BUFFER_SIZE - 2 \in Nat /\ (BUFFER_SIZE - 2) + 1 = BUFFER_SIZE - 1
  BY ThreadsAssumption
<1> QED BY <1>1, BitsFacts

LEMMA RefusalStep ==
  ASSUME TypeOK, Locals, Joint, NEW b \in Bit, WLoadTail(b), Succ(head) = tail
  PROVE  Waiting > Guaranteed
<1>1. wpc = "idle" /\ Written = count_put
  BY DEF WLoadTail, Written
<1>2. Used = BUFFER_SIZE - 1 /\ head # t
  <2>1. head \in Slot /\ t \in Slot /\ t = tail
    BY DEF TypeOK, Locals
  <2> QED BY <2>1, SuccFacts, ThreadsAssumption DEF Used, Dist, Slot
<1>3. count_put >= 1
  BY <1>1, <1>2, ThreadsAssumption DEF TypeOK, Joint, Opened
<1>4. Returned <= SIZE_BYTE /\ Returned \in Int /\ SIZE_BYTE \in Nat /\ count_put \in Int
  BY Derived, ThreadsAssumption DEF TypeOK
<1>5. Waiting = Bits(BUFFER_SIZE - 1) + count_put - Returned
  BY <1>1, <1>2, WaitingIs
<1> HIDE DEF Waiting
<1> QED BY <1>3, <1>4, <1>5, TwoSizes DEF Guaranteed

LEMMA CarryStep ==
  ASSUME TypeOK, Locals, Joint, LastByte, [Next]_vars
  PROVE  \/ UNCHANGED <<sent, got>>
         \/ \E b \in Bit : Waiting < Capacity /\ sent' = Append(sent, b) /\ UNCHANGED got
         \/ Waiting > 0 /\ got' = Append(got, sent[Len(got) + 1]) /\ UNCHANGED sent
<1>1. CASE WOr
  <2>1. bit \in Bit /\ sent' = Append(sent, bit) /\ UNCHANGED got /\ wpc = "or"
    BY <1>1 DEF WOr, TypeOK
  <2>2. Written = cp /\ cp \in Nat /\ cp < SIZE_BYTE /\ SIZE_BYTE \in Nat
    BY <2>1, ThreadsAssumption DEF Written, TypeOK, Locals
  <2>3. Returned \in Int /\ Returned >= 0 /\ Bits(Used) \in Nat
    BY Derived
  <2>4. Waiting = Bits(Used) + cp - Returned
    BY <2>2, WaitingIs
  <2>5. Waiting < Capacity
    <3>1. CASE Used = BUFFER_SIZE - 1
      <4>1. cp = 0
        BY <2>1, <3>1 DEF LastByte
      <4> HIDE DEF Waiting
      <4> QED BY <4>1, <3>1, <2>3, <2>4, TwoSizes DEF Capacity
    <3>2. CASE Used # BUFFER_SIZE - 1
      <4>1. Used \in Nat /\ BUFFER_SIZE - 1 \in Nat /\ Used < BUFFER_SIZE - 1
        BY <3>2, Derived, ThreadsAssumption
      <4>2. Bits(Used) + SIZE_BYTE <= Bits(BUFFER_SIZE - 1)
        BY <4>1, BitsFacts
      <4> HIDE DEF Waiting
      <4> QED BY <4>2, <2>2, <2>3, <2>4, TwoSizes DEF Capacity
    <3> QED BY <3>1, <3>2
  <2> QED BY <2>1, <2>5
<1>2. CASE RRead
  <2>1. Len(got) < Len(sent) /\ Len(got) \in Nat /\ Len(sent) \in Nat
    BY <1>2, Derived DEF RRead, Joint, Promise
  <2>2. Waiting > 0
    BY ONLY <2>1 DEF Waiting
  <2>3. got' = Append(got, buf[t][cg]) /\ UNCHANGED sent
    <3>1. Len(got) <= MaxBits
      BY <2>1, ThreadsAssumption DEF Locals
    <3> QED BY <1>2, <3>1 DEF RRead
  <2>4. buf[t][cg] \in Bit
    <3>1. t \in Slot /\ cg \in Pos
      BY <1>2, ThreadsAssumption DEF RRead, TypeOK, Locals, Pos
    <3> QED BY <3>1 DEF TypeOK, Byte
  <2>5. got'[Len(got) + 1] = buf[t][cg] /\ Len(got') = Len(got) + 1
    BY <2>3, <2>4, AppendProperties DEF TypeOK
  <2>6. got'[Len(got) + 1] = sent'[Len(got) + 1]
    <3>1. Prefix'
      BY <1>2, RReadJoint DEF Joint
    <3>2. Len(got) + 1 \in 1 .. Len(got')
      BY <2>1, <2>5
    <3> QED BY <3>1, <3>2 DEF Prefix
  <2> QED BY <2>2, <2>3, <2>5, <2>6
<1>3. CASE UNCHANGED <<sent, got>>
  BY <1>3
<1> QED BY <1>1, <1>2, <1>3 DEF Next, Writer, Reader, WLoadTail, WStoreHead, WClear,
        WZeroCount, WStoreCount, RLoadHead, RLoadCount, RStoreTail, RStoreCount, vars

LEMMA EmptyStep ==
  ASSUME TypeOK, Locals, Joint, RLoadCount, rpc' = "idle",
         wpc # "storeCount", head = rh
  PROVE  Waiting = 0
<1>1. t = rh /\ count_get = count_put /\ rpc = "loadCount"
  BY DEF RLoadCount
<1>2. Used = 0 /\ Bits(Used) = 0
  BY <1>1, Derived, BitsFacts
<1>3. Returned = count_put /\ count_put \in Nat
  BY <1>1, ThreadsAssumption DEF Returned, TypeOK
<1>4. Written \in 0 .. count_put
  BY <1>3 DEF Written, TypeOK, Locals
<1>5. Waiting = 0 + Written - count_put /\ Waiting >= 0
  BY <1>2, <1>3, WaitingIs
<1> HIDE DEF Waiting, Written
<1> QED BY <1>3, <1>4, <1>5

\* However main and the callback overlap, put_bits turns a bit away only when the
\* ring is nearly full: the bound of the sequential ring holds for two threads.
THEOREM RefusesOnlyNearlyFull == Spec => RefusesNearlyFull
<1>1. ThreadsInv /\ [Next]_vars =>
        [(\E b \in Bit : WLoadTail(b)) /\ Succ(head) = tail /\ ~early
           => Waiting > Guaranteed]_vars
  BY RefusalStep DEF ThreadsInv
<1> QED BY <1>1, ThreadsInvariant, PTL DEF Spec, RefusesNearlyFull

\* Until a read is early, the two threads move bits as the bounded queue does:
\* never more than its capacity, the oldest first.
THEOREM QueueUntilEarly == Spec => CarriesInOrder
<1>1. QueueInv /\ [Next]_vars =>
        [~early =>
           \/ UNCHANGED <<sent, got>>
           \/ \E b \in Bit : Waiting < Capacity /\ sent' = Append(sent, b) /\ UNCHANGED got
           \/ Waiting > 0 /\ got' = Append(got, sent[Len(got) + 1]) /\ UNCHANGED sent]_vars
  BY CarryStep DEF QueueInv, ThreadsInv
<1> QED BY <1>1, QueueInvariant, PTL DEF Spec, CarriesInOrder

\* The callback is told "empty" of a ring that is not, only by a call of put_bits
\* that has not returned, or after main has opened a byte since head was loaded:
\* the count it then compares belongs to another byte.
THEOREM EmptyUnlessOpened == Spec => EmptyUnlessOvertaken
<1>1. ThreadsInv /\ [Next]_vars =>
        [RLoadCount /\ rpc' = "idle" /\ ~early
           => Waiting = 0 \/ wpc = "storeCount" \/ head # rh]_vars
  BY EmptyStep DEF ThreadsInv
<1> QED BY <1>1, ThreadsInvariant, PTL DEF Spec, EmptyUnlessOvertaken
=============================================================================
