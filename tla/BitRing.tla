------------------------------ MODULE BitRing ------------------------------
(***************************************************************************)
(* The ring of bits of src/src/rb_bits.c, one call at a time.              *)
(*                                                                         *)
(* A byte of the ring is a function from bit positions to bits.  head is   *)
(* the byte being written and count_put the number of bits written in it;  *)
(* tail is the byte being read and count_get the number of bits read from  *)
(* it.  Neither index moves when its byte is finished: the NEXT call moves *)
(* it, which is what makes "empty" and "full" hard to tell apart here.     *)
(*                                                                         *)
(* pending is a history variable: the accepted bits not yet returned.  No  *)
(* guard and no other variable depends on it.                              *)
(***************************************************************************)
EXTENDS Integers, Sequences

CONSTANTS BUFFER_SIZE,  \* bytes in the ring (16384 in the code)
          SIZE_BYTE     \* bits in a byte (8 in the code)

ASSUME SizeAssumption ==
  /\ BUFFER_SIZE \in Nat /\ BUFFER_SIZE >= 2
  /\ SIZE_BYTE \in Nat /\ SIZE_BYTE >= 1

VARIABLES head, tail, count_put, count_get, buf,
          ret,          \* what the last call returned
          pending       \* history: the bits accepted and not yet returned

ringVars == <<head, tail, count_put, count_get, buf, ret, pending>>

Bit  == {0, 1}
Slot == 0 .. (BUFFER_SIZE - 1)
Pos  == 0 .. (SIZE_BYTE - 1)
Byte == [Pos -> Bit]
Zero == [k \in Pos |-> 0]

\* Mutant: the index is advanced without the mask.
SuccUnmasked(i) == i + 1

\* (i + 1) & BUFFER_MASK: BUFFER_SIZE is a power of two, so this wraps to 0.
Succ(i) == IF i = BUFFER_SIZE - 1 THEN 0 ELSE i + 1

\* The slot d bytes after slot i.
Ahead(i, d) == IF i + d < BUFFER_SIZE THEN i + d ELSE i + d - BUFFER_SIZE

\* (head - tail) & BUFFER_MASK, as main.c computes it.
Used == IF head >= tail THEN head - tail ELSE head - tail + BUFFER_SIZE

\* The number of bits in n bytes.
Bits(n) == SIZE_BYTE * n

\* buf[h] |= bit << cp
OrBit(byte, cp, b) == [byte EXCEPT ![cp] = IF b = 1 THEN 1 ELSE @]

Result(op, ok, bit) == [op |-> op, ok |-> ok, bit |-> bit]

-----------------------------------------------------------------------------
\* rb_init: malloc leaves every byte but the first as it found it.
RingInit ==
  /\ head = 0 /\ tail = 0 /\ count_put = 0 /\ count_get = 0
  /\ buf \in [Slot -> Byte]
  /\ buf[0] = Zero
  /\ ret = Result("init", 1, 0)
  /\ pending = <<>>

\* put_bits, the ring is full: the test looks at whole bytes only.
PutFull(b) ==
  /\ Succ(head) = tail
  /\ ret' = Result("put", 0, b)
  /\ UNCHANGED <<head, tail, count_put, count_get, buf, pending>>

\* put_bits into the byte being written.
PutSameByte(b) ==
  /\ Succ(head) # tail
  /\ count_put # SIZE_BYTE
  /\ buf' = [buf EXCEPT ![head] = OrBit(@, count_put, b)]
  /\ count_put' = count_put + 1
  /\ ret' = Result("put", 1, b)
  /\ pending' = Append(pending, b)
  /\ UNCHANGED <<head, tail, count_get>>

\* Mutant: the byte opened is not cleared, so the OR keeps stale bits.
PutNextByteUncleared(b) ==
  /\ Succ(head) # tail
  /\ count_put = SIZE_BYTE
  /\ head' = Succ(head)
  /\ buf' = [buf EXCEPT ![Succ(head)] = OrBit(@, 0, b)]
  /\ count_put' = 1
  /\ ret' = Result("put", 1, b)
  /\ pending' = Append(pending, b)
  /\ UNCHANGED <<tail, count_get>>

\* put_bits when the byte being written is finished: open the next one.
PutNextByte(b) ==
  /\ Succ(head) # tail
  /\ count_put = SIZE_BYTE
  /\ head' = Succ(head)
  /\ buf' = [buf EXCEPT ![Succ(head)] = OrBit(Zero, 0, b)]
  /\ count_put' = 1
  /\ ret' = Result("put", 1, b)
  /\ pending' = Append(pending, b)
  /\ UNCHANGED <<tail, count_get>>

Put(b) == PutFull(b) \/ PutSameByte(b) \/ PutNextByte(b)

\* Mutant: emptiness judged by the bytes alone.
IsEmptyBytesOnly == tail = head

\* The test of get_bits for "nothing to read".
IsEmpty == tail = head /\ count_get = count_put

GetEmpty ==
  /\ IsEmpty
  /\ ret' = Result("get", 0, 0)
  /\ UNCHANGED <<head, tail, count_put, count_get, buf, pending>>

\* get_bits from the byte being read.
GetSameByte ==
  /\ ~IsEmpty
  /\ count_get # SIZE_BYTE
  /\ ret' = Result("get", 1, buf[tail][count_get])
  /\ count_get' = count_get + 1
  /\ pending' = Tail(pending)
  /\ UNCHANGED <<head, tail, count_put, buf>>

\* get_bits when the byte being read is exhausted: move to the next one.
GetNextByte ==
  /\ ~IsEmpty
  /\ count_get = SIZE_BYTE
  /\ tail' = Succ(tail)
  /\ ret' = Result("get", 1, buf[Succ(tail)][0])
  /\ count_get' = 1
  /\ pending' = Tail(pending)
  /\ UNCHANGED <<head, count_put, buf>>

Get == GetEmpty \/ GetSameByte \/ GetNextByte

\* Mutant: the first byte keeps its bits.
ResetUncleared ==
  /\ head' = 0 /\ tail' = 0 /\ count_put' = 0 /\ count_get' = 0
  /\ ret' = Result("reset", 1, 0)
  /\ pending' = <<>>
  /\ UNCHANGED buf

\* rb_reset: only the first byte is cleared.
Reset ==
  /\ head' = 0 /\ tail' = 0 /\ count_put' = 0 /\ count_get' = 0
  /\ buf' = [buf EXCEPT ![0] = Zero]
  /\ ret' = Result("reset", 1, 0)
  /\ pending' = <<>>

RingNext == (\E b \in Bit : Put(b)) \/ Get \/ Reset

RingSpec == RingInit /\ [][RingNext]_ringVars

-----------------------------------------------------------------------------
\* Bits waiting, from the four control fields alone.
Stored == Bits(Used) + count_put - count_get

Capacity   == Bits(BUFFER_SIZE - 1) + 1
Guaranteed == Bits(BUFFER_SIZE - 2)

\* The control fields stay in the ranges the code's indexing needs: head and
\* tail inside buf, and no more than a byte's bits counted in either byte.
RingTypeOK ==
  /\ head \in Slot /\ tail \in Slot
  /\ count_put \in 0 .. SIZE_BYTE /\ count_get \in 0 .. SIZE_BYTE
  /\ buf \in [Slot -> Byte]
  /\ ret \in [op : {"init", "put", "get", "reset"}, ok : {0, 1}, bit : Bit]
  /\ pending \in Seq(Bit)

\* put_bits and get_bits never disagree about where the data ends: the reader
\* does not overtake the writer inside their common byte, a byte opened by the
\* writer always holds a bit (so a reader that follows it there finds one),
\* and the last byte before "full" holds exactly one.
RingShape ==
  /\ head = tail => count_get <= count_put
  /\ count_put = 0 => head = tail /\ count_get = 0
  /\ Used = BUFFER_SIZE - 1 => count_put = 1

\* The number of bits the control fields of the ring stand for is the number
\* accepted and not yet returned, and the positions put_bits has not reached
\* in its byte are zero, which its OR relies on.
RingCounts ==
  /\ Len(pending) = Stored
  /\ \A k \in Pos : k >= count_put => buf[head][k] = 0

\* The fields of the two ends agree with each other and with what was accepted.
RingAgrees == RingShape /\ RingCounts

\* The bits between the reader and the writer are the accepted bits, in order,
\* whatever the memory held before and however often the indices wrapped.
RingContents ==
  \A d \in 0 .. Used, k \in Pos :
    LET n == Bits(d) + k - count_get + 1
    IN  n \in 1 .. Len(pending) => buf[Ahead(tail, d)][k] = pending[n]

\* rb_bits.c implements the bounded queue: nothing accepted is lost, altered,
\* repeated or reordered, "empty" is said only of an empty queue, and a put is
\* refused only when more than BUFFER_SIZE-2 bytes' worth of bits wait.
Fifo == INSTANCE BitFifo WITH q <- pending

ImplementsFifo == Fifo!Spec
=============================================================================
