--------------------------- MODULE BitRingThreads ---------------------------
(***************************************************************************)
(* put_bits and get_bits of src/src/rb_bits.c run by two threads, as main  *)
(* and PortAudio's callback run them on tx_rb: one thread only puts, the   *)
(* other only gets, and a step is one access to a field the other thread   *)
(* uses.  (A thread's loads of fields that only it stores are done in the  *)
(* step of the access that follows.)  The fields are C11 atomics with the  *)
(* default ordering, so the accesses interleave.                           *)
(*                                                                         *)
(* The writer stores head before the byte it opens holds a bit.  early is  *)
(* a history variable: the empty test of get_bits has let the reader read  *)
(* although every bit written so far had been returned.  sent and got are  *)
(* the histories of the bits written and returned.                         *)
(***************************************************************************)
EXTENDS Integers, Sequences, SequencesExt

CONSTANTS BUFFER_SIZE, SIZE_BYTE,
          MaxBits       \* bound: bits the writer puts; got records one more

ASSUME ThreadsAssumption ==
  /\ BUFFER_SIZE \in Nat /\ BUFFER_SIZE >= 2
  /\ SIZE_BYTE \in Nat /\ SIZE_BYTE >= 1
  /\ MaxBits \in Nat

VARIABLES
  head, tail, count_put, count_get, buf,  \* struct Buffer
  wpc, h, cp, bit,                        \* put_bits: next step and locals
  rpc, rh, t, cg,                         \* get_bits: next step and locals
  sent, got, early                        \* history

ring   == <<head, tail, count_put, count_get, buf>>
writer == <<wpc, h, cp, bit>>
reader == <<rpc, rh, t, cg>>
vars   == <<ring, writer, reader, sent, got, early>>

Bit  == {0, 1}
Slot == 0 .. (BUFFER_SIZE - 1)
Pos  == 0 .. (SIZE_BYTE - 1)
Byte == [Pos -> Bit]
Zero == [k \in Pos |-> 0]

\* Mutant: no mask.
SuccUnmasked(i) == i + 1

\* (i + 1) & BUFFER_MASK
Succ(i) == (i + 1) % BUFFER_SIZE

Init ==
  /\ head = 0 /\ tail = 0 /\ count_put = 0 /\ count_get = 0
  /\ buf \in [Slot -> Byte] /\ buf[0] = Zero
  /\ wpc = "idle" /\ h = 0 /\ cp = 0 /\ bit = 0
  /\ rpc = "idle" /\ rh = 0 /\ t = 0 /\ cg = 0
  /\ sent = <<>> /\ got = <<>> /\ early = FALSE

-----------------------------------------------------------------------------
(* put_bits                                                                *)

\* Mutant: the full test is left out.
WLoadTailUnchecked(b) ==
  /\ wpc = "idle" /\ Len(sent) < MaxBits
  /\ h' = head /\ cp' = count_put /\ bit' = b
  /\ wpc' = IF count_put = SIZE_BYTE THEN "storeHead" ELSE "or"
  /\ UNCHANGED <<ring, reader, sent, got, early>>

\* Enter, load head, tail and count_put, and test for full.
WLoadTail(b) ==
  /\ wpc = "idle" /\ Len(sent) < MaxBits
  /\ h' = head /\ cp' = count_put /\ bit' = b
  /\ wpc' = IF Succ(head) = tail THEN "idle"
            ELSE IF count_put = SIZE_BYTE THEN "storeHead" ELSE "or"
  /\ UNCHANGED <<ring, reader, sent, got, early>>

WStoreHead ==
  /\ wpc = "storeHead"
  /\ h' = Succ(h) /\ head' = Succ(h)
  /\ wpc' = "clear"
  /\ UNCHANGED <<tail, count_put, count_get, buf, cp, bit, reader, sent, got, early>>

WClear ==
  /\ wpc = "clear"
  /\ buf' = [buf EXCEPT ![h] = Zero]
  /\ wpc' = "zeroCount"
  /\ UNCHANGED <<head, tail, count_put, count_get, h, cp, bit, reader, sent, got, early>>

WZeroCount ==
  /\ wpc = "zeroCount"
  /\ count_put' = 0 /\ cp' = 0
  /\ wpc' = "or"
  /\ UNCHANGED <<head, tail, count_get, buf, h, bit, reader, sent, got, early>>

\* buf[h] |= bit << cp
WOr ==
  /\ wpc = "or"
  /\ buf' = [buf EXCEPT ![h][cp] = IF bit = 1 THEN 1 ELSE @]
  /\ sent' = Append(sent, bit)
  /\ wpc' = "storeCount"
  /\ UNCHANGED <<head, tail, count_put, count_get, h, cp, bit, reader, got, early>>

\* Mutant: the count of the byte just opened is not advanced.
WStoreCountLost ==
  /\ wpc = "storeCount"
  /\ count_put' = IF cp = 0 THEN 0 ELSE cp + 1
  /\ wpc' = "idle"
  /\ UNCHANGED <<head, tail, count_get, buf, h, cp, bit, reader, sent, got, early>>

\* Mutant: one bit too many is counted.
WStoreCountOneMore ==
  /\ wpc = "storeCount"
  /\ count_put' = IF cp + 2 <= SIZE_BYTE THEN cp + 2 ELSE SIZE_BYTE
  /\ wpc' = "idle"
  /\ UNCHANGED <<head, tail, count_get, buf, h, cp, bit, reader, sent, got, early>>

\* The store that makes the bit visible, and the return.
WStoreCount ==
  /\ wpc = "storeCount"
  /\ count_put' = cp + 1
  /\ wpc' = "idle"
  /\ UNCHANGED <<head, tail, count_get, buf, h, cp, bit, reader, sent, got, early>>

Writer ==
  \/ \E b \in Bit : WLoadTail(b)
  \/ WStoreHead \/ WClear \/ WZeroCount \/ WOr \/ WStoreCount

-----------------------------------------------------------------------------
(* get_bits                                                                *)

\* Enter, load head (and tail, which only the reader stores).
RLoadHead ==
  /\ rpc = "idle"
  /\ rh' = head /\ t' = tail
  /\ rpc' = "loadCount"
  /\ UNCHANGED <<ring, writer, cg, sent, got, early>>

\* Load count_put (and count_get), and test for empty.
RLoadCount ==
  /\ rpc = "loadCount"
  /\ cg' = count_get
  /\ rpc' = IF t = rh /\ count_get = count_put THEN "idle"
            ELSE IF count_get = SIZE_BYTE THEN "storeTail" ELSE "read"
  /\ early' = (early \/ (rpc' # "idle" /\ Len(got) >= Len(sent)))
  /\ UNCHANGED <<ring, writer, rh, t, sent, got>>

RStoreTail ==
  /\ rpc = "storeTail"
  /\ t' = Succ(t) /\ tail' = Succ(t)
  /\ count_get' = 0 /\ cg' = 0
  /\ rpc' = "read"
  /\ UNCHANGED <<head, count_put, buf, writer, rh, sent, got, early>>

\* *bit = (buf[t] >> cg) & 1
RRead ==
  /\ rpc = "read"
  /\ got' = IF Len(got) <= MaxBits THEN Append(got, buf[t][cg]) ELSE got
  /\ rpc' = "storeCount"
  /\ UNCHANGED <<ring, writer, rh, t, cg, sent, early>>

RStoreCount ==
  /\ rpc = "storeCount"
  /\ count_get' = cg + 1
  /\ rpc' = "idle"
  /\ UNCHANGED <<head, tail, count_put, buf, writer, rh, t, cg, sent, got, early>>

Reader == RLoadHead \/ RLoadCount \/ RStoreTail \/ RRead \/ RStoreCount

-----------------------------------------------------------------------------
Next == Writer \/ Reader

\* Each thread keeps running: main is an ordinary thread inside its pushing
\* loops, and PortAudio calls the callback for as long as the stream is open.
Fairness == WF_vars(Writer) /\ WF_vars(Reader)

Spec == Init /\ [][Next]_vars /\ Fairness

-----------------------------------------------------------------------------
\* The fields and the locals stay in the ranges the code's indexing needs,
\* also after an early read.
TypeOK ==
  /\ head \in Slot /\ tail \in Slot /\ h \in Slot /\ t \in Slot /\ rh \in Slot
  /\ count_put \in 0 .. SIZE_BYTE /\ count_get \in 0 .. SIZE_BYTE
  /\ cp \in 0 .. SIZE_BYTE /\ cg \in 0 .. SIZE_BYTE
  /\ buf \in [Slot -> Byte] /\ bit \in Bit
  /\ wpc \in {"idle", "storeHead", "clear", "zeroCount", "or", "storeCount"}
  /\ rpc \in {"idle", "loadCount", "storeTail", "read", "storeCount"}
  /\ sent \in Seq(Bit) /\ got \in Seq(Bit) /\ early \in BOOLEAN

\* Every bit get_bits returns is the bit put_bits accepted at that place of
\* the sequence.  bitring_api.md claims the atomic fields give this without a
\* mutex; the code does not.
ReturnsAccepted ==
  \A i \in DOMAIN got : i \in DOMAIN sent => got[i] = sent[i]

\* However the calls overlap, only an early read can go wrong: until one
\* happens, nothing unread is overwritten, skipped, repeated or invented.
OnlyEarlyReadsBreak == ~early => IsPrefix(got, sent)

\* The writer has stored head but not yet the count of the byte it opens.
Opening == wpc \in {"clear", "zeroCount"} \/ (wpc \in {"or", "storeCount"} /\ cp = 0)

\* An early read happens in one place only: the reader is in, or moves to, the
\* byte the writer is opening, before the writer has stored that byte's count.
\* Inside a byte, and while whole bytes wait, reads are never early.
EarlyOnlyWhileOpening ==
  [][~early /\ early' =>
       Opening /\ head = IF rpc' = "storeTail" THEN Succ(t) ELSE t]_vars

\* Unless a read is early, a reader that keeps polling gets every bit put: no
\* bit is left behind in a byte that both threads have stopped at.
AcceptedIsRead ==
  [](~early) => \A i \in 1 .. MaxBits : (Len(sent) >= i) ~> (Len(got) >= i)
=============================================================================
