---------------------------- MODULE Transmitter ----------------------------
(***************************************************************************)
(* The transmit path: main.c pushes the warm-up packets and then, when the *)
(* TUN has a packet and the ring has room, a preamble, a sync word and the *)
(* frame tun_to_rb makes of the packet; PortAudio's callback takes two     *)
(* bits a symbol out of the same ring.                                     *)
(*                                                                         *)
(* The ring is BitRing's, a whole put_bits or get_bits at a step.  Frames  *)
(* are counted, not spelled: every bit is 1, and a packet is the length    *)
(* its payload has after ROHC or LZ4 and FEC.                              *)
(***************************************************************************)
EXTENDS BitRing

CONSTANTS
  OVERHEAD,            \* bits of preamble and sync word (16 + 32)
  HEADER,              \* bits of the frame header (16)
  MAX_TX_FRAME_BYTES,  \* room main.c asks for (1024)
  Lens,                \* payload bytes of the frames tun_to_rb makes
  IR_COUNT, IR_LEN,    \* warm-up packets (8) and their payload bytes (28)
  MaxPackets,          \* bound: packets the kernel queues on the TUN
  MaxReadErrors        \* bound: reads of the TUN that fail

ASSUME TransmitterAssumption ==
  /\ OVERHEAD \in Nat /\ HEADER \in Nat
  /\ IR_COUNT \in Nat /\ IR_LEN \in Nat
  /\ MaxPackets \in Nat /\ MaxReadErrors \in Nat
  /\ Lens \subseteq Nat
  /\ MAX_TX_FRAME_BYTES \in Nat /\ MAX_TX_FRAME_BYTES >= 2

VARIABLES
  pc,        \* main: "sleep", "ir", "poll", "overhead", "read", "frame"
  left,      \* bits main has still to push of what it is pushing
  irs,       \* warm-up packets not pushed yet
  arrived,   \* packets the kernel has queued on the TUN so far
  taken,     \* packets tun_read has returned so far
  errors,    \* reads of the TUN that failed
  cb,        \* callback: the bit of the symbol it asks for next
  frame,     \* history: payload bytes of the frame being pushed
  cut,       \* history: the lengths of the frames of which a bit was refused
  raced      \* history: the callback emptied the ring inside a push

txVars == <<pc, left, irs, arrived, taken, errors, cb, frame, cut, raced>>
vars   == <<ringVars, txVars>>

FrameBits(L) == HEADER + Bits(L)

\* A frame of L bytes needs no more bits than MAX_TX_FRAME_BYTES free bytes are
\* sure to take: the byte being written may be finished, and the last free byte
\* takes one bit.
Fits(L) == OVERHEAD + FrameBits(L) <= Bits(MAX_TX_FRAME_BYTES - 2) + 1

-----------------------------------------------------------------------------
Init ==
  /\ RingInit
  /\ pc = "sleep" /\ left = 0 /\ irs = IR_COUNT
  /\ arrived = 0 /\ taken = 0 /\ errors = 0
  /\ cb = "first"
  /\ frame = 0 /\ cut = {} /\ raced = FALSE

Refused  == Succ(head) = tail
Accepted == ~Refused

\* main.c: the sleep before a warm-up packet ends (5 s, then 50 ms each).
IrBegin ==
  /\ pc = "sleep" /\ irs > 0
  /\ pc' = "ir"
  /\ left' = OVERHEAD + FrameBits(IR_LEN)
  /\ irs' = irs - 1
  /\ UNCHANGED <<ringVars, arrived, taken, errors, cb, frame, cut, raced>>

\* One bit of a warm-up packet; the result of put_bits is not looked at.
IrBit ==
  /\ pc = "ir" /\ left > 0
  /\ Put(1)
  /\ left' = left - 1
  /\ pc' = IF left = 1 THEN "sleep" ELSE pc
  /\ UNCHANGED <<irs, arrived, taken, errors, cb, frame, cut, raced>>

WarmUpDone ==
  /\ pc = "sleep" /\ irs = 0
  /\ pc' = "poll"
  /\ UNCHANGED <<ringVars, left, irs, arrived, taken, errors, cb, frame, cut, raced>>

\* The kernel queues a packet on the TUN.
Arrive ==
  /\ arrived < MaxPackets
  /\ arrived' = arrived + 1
  /\ UNCHANGED <<ringVars, pc, left, irs, taken, errors, cb, frame, cut, raced>>

\* Mutant: the room up to the end of the array.
FreeToEnd == BUFFER_SIZE - head

\* Mutant: the difference of the indices is not masked.
FreeUnmasked == BUFFER_SIZE - (head - tail)

\* main.c's free_space, in whole bytes.
Free == BUFFER_SIZE - Used

\* poll reports a packet and there is room: main pushes the overhead first.
\* (With less room main goes round its loop and changes nothing.)
Admit ==
  /\ pc = "poll" /\ arrived > taken
  /\ Free >= MAX_TX_FRAME_BYTES
  /\ pc' = "overhead"
  /\ left' = OVERHEAD
  /\ UNCHANGED <<ringVars, irs, arrived, taken, errors, cb, frame, cut, raced>>

\* push_preamble and push_sync_word; the result of put_bits is not looked at.
OverheadBit ==
  /\ pc = "overhead" /\ left > 0
  /\ Put(1)
  /\ left' = left - 1
  /\ UNCHANGED <<pc, irs, arrived, taken, errors, cb, frame, cut, raced>>

OverheadDone ==
  /\ pc = "overhead" /\ left = 0
  /\ pc' = "read"
  /\ UNCHANGED <<ringVars, left, irs, arrived, taken, errors, cb, frame, cut, raced>>

\* tun_read fails: the overhead just pushed stays, followed by no frame.
ReadFails ==
  /\ pc = "read" /\ errors < MaxReadErrors
  /\ errors' = errors + 1
  /\ pc' = "poll"
  /\ UNCHANGED <<ringVars, left, irs, arrived, taken, cb, frame, cut, raced>>

\* Mutant: the header loop stops at bit 1.
ReadShortHeader ==
  /\ pc = "read"
  /\ \E L \in Lens :
       /\ frame' = L
       /\ left' = FrameBits(L) - 1
  /\ taken' = taken + 1
  /\ pc' = "frame"
  /\ UNCHANGED <<ringVars, irs, arrived, errors, cb, cut, raced>>

\* tun_to_rb has read a packet and made a frame of it.
Read ==
  /\ pc = "read"
  /\ \E L \in Lens :
       /\ frame' = L
       /\ left' = FrameBits(L)
  /\ taken' = taken + 1
  /\ pc' = "frame"
  /\ UNCHANGED <<ringVars, irs, arrived, errors, cb, cut, raced>>

\* Mutant: one bit too many is pushed.
FrameBitLong ==
  /\ pc = "frame" /\ left >= 0 /\ Accepted
  /\ Put(1)
  /\ left' = left - 1
  /\ UNCHANGED <<pc, irs, arrived, taken, errors, cb, frame, cut, raced>>

\* A bit of the header or of the payload is accepted.
FrameBit ==
  /\ pc = "frame" /\ left > 0 /\ Accepted
  /\ Put(1)
  /\ left' = left - 1
  /\ UNCHANGED <<pc, irs, arrived, taken, errors, cb, frame, cut, raced>>

\* A bit is refused: tun_to_rb returns, and what it pushed stays in the ring.
FrameCut ==
  /\ pc = "frame" /\ left > 0 /\ Refused
  /\ Put(1)
  /\ cut' = cut \cup {frame}
  /\ left' = 0 /\ pc' = "poll"
  /\ UNCHANGED <<irs, arrived, taken, errors, cb, frame, raced>>

FrameDone ==
  /\ pc = "frame" /\ left = 0
  /\ pc' = "poll"
  /\ UNCHANGED <<ringVars, left, irs, arrived, taken, errors, cb, frame, cut, raced>>

Pushing == pc \in {"ir", "overhead", "read", "frame"}

\* paCallback at a symbol boundary: the first bit.
SymbolFirst ==
  /\ cb = "first" /\ ~IsEmpty
  /\ Get
  /\ cb' = "second"
  /\ UNCHANGED <<pc, left, irs, arrived, taken, errors, frame, cut, raced>>

\* The second bit: the symbol is complete.
SymbolSecond ==
  /\ cb = "second" /\ ~IsEmpty
  /\ Get
  /\ cb' = "first"
  /\ UNCHANGED <<pc, left, irs, arrived, taken, errors, frame, cut, raced>>

\* The second bit is not there: the first one is dropped and the idle symbol
\* sent in its place.
SymbolHalf ==
  /\ cb = "second" /\ IsEmpty
  /\ Get
  /\ cb' = "first"
  /\ raced' = (raced \/ Pushing)
  /\ UNCHANGED <<pc, left, irs, arrived, taken, errors, frame, cut>>

\* Nothing to send: the idle symbol.
SymbolIdle ==
  /\ cb = "first" /\ IsEmpty
  /\ Get
  /\ raced' = (raced /\ Pushing)
  /\ UNCHANGED <<pc, left, irs, arrived, taken, errors, cb, frame, cut>>

Main == \/ IrBegin \/ IrBit \/ WarmUpDone
        \/ Admit \/ OverheadBit \/ OverheadDone
        \/ ReadFails \/ Read \/ FrameBit \/ FrameCut \/ FrameDone

Callback == SymbolFirst \/ SymbolSecond \/ SymbolHalf \/ SymbolIdle

Next == Main \/ Callback \/ Arrive

\* PortAudio calls the callback as long as the stream runs, and main is never
\* blocked for good: poll has a timeout of 5 ms and the ring no lock.
Fairness == WF_vars(Main) /\ WF_vars(Callback)

Spec == Init /\ [][Next]_vars /\ Fairness

-----------------------------------------------------------------------------
\* Main and the callback stay in the states of their code, main never pushes
\* past the end of a frame, and it takes from the TUN only what arrived.
TypeOK ==
  /\ pc \in {"sleep", "ir", "poll", "overhead", "read", "frame"}
  /\ left \in Nat
  /\ irs \in 0 .. IR_COUNT
  /\ arrived \in 0 .. MaxPackets /\ taken \in 0 .. MaxPackets
  /\ taken <= arrived
  /\ pc \in {"overhead", "read"} => taken < arrived
  /\ errors \in 0 .. MaxReadErrors
  /\ cb \in {"first", "second"}
  /\ frame \in Lens \cup {0}
  /\ cut \in SUBSET Lens
  /\ raced \in BOOLEAN

\* The room main.c asks for before it admits a packet is enough for every frame
\* that fits it, with the preamble and sync word it pushes first, the byte that
\* is partly written and the last byte that takes a single bit: put_bits
\* refuses no bit of such a frame, whatever the callback does meanwhile.
OnlyOversizeCut == \A L \in cut : ~Fits(L)

\* No frame loses its end to a full ring: what the backpressure is there for.
NoFrameCut == cut = {}

\* Frames start on a symbol: between pushes, the bits that wait make whole
\* symbols, unless a frame was cut or the callback, catching up with main in
\* the middle of a push, dropped a bit (and then only until the ring is empty).
WholeSymbols ==
  (~Pushing /\ ~raced /\ cut = {}) =>
    (Len(pending) % 2 = IF cb = "second" THEN 1 ELSE 0)

\* Every packet the kernel queues is read, and what is pushed of it, its
\* preamble and its sync word leaves the ring: main, which waits for room, and
\* the callback, which makes it, never end up waiting for each other.
PacketsSent ==
  \A n \in 1 .. MaxPackets :
    arrived >= n ~> (taken >= n /\ pc = "poll" /\ pending = <<>>)
=============================================================================
