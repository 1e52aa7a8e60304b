------------------------------ MODULE Receiver ------------------------------
(***************************************************************************)
(* The receive path of src/src/echo_protocol.c and the poll loop of        *)
(* main.c: PortAudio's callback turns the sound into bits, finds frames in *)
(* them and puts their bits in rx_rb; the main thread takes a complete     *)
(* packet out of rx_rb, decodes it, writes it to the TUN and resets the    *)
(* receiver.  The two threads share struct EchoRx and rx_rb without a      *)
(* lock; packet_ready is the only field they hand over with.               *)
(*                                                                         *)
(* Scaled down: a sync word is SYNC bits, a header HEADER bits, a payload  *)
(* 1..MaxLen bits.  A bit on the air is the pair <<f, k>> (bit k of frame  *)
(* f) or Noise, which stands for idle tones, preamble and damage.  rx_rb   *)
(* is the queue BitRing is proved to implement.  A descrambled bit is the  *)
(* bit sent only if the scrambler is where the sender's was; otherwise it  *)
(* is Junk.  A step is one access to what the other thread stores, or      *)
(* several where a comment says why.                                       *)
(***************************************************************************)
EXTENDS Naturals, Sequences

CONSTANTS
  SYNC, HEADER, MaxLen,
  RxCap,          \* bits rx_rb holds
  Kinds,          \* the flags of the frames the peer sends
  MaxFrames,      \* bound: frames the peer sends
  MaxFaults,      \* bound: bits damaged or frames cut short on the air
  MaxStalls,      \* bound: pauses of the audio longer than the 6 s timeout
  WRAP,           \* bits_received counts modulo this (2^16 in the code)
  MainKeepsUp     \* main finishes a packet before the next sync word begins

ASSUME ReceiverAssumption ==
  /\ {SYNC, HEADER, MaxLen, RxCap} \subseteq Nat \ {0}
  /\ WRAP \in Nat /\ WRAP > HEADER + MaxLen
  /\ {MaxFrames, MaxFaults, MaxStalls} \subseteq Nat
  /\ Kinds \subseteq {"raw", "fec"}
  /\ MainKeepsUp \in BOOLEAN

VARIABLES
  frames, pos, clean, faults, stalls, stalled,      \* the air
  state, bits_received, packet_len, header, flags,  \* struct EchoRx
  packet_ready, scrambler, correlator, rx_rb,
  cpc, bit,                                         \* the callback
  mpc, len, read,                                   \* main
  delivered, garbage, intact                        \* what came of it

air      == <<frames, pos, clean, faults, stalls, stalled>>
rx       == <<state, bits_received, packet_len, header, flags, packet_ready,
              scrambler, correlator, rx_rb>>
callback == <<cpc, bit>>
main     == <<mpc, len, read>>
outcome  == <<delivered, garbage, intact>>
vars     == <<air, rx, callback, main, outcome>>

Noise == <<0, 0>>
Junk  == <<0, 0>>
Flags == {"raw", "fec"}        \* the flags of a header; "raw" is all flags 0

\* The bytes of audio_payload, 2 * SIZE_BUF where a header's length is at most
\* SIZE_BUF; and a length, perhaps of a header just refused, that exceeds them.
Buffer == 2 * MaxLen
Huge   == Buffer + 1

\* Bound: a scrambler this far ahead of the sender's stays out of step.
Advance(n) == IF n > HEADER + MaxLen THEN n ELSE n + 1

FrameLen(f) == SYNC + HEADER + frames[f].len

Init ==
  /\ frames = <<>> /\ pos = 0 /\ clean = FALSE /\ faults = 0 /\ stalls = 0 /\ stalled = FALSE
  /\ state = "SEARCHING" /\ bits_received = 0 /\ packet_len = 0
  /\ header = <<>> /\ flags = "raw" /\ packet_ready = FALSE
  /\ scrambler = 0 /\ correlator = 0 /\ rx_rb = <<>>
  /\ cpc = "idle" /\ bit = Noise
  /\ mpc = "poll" /\ len = 0 /\ read = <<>>
  /\ delivered = <<>> /\ garbage = 0 /\ intact = {}

-----------------------------------------------------------------------------
(* The air: what the peer sends and what happens to it.                    *)

\* Nothing is being sent: idle tones.
Idle(b) == pos = 0 /\ b = Noise /\ UNCHANGED <<frames, pos, clean, faults, intact>>

MainIdle == mpc = "poll" /\ ~packet_ready

\* The peer starts a frame.  clean: both threads were free for it when it
\* started, and nothing has damaged it since.
Start(b) ==
  /\ pos = 0 /\ Len(frames) < MaxFrames
  /\ MainKeepsUp => MainIdle
  /\ \E l \in 1 .. MaxLen, k \in Kinds : frames' = Append(frames, [len |-> l, kind |-> k])
  /\ clean' = (state = "SEARCHING" /\ MainIdle)
  /\ b = <<Len(frames) + 1, 1>>
  /\ pos' = 1
  /\ UNCHANGED <<faults, intact>>

\* The next bit of the frame arrives.  intact collects the clean frames.
Continue(b) ==
  LET f == Len(frames) IN
  /\ pos > 0
  /\ b = <<f, pos + 1>>
  /\ pos' = IF pos + 1 = FrameLen(f) THEN 0 ELSE pos + 1
  /\ intact' = IF pos' = 0 /\ clean THEN intact \cup {f} ELSE intact
  /\ clean' = (clean /\ pos' # 0)
  /\ UNCHANGED <<frames, faults>>

\* A bit is demodulated wrongly, or the rest of the frame never comes (the
\* peer dropped it when its own ring filled up).
Damage(b) ==
  LET f == Len(frames) IN
  /\ pos > 0 /\ faults < MaxFaults
  /\ faults' = faults + 1
  /\ b = Noise
  /\ pos' \in {0, IF pos + 1 = FrameLen(f) THEN 0 ELSE pos + 1}
  /\ clean' = FALSE
  /\ UNCHANGED <<frames, intact>>

\* The sound device pauses for more than 6 s; a frame on the air is cut.
Stall ==
  /\ stalls < MaxStalls /\ ~stalled /\ cpc = "idle"
  /\ stalls' = stalls + 1 /\ stalled' = TRUE
  /\ pos' = 0 /\ clean' = FALSE
  /\ UNCHANGED <<frames, faults, rx, callback, main, outcome>>

-----------------------------------------------------------------------------
(* The callback: process_rx_bit and handle_data_state for one bit.         *)

\* check_sync_word: how much of a sync word the last bits make up.
Correlate(b) ==
  IF b[1] > 0 /\ b[2] = correlator + 1 /\ b[2] <= SYNC THEN b[2]
  ELSE IF b[1] > 0 /\ b[2] = 1 THEN 1 ELSE 0

\* Searching, and the bit does not complete a sync word.
Search(b) ==
  /\ state = "SEARCHING" /\ Correlate(b) < SYNC
  /\ correlator' = Correlate(b)
  /\ UNCHANGED <<state, bits_received, packet_len, header, flags, packet_ready,
                 scrambler, rx_rb, callback>>

\* Searching, and the bit completes a sync word: a frame starts here.  The
\* stores are one step: rx_reset, which may run at the same time, stores the
\* same values in all these fields but state.
SyncFound(b) ==
  /\ state = "SEARCHING" /\ Correlate(b) = SYNC
  /\ state' = "DATA"
  /\ bits_received' = 0 /\ packet_len' = 0 /\ header' = <<>>
  /\ scrambler' = 0 /\ correlator' = SYNC
  /\ UNCHANGED <<flags, packet_ready, rx_rb, callback>>

\* Receiving, and nothing for more than 6 s: give up.  rx_rb is not emptied.
Timeout(b) ==
  /\ state = "DATA" /\ stalled
  /\ state' = "SEARCHING" /\ bits_received' = 0
  /\ UNCHANGED <<packet_len, header, flags, packet_ready, scrambler,
                 correlator, rx_rb, callback>>

\* Receiving: go on to handle_data_state, having seen state = DATA.
Data(b) ==
  /\ state = "DATA" /\ ~stalled
  /\ bit' = b /\ cpc' = "put"
  /\ UNCHANGED rx

CbBit ==
  /\ cpc = "idle"
  /\ \E b \in {Noise, <<Len(frames), pos + 1>>, <<Len(frames) + 1, 1>>} :
       /\ Idle(b) \/ Start(b) \/ Continue(b) \/ Damage(b)
       /\ Search(b) \/ SyncFound(b) \/ Timeout(b) \/ Data(b)
  /\ stalled' = FALSE
  /\ UNCHANGED <<stalls, main, delivered, garbage>>

\* Descramble the bit and put it in rx_rb (put_bits' result is not looked at).
CbPut ==
  LET b == IF bit[1] > 0 /\ bit[2] = SYNC + scrambler + 1
           THEN <<bit[1], scrambler + 1>> ELSE Junk
  IN
  /\ cpc = "put"
  /\ scrambler' = Advance(scrambler)
  /\ rx_rb' = IF Len(rx_rb) < RxCap THEN Append(rx_rb, b) ELSE rx_rb
  /\ bit' = b
  /\ cpc' = "count"
  /\ UNCHANGED <<air, state, bits_received, packet_len, header, flags,
                 packet_ready, correlator, main, outcome>>

\* Mutants: a count wider than 16 bits; a count that stops at its limit.
ReceivedWide  == bits_received + 1
ReceivedStops == IF bits_received = WRAP - 1 THEN bits_received ELSE bits_received + 1

\* bits_received++ (a uint16_t).
Received == (bits_received + 1) % WRAP

\* Past the header: the packet is complete or it is not.
CbPayload ==
  /\ cpc = "count" /\ Received > HEADER
  /\ bits_received' = Received
  /\ IF Received = packet_len + HEADER
     THEN state' = "SEARCHING" /\ packet_ready' = TRUE
     ELSE UNCHANGED <<state, packet_ready>>
  /\ cpc' = "idle" /\ bit' = Noise
  /\ UNCHANGED <<air, packet_len, header, flags, scrambler, correlator, rx_rb,
                 main, outcome>>

\* header_accumulator: the last HEADER bits shifted into it.
Shift(h, b) == IF Len(h) < HEADER THEN Append(h, b) ELSE Append(Tail(h), b)

\* Inside the header.
CbHeader ==
  /\ cpc = "count" /\ Received < HEADER
  /\ bits_received' = Received
  /\ header' = Shift(header, bit)
  /\ cpc' = "idle" /\ bit' = Noise
  /\ UNCHANGED <<air, state, packet_len, flags, packet_ready, scrambler,
                 correlator, rx_rb, main, outcome>>

\* The header is the one frame f was sent with.
HeaderOf(h, f) == f > 0 /\ h = [i \in 1 .. HEADER |-> <<f, i>>]

\* Mutant: the flags of the header before are kept.
CbHeaderDoneOldFlags ==
  LET h == Shift(header, bit) IN
  /\ cpc = "count" /\ Received = HEADER
  /\ bits_received' = Received
  /\ header' = <<>> /\ bit' = Noise
  /\ \E l \in 0 .. Huge :
       /\ HeaderOf(h, bit[1]) => l = frames[bit[1]].len
       /\ packet_len' = l
       /\ cpc' = IF l \in 1 .. MaxLen THEN "idle" ELSE "resetFields"
  /\ UNCHANGED <<air, state, flags, packet_ready, scrambler, correlator, rx_rb,
                 main, outcome>>

\* The last bit of the header: take its fields (one step, as in CbResetFields)
\* and validate it.  A damaged header can say anything.  (The accumulator is not
\* read again before HEADER new bits are in it.)
CbHeaderDone ==
  LET h == Shift(header, bit) IN
  /\ cpc = "count" /\ Received = HEADER
  /\ bits_received' = Received
  /\ header' = <<>> /\ bit' = Noise
  /\ \E l \in 0 .. Huge, k \in Flags :
       /\ HeaderOf(h, bit[1]) => l = frames[bit[1]].len /\ k = frames[bit[1]].kind
       /\ packet_len' = l /\ flags' = k
       /\ cpc' = IF l \in 1 .. MaxLen THEN "idle" ELSE "resetFields"
  /\ UNCHANGED <<air, state, packet_ready, scrambler, correlator, rx_rb,
                 main, outcome>>

\* rx_reset called by the callback for an invalid header.  Main loads packet_len
\* and, much later, flags; that is why their stores may be one step.
CbResetFields ==
  /\ cpc = "resetFields"
  /\ state' = "SEARCHING" /\ bits_received' = 0 /\ packet_len' = 0
  /\ header' = <<>> /\ flags' = "raw"
  /\ cpc' = "resetRing"
  /\ UNCHANGED <<air, packet_ready, scrambler, correlator, rx_rb, bit, main, outcome>>

\* Mutant: an invalid header's bits stay in rx_rb.
CbResetRingKept ==
  /\ cpc = "resetRing"
  /\ scrambler' = 0 /\ correlator' = 0
  /\ cpc' = "idle"
  /\ UNCHANGED <<air, state, bits_received, packet_len, header, flags,
                 packet_ready, rx_rb, bit, main, outcome>>

CbResetRing ==
  /\ cpc = "resetRing"
  /\ rx_rb' = <<>> /\ scrambler' = 0 /\ correlator' = 0
  /\ cpc' = "idle"
  /\ UNCHANGED <<air, state, bits_received, packet_len, header, flags,
                 packet_ready, bit, main, outcome>>

Callback == CbBit \/ CbPut \/ CbPayload \/ CbHeader \/ CbHeaderDone
              \/ CbResetFields \/ CbResetRing

-----------------------------------------------------------------------------
(* The main thread: the poll loop and rb_to_tun.                           *)

\* The poll loop finds packet_ready set, and goes on to load packet_len.
MPoll ==
  /\ mpc = "poll" /\ packet_ready
  /\ mpc' = "loadLen"
  /\ UNCHANGED <<air, rx, callback, len, read, outcome>>

MLoadLen ==
  /\ mpc = "loadLen"
  /\ len' = packet_len /\ read' = <<>>
  /\ mpc' = IF packet_len > 0 THEN "getHeader" ELSE "clearReady"
  /\ UNCHANGED <<air, rx, callback, outcome>>

\* rb_to_tun: one get_bits; a failed one gives the packet up.
MGet(pc, upTo, next) ==
  /\ mpc = pc /\ Len(read) < upTo
  /\ IF rx_rb = <<>>
     THEN mpc' = "resetState" /\ len' = 0 /\ read' = <<>> /\ UNCHANGED rx_rb
     ELSE /\ read' = Append(read, Head(rx_rb))
          /\ rx_rb' = Tail(rx_rb)
          /\ mpc' = IF Len(read) + 1 = upTo THEN next ELSE pc
          /\ UNCHANGED len
  /\ UNCHANGED <<air, state, bits_received, packet_len, header, flags, packet_ready,
                 scrambler, correlator, callback, outcome>>

\* Mutant: the loop over the payload ends one bit early.
MGetPayloadShort == MGet("getPayload", HEADER + len - 1, "decode")

MGetHeader  == MGet("getHeader", HEADER, "checkLen")
MGetPayload == MGet("getPayload", HEADER + len, "decode")

MCheckLen ==
  /\ mpc = "checkLen"
  /\ mpc' = IF len > Buffer THEN "resetState" ELSE "getPayload"
  /\ UNCHANGED <<air, rx, callback, len, read, outcome>>

\* Decode with the flags as they are now.  The payload of frame f read with
\* f's own flags decodes to what was sent; anything else fails to decode, or,
\* when no check covers it, is written to the TUN as it is.
MDecode ==
  LET f == IF Len(read) > HEADER THEN read[Len(read)][1] ELSE 0
      good == /\ f > 0 /\ flags = frames[f].kind /\ len = frames[f].len
              /\ \A i \in HEADER + 1 .. HEADER + len : read[i] = <<f, i>>
  IN
  /\ mpc = "decode"
  /\ \/ good /\ delivered' = Append(delivered, f) /\ UNCHANGED garbage
     \/ ~good /\ UNCHANGED <<delivered, garbage>>
     \/ ~good /\ flags = "raw" /\ garbage' = 1 /\ UNCHANGED delivered
  /\ mpc' = "resetState" /\ len' = 0 /\ read' = <<>>
  /\ UNCHANGED <<air, rx, callback, intact>>

\* rx_reset called by main: its stores one by one, in their order, those of
\* rb_reset as one.  (sync_accumulator only knows exact matches; what it has
\* forgotten corr_reg still holds, so correlator is what sync_correlator_reset
\* clears.)
MStore(pc, next) ==
  /\ mpc = pc /\ mpc' = next
  /\ UNCHANGED <<air, packet_ready, callback, len, read, outcome>>

MResetState ==
  /\ MStore("resetState", "resetBits") /\ state' = "SEARCHING"
  /\ UNCHANGED <<bits_received, packet_len, header, flags, scrambler, correlator, rx_rb>>

MResetBits ==
  /\ MStore("resetBits", "resetLen") /\ bits_received' = 0
  /\ UNCHANGED <<state, packet_len, header, flags, scrambler, correlator, rx_rb>>

MResetLen ==
  /\ MStore("resetLen", "resetHeader") /\ packet_len' = 0
  /\ UNCHANGED <<state, bits_received, header, flags, scrambler, correlator, rx_rb>>

\* header_accumulator, and the flags, which the callback never reads.
MResetHeader ==
  /\ MStore("resetHeader", "resetRing") /\ header' = <<>> /\ flags' = "raw"
  /\ UNCHANGED <<state, bits_received, packet_len, scrambler, correlator, rx_rb>>

\* Mutant: rx_reset leaves rx_rb as it is.
MResetRingKept ==
  /\ MStore("resetRing", "resetScrambler")
  /\ UNCHANGED <<state, bits_received, packet_len, header, flags, scrambler, correlator, rx_rb>>

MResetRing ==
  /\ MStore("resetRing", "resetScrambler") /\ rx_rb' = <<>>
  /\ UNCHANGED <<state, bits_received, packet_len, header, flags, scrambler, correlator>>

MResetScrambler ==
  /\ MStore("resetScrambler", "resetCorrelator") /\ scrambler' = 0
  /\ UNCHANGED <<state, bits_received, packet_len, header, flags, correlator, rx_rb>>

MResetCorrelator ==
  /\ MStore("resetCorrelator", "clearReady") /\ correlator' = 0
  /\ UNCHANGED <<state, bits_received, packet_len, header, flags, scrambler, rx_rb>>

MClearReady ==
  /\ mpc = "clearReady"
  /\ packet_ready' = FALSE
  /\ mpc' = "poll"
  /\ UNCHANGED <<air, state, bits_received, packet_len, header, flags, scrambler,
                 correlator, rx_rb, callback, len, read, outcome>>

Main == MPoll \/ MLoadLen \/ MGetHeader \/ MCheckLen \/ MGetPayload \/ MDecode
          \/ MResetState \/ MResetBits \/ MResetLen \/ MResetHeader \/ MResetRing
          \/ MResetScrambler \/ MResetCorrelator \/ MClearReady

-----------------------------------------------------------------------------
Next == Callback \/ Main \/ Stall

\* PortAudio calls the callback with samples, silence included, as long as the
\* stream is open, and main polls every 5 ms.  The air owes nothing.
Fairness == WF_vars(Callback) /\ WF_vars(Main)

Spec == Init /\ [][Next]_vars /\ Fairness

-----------------------------------------------------------------------------
\* Every field and program counter has a value the code can give it.
TypeOK ==
  /\ state \in {"SEARCHING", "DATA"}
  /\ bits_received \in 0 .. WRAP - 1 /\ packet_len \in 0 .. Huge
  /\ Len(header) <= HEADER /\ flags \in Flags /\ packet_ready \in BOOLEAN
  /\ scrambler \in 0 .. HEADER + MaxLen + 1 /\ correlator \in 0 .. SYNC
  /\ Len(rx_rb) <= RxCap
  /\ cpc \in {"idle", "put", "count", "resetFields", "resetRing"}
  /\ mpc \in {"poll", "loadLen", "getHeader", "checkLen", "getPayload", "decode",
              "resetState", "resetBits", "resetLen", "resetHeader", "resetRing",
              "resetScrambler", "resetCorrelator", "clearReady"}
  /\ garbage \in {0, 1}

Quiet == cpc = "idle" /\ mpc = "poll" /\ ~packet_ready /\ state = "SEARCHING"

Delivered(f) == \E i \in DOMAIN delivered : delivered[i] = f

\* Between packets rx_rb is empty: what is left in it would be read as the
\* beginning of the next packet.
EmptyBetweenPackets ==
  (cpc = "idle" /\ state = "SEARCHING" /\ MainIdle) => rx_rb = <<>>

\* What main decodes is one packet, from the first bit of its header to the
\* last of its payload, as demod_fsk_api.md says of rb_to_tun.
ReadsWholePacket ==
  (mpc = "decode" /\ faults = 0) =>
    \E f \in DOMAIN frames : read = [i \in 1 .. HEADER + frames[f].len |-> <<f, i>>]

\* Nothing but what the peer sent is written to the TUN unless the air damaged
\* a frame.
GarbageOnlyFromDamage == garbage > 0 => faults > 0

\* The receiver is the link FrameLink promises: whatever happened to the frames
\* before it, an intact frame is delivered, in order and once.
Link == INSTANCE FrameLink WITH onAir <- Len(frames)
ImplementsLink == Link!Spec

\* The receiver always gets back to searching for a frame, whatever main's
\* rx_reset stores while a frame is being received.
BackToSearching == (state = "DATA") ~> (state = "SEARCHING")

\* Two intact frames in a row, the second not delivered and nothing after it yet.
Owed ==
  LET f == Len(frames)
  IN  f >= 2 /\ {f - 1, f} \subseteq intact /\ ~Delivered(f)

\* Whatever a race or a timeout left in rx_rb, it costs one frame: of two
\* intact frames in a row the second is delivered, unless the next one begins
\* before main is done with it.
Heals == []<>~Owed
=============================================================================
