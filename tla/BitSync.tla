------------------------------- MODULE BitSync -------------------------------
(***************************************************************************)
(* How the receiver finds its place in the stream of bits: the sync        *)
(* detector of src/src/demod_afsk.c, the part of process_rx_bit and        *)
(* rx_reset that drives it, and the scrambler of src/src/scrambler.c at    *)
(* both ends.                                                              *)
(*                                                                         *)
(* The line is a fixed sequence of bits, frames with something before and  *)
(* between them; the air flips bits of it, or one is lost.  A register of  *)
(* the detector is the sequence of its bits, the oldest first.             *)
(***************************************************************************)
EXTENDS Integers, FiniteSets, Sequences

CONSTANTS
  SYNC_WORD, PREAMBLE,   \* as sequences of bits
  SYNC_THRESHOLD,        \* bits that must match (30 of 32)
  POP_MIN, POP_MAX,      \* the popcount filter (10, 22)
  Gap,                   \* bits on the line before each frame's preamble
  Payload,               \* header and payload of a frame before scrambling
  TAPS, STATE_BITS,      \* taps {16, 11} and width (17) of the scrambler
  Frames,                \* bound: frames on the line
  MaxFaults,             \* bound: bits flipped; a slip counts for all of them
  ResetAt                \* bound: where on the line rx_reset may come, once

W   == Len(SYNC_WORD)
Bit == {0, 1}

ASSUME BitSyncAssumption ==
  /\ {SYNC_WORD, PREAMBLE, Gap, Payload} \subseteq Seq(Bit)
  /\ W > 0 /\ SYNC_THRESHOLD \in 0 .. W
  /\ STATE_BITS \in Nat \ {0} /\ TAPS \subseteq 0 .. STATE_BITS - 1
  /\ STATE_BITS - 1 \in TAPS
  /\ {POP_MIN, POP_MAX, Frames, MaxFaults} \subseteq Nat

Flip(b)   == 1 - b
Xor(a, b) == (a + b) % 2

-----------------------------------------------------------------------------
(* The scrambler.                                                          *)

\* A register of the scrambler: bit i of its state for each i.
RegBits == 0 .. STATE_BITS - 1
Dead    == [i \in RegBits |-> 0]

Seed == [i \in RegBits |-> IF i = 0 THEN 1 ELSE 0]    \* scrambler_reset

\* The key: what the taps of the register add up to.
Key(lfsr) == Cardinality({i \in TAPS : lfsr[i] = 1}) % 2

\* The register shifted by one, with b in its lowest place.
Shift(lfsr, b) == [i \in RegBits |-> IF i = 0 THEN b ELSE lfsr[i - 1]]

\* Mutant: the shifted register is not masked.
AdvanceUnmasked(lfsr) ==
  [i \in 0 .. STATE_BITS |-> IF i = 0 THEN Key(lfsr) ELSE lfsr[i - 1]]

\* Mutant: the key does not enter the register.
AdvanceNoFeedback(lfsr) == Shift(lfsr, 0)

\* The state after a bit is the old one shifted, with the key in its lowest place.
Advance(lfsr) == Shift(lfsr, Key(lfsr))

\* Mutant: the register takes in the received bit.
ScramblerProcessSelfSync(lfsr, b) ==
  [state |-> Shift(lfsr, b), bit |-> Xor(b, Key(lfsr))]

\* scrambler_process, the same at both ends.
ScramblerProcess(lfsr, b) ==
  [state |-> Advance(lfsr), bit |-> Xor(b, Key(lfsr))]

-----------------------------------------------------------------------------
(* The line: what the sender puts on it before it scrambles, over and over. *)

Start == Len(Gap) + Len(PREAMBLE)
Frame == Gap \o PREAMBLE \o SYNC_WORD \o Payload

Place(k)     == ((k - 1) % Len(Frame)) + 1   \* of bit k in its frame
InSync(k)    == Place(k) \in Start + 1 .. Start + W
InPayload(k) == Place(k) > Start + W
LineLen      == Frames * Len(Frame)

\* Where on the line sync words end.
Ends == {f * Len(Frame) + Start + W : f \in 0 .. Frames - 1}

VARIABLES
  pos,               \* bits of the line that have passed
  state,             \* "SEARCHING" or "DATA"
  sync_accumulator, corr_reg, corr_bits,
  tx_scrambler, rx_scrambler,
  bits_received,     \* bits descrambled since the sync word
  faults, resets,    \* bounds: faults and resets left
  at,                \* history: where on the line the last sync word was found
  run,               \* history: bits in a row the detector has taken in, up to W
  errs,              \* history: wrong ones among those of the sync word at pos
  whole,             \* history: no bit of the last sync word found was missed
  slipped,           \* history: the scramblers are out of step in this frame
  expected,          \* history: the last bit descrambled is wrong if it was flipped
  healed             \* history: bits in a row right since the slip

detector == <<sync_accumulator, corr_reg, corr_bits>>
vars == <<pos, state, detector, tx_scrambler, rx_scrambler, bits_received, faults, resets,
          at, run, errs, whole, slipped, expected, healed>>

Zeros        == [i \in 1 .. W |-> 0]
Push(reg, b) == Append(Tail(reg), b)
Popcount(reg) == Cardinality({i \in 1 .. W : reg[i] = 1})
Matches(reg)  == Cardinality({i \in 1 .. W : reg[i] = SYNC_WORD[i]})

\* Mutant: the quick filter gives the wrong answer.
CorrelatesUnlessFar(reg, bits) ==
  /\ bits = W
  /\ Popcount(reg) \notin POP_MIN .. POP_MAX \/ Matches(reg) >= SYNC_THRESHOLD

\* Mutant: one wrong bit fewer is tolerated.
CorrelatesStrict(reg, bits) ==
  /\ bits = W
  /\ Popcount(reg) \in POP_MIN .. POP_MAX
  /\ Matches(reg) > SYNC_THRESHOLD

\* The correlator is full and close enough to the sync word.
Correlates(reg, bits) ==
  /\ bits = W
  /\ Popcount(reg) \in POP_MIN .. POP_MAX
  /\ Matches(reg) >= SYNC_THRESHOLD

\* check_sync_word, and process_rx_bit when it finds the word.
Search(b) ==
  LET word  == Push(sync_accumulator, b)
      reg   == Push(corr_reg, b)
      bits  == IF corr_bits < W THEN corr_bits + 1 ELSE W
      found == word = SYNC_WORD \/ Correlates(reg, bits)
  IN  /\ state = "SEARCHING"
      /\ sync_accumulator' = word
      /\ corr_reg'  = IF found THEN Zeros ELSE reg
      /\ corr_bits' = IF found THEN 0 ELSE bits
      /\ state' = IF found THEN "DATA" ELSE state
      /\ rx_scrambler' = IF found THEN Seed ELSE rx_scrambler
      /\ bits_received' = IF found THEN 0 ELSE bits_received
      /\ at' = IF found THEN pos' ELSE at
      /\ run' = IF run < W THEN run + 1 ELSE W
      /\ whole' = IF found THEN run' = W ELSE whole
      /\ slipped' = (found /\ pos' \notin Ends)
      /\ healed' = 0
      /\ UNCHANGED expected

\* handle_data_state descrambles a bit.  With the last one of a frame it goes back
\* to searching; but which is the last its header said, and a fault may have
\* changed that: then it goes on past the end, over bits not scrambled for it.
Receive(b, flipped) ==
  LET r     == ScramblerProcess(rx_scrambler, b)
      n     == Place(pos') - Start - W
      here  == n > 0 /\ at > pos' - Place(pos')   \* its sync word was found
      right == r.bit = Payload[n]
  IN  /\ state = "DATA"
      /\ rx_scrambler' = r.state
      /\ bits_received' = bits_received + 1
      /\ \/ /\ bits_received' = Len(Payload) => faults' < MaxFaults
            /\ IF here
               THEN /\ expected' = (right # flipped)
                    /\ healed' = IF slipped /\ right THEN healed + 1 ELSE 0
               ELSE /\ expected' = TRUE /\ healed' = 0
            /\ UNCHANGED <<state, slipped>>
         \/ /\ bits_received' = Len(Payload) /\ state' = "SEARCHING"
            /\ expected' = (here /\ ~slipped => right # flipped)
            /\ slipped' = FALSE /\ healed' = 0
      /\ run' = 0
      /\ UNCHANGED <<detector, at, whole>>

\* The sender's next bit; its scrambler starts again with every frame.
Sent == LET b == Frame[Place(pos + 1)]
        IN  IF InPayload(pos + 1) THEN ScramblerProcess(tx_scrambler, b).bit ELSE b

Pass ==
  /\ pos < LineLen
  /\ pos' = pos + 1
  /\ tx_scrambler' = IF InPayload(pos + 1) THEN Advance(tx_scrambler) ELSE Seed

\* process_rx_bit is given the next bit of the line, flipped or not.
Hear(flipped) ==
  /\ Pass
  /\ flipped => faults > 0
  /\ faults' = IF flipped THEN faults - 1 ELSE faults
  /\ errs' = IF ~InSync(pos') THEN 0
             ELSE (IF InSync(pos) THEN errs ELSE 0) + (IF flipped THEN 1 ELSE 0)
  /\ LET b == IF flipped THEN Flip(Sent) ELSE Sent
     IN  Search(b) \/ Receive(b, flipped)
  /\ UNCHANGED resets

\* A bit is lost: the sender's callback dropped half a symbol, or the sound
\* device lost samples.
Lose ==
  /\ Pass
  /\ faults = MaxFaults /\ faults > 0 /\ faults' = 0
  /\ run' = 0 /\ slipped' = (state = "DATA")
  /\ UNCHANGED <<state, detector, rx_scrambler, bits_received, resets, at, errs, whole,
                 expected, healed>>

\* Sound stops for more than six seconds in mid-frame: the bit that comes next
\* is dropped and nothing else is put back.
Timeout ==
  /\ Pass
  /\ state = "DATA" /\ pos \in ResetAt /\ resets > 0
  /\ state' = "SEARCHING" /\ bits_received' = 0 /\ resets' = resets - 1
  /\ run' = 0 /\ slipped' = FALSE /\ expected' = TRUE /\ healed' = 0
  /\ UNCHANGED <<detector, rx_scrambler, faults, at, errs, whole>>

\* sync_accumulator = 0 and sync_correlator_reset.
ClearDetector == sync_accumulator' = Zeros /\ corr_reg' = Zeros /\ corr_bits' = 0

\* rx_reset, from either thread: after packets, and after a header that is not valid.
RxReset ==
  /\ pos \in ResetAt /\ resets > 0
  /\ resets' = resets - 1
  /\ state' = "SEARCHING" /\ bits_received' = 0 /\ ClearDetector /\ rx_scrambler' = Seed
  /\ run' = 0 /\ slipped' = FALSE /\ expected' = TRUE /\ healed' = 0
  /\ UNCHANGED <<pos, tx_scrambler, faults, at, errs, whole>>

Init ==
  /\ pos = 0 /\ state = "SEARCHING"
  /\ sync_accumulator = Zeros /\ corr_reg = Zeros /\ corr_bits = 0
  /\ tx_scrambler = Seed /\ rx_scrambler = Seed /\ bits_received = 0
  /\ faults = MaxFaults /\ resets = 1
  /\ at = 0 /\ run = 0 /\ errs = 0
  /\ whole = TRUE /\ slipped = FALSE /\ expected = TRUE /\ healed = 0

Next == (\E flipped \in BOOLEAN : Hear(flipped)) \/ Lose \/ Timeout \/ RxReset

Spec == Init /\ [][Next]_vars

-----------------------------------------------------------------------------
TypeOK ==
  /\ pos \in 0 .. LineLen /\ at \in 0 .. pos
  /\ state \in {"SEARCHING", "DATA"}
  /\ Len(sync_accumulator) = W /\ Len(corr_reg) = W /\ corr_bits \in 0 .. W
  /\ {tx_scrambler, rx_scrambler} \subseteq [RegBits -> Bit] \ {Dead}
  /\ bits_received \in 0 .. pos /\ faults \in 0 .. MaxFaults /\ resets \in 0 .. 1
  /\ run \in 0 .. W /\ errs \in 0 .. MaxFaults
  /\ {whole, slipped, expected} \subseteq BOOLEAN /\ healed \in 0 .. Len(Payload)

\* A sync word is found at its last bit and nowhere else: not in what comes
\* before it, not in a payload, and not because one of the two registers still
\* holds bits from before a match or a reset.  Only with a bit of it lost, which
\* leaves no fault for what follows, can it be found one bit late.
OnlyAtEnds ==
  state = "DATA" => at \in Ends \/ (~whole /\ faults = 0 /\ at - 1 \in Ends)

\* A sync word all of whose bits reached the detector is found when no more of
\* them are wrong than the threshold allows, however the registers were left by
\* the frame before.
FoundAtEnd ==
  (pos \in Ends /\ run = W /\ errs <= W - SYNC_THRESHOLD) => state = "DATA" /\ at = pos

\* The two scramblers are in step from the sync word on: a bit comes out wrong
\* exactly if it was flipped, and no other bit suffers from it.
FlipStaysLocal == ~slipped => expected

\* One bit lost puts them out of step for good: even granting the shift, no
\* STATE_BITS bits in a row are right.  (The comment in scrambler.c calls the
\* scrambler self-synchronizing within about 17 bits; it is not.)
SlipNeverHeals == healed < STATE_BITS
=============================================================================
