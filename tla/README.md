# Echo Protocol in TLA+

Echo Protocol (`src/`) makes an IP interface out of a sound card: packets read
from a TUN device are compressed, coded, scrambled and sent as 4-FSK tones, and
the tones that a microphone hears become packets again. Two threads do the work:
`main`'s poll loop and PortAudio's callback. They share two rings of bits
(`tx_rb`, `rx_rb`), the receiver's state (`struct EchoRx`) and no lock.

This directory holds the models of that code, the TLC runs that check them and
the proofs that TLAPS checks. Paths below are relative to the repository.

## 1. Inventory

| Component | State | Operations | Correct when |
|---|---|---|---|
| Bit ring, `src/rb_bits.c` | `head`, `tail`, `count_put`, `count_get`, `buf` | `rb_init`, `put_bits`, `get_bits`, `rb_reset` | it is a FIFO of bits: nothing lost, altered, repeated or reordered, "empty" only when empty, "full" only near the size; also when one thread puts and another gets |
| Transmit path, `src/main.c`, `tun_to_rb`, `paCallback` | where main is in a push, `tx_rb`, the callback's half symbol | warm-up packets, admission, preamble + sync + header + payload, two `get_bits` a symbol | an admitted frame goes out whole and starts on a symbol; a waiting packet is eventually sent |
| Receive path, `process_rx_bit`, `handle_data_state`, `rb_to_tun`, `rx_reset`, main | `state`, `bits_received`, `packet_len`, flags, `packet_ready`, `rx_rb`, scrambler, sync registers | search, header, payload, hand-off, decode, reset, timeout | an intact frame is delivered once and in order whatever came before; nothing else is; the receiver always returns to searching |
| FEC and header, `src/fec.c`, `is_valid_header` | none | code, interleave, validate, decode | what one end codes the other accepts and restores; bursts are spread; a damaged length is noticed |
| Sync detector, `src/demod_afsk.c` | two shift registers, a count | `check_sync_word`, `sync_correlator_reset` | a sync word with at most two wrong bits is found, at its last bit and nowhere else |
| Scrambler, `src/scrambler.c` | 17-bit register | `scrambler_process`, reset | the receiver's register is where the sender's is |
| ROHC-like compression, `src/rohc.c` | one context at each end | compress, decompress, sync, reset | what is decompressed is the packet, or it is refused; contexts lost are found again |
| Gain control, `src/agc.c` | gains, phase, lock, counts, dates | init, tune (calibrate, steady, lock, unlock), the callback's freeze | gains stay clamped, move once at most during a transmission and never under a lock; it leaves calibration, locks on a good link, turns up in silence and down on its own echo. `main` calls only `agc_set_initial_gains` |
| Modulator, demodulator filters | a phase; four filters | floating-point | (signal processing: not modelled) |
| Sound device, TUN, log | handles | system and library calls | (not modelled: their outcomes are inputs of the models) |

Interactions. `main` -> `tx_rb` -> callback -> air -> callback -> `rx_rb` ->
`main`. The callback calls `process_rx_bit` twice and reads `tx_rb` twice a
symbol (32 samples). The hand-off of a received packet is one flag,
`packet_ready`; its length and flags stay in the fields that the next frame's
header overwrites. `rx_reset` is called by both threads.

What is hard here: the interleaving of the two threads inside and between calls;
a single-slot hand-off that a faster producer overruns; resets of shared state in
the middle of a frame; frames damaged or cut short on the air; a ring that fills;
limits of lengths and counters; two compression contexts that nothing acknowledges;
a control loop whose decisions depend on windows of counts and on dates. `PROJECT.json` lists each hazard at its line.

## 2. Modules

| Module | Models | Notes |
|---|---|---|
| `BitFifo` | what the ring promises | abstract: a bounded queue |
| `BitRing` | `rb_bits.c`, one call a step | refines `BitFifo` (checked and proved) |
| `BitRingProofs` | | proofs about `BitRing` |
| `BitRingThreads` | `put_bits` against `get_bits`, one shared access a step | |
| `BitRingThreadsProofs` | | proofs about `BitRingThreads` |
| `Transmitter` | main's transmit side and the callback's, over `BitRing` | extends `BitRing`: its `Put` and `Get` are the ring's own actions |
| `TransmitterProofs` | | proofs about `Transmitter`, from those of `BitRing` |
| `FrameLink` | what one direction of the link promises | abstract: order, no duplicates, no intact frame passed over |
| `Receiver` | callback and main on the receive side | refines `FrameLink` when main keeps up |
| `ReceiverProofs` | | proofs about `Receiver`, and of the safety half of that refinement |
| `FecFrame` | coded frames from `fec_encode` to `fec_decode` | |
| `FecFrameProofs` | | proofs about `FecFrame` |
| `BitSync` | sync detector and scramblers, bit by bit | the registers `Receiver` only counts with |
| `BitSyncProofs` | | proofs about `BitSync` |
| `Rohc` | header compression at both ends over a lossy link | frames whole; `Receiver` is where they get lost |
| `RohcProofs` | | proofs about `Rohc` |
| `Agc` | the gain control and the callback's freeze | |
| `AgcProofs` | | proofs about `Agc` |
| `MC...` | instances for TLC | |

### BitRing
`head`, `tail`, `count_put`, `count_get` and `buf` are the C fields; a byte is a
function from bit positions to bits. `PutFull`, `PutSameByte`, `PutNextByte` are
the three paths of `put_bits`, `GetEmpty`, `GetSameByte`, `GetNextByte` those of
`get_bits`, `Reset` is `rb_reset`. `ret` is what the call returned and `pending`
a history of the bits accepted and not returned. `rb_init` clears only byte 0, so
the rest of `buf` starts arbitrary. The mask is a wrap (the size is a power of
two). The capacity follows: a ring of B bytes of S bits always accepts up to
S(B-2) bits and never holds more than S(B-1)+1.

### BitRingThreads
The same two functions with a step for every access to a field that the other
thread uses. C11 atomics with default ordering interleave, so steps interleave.
`early` records that the empty test let the reader go on although every bit
written had been returned. What the runs show: reads go wrong in one place only,
while the writer is opening a byte (`head` stored, `count_put` not). A transmit
ring that has been drained sits exactly at that boundary when the next frame
begins, because frames are whole bytes. Another thing the interleavings do: the
reader can be told "empty" while a byte and more waits, when the writer opens a byte
between the loads of `head` and of `count_put` and the new count equals that of the
byte being read. Nothing is lost in the ring, but the callback sends an idle symbol,
or drops a first bit, in the middle of a frame; the proofs say what it takes.

### Transmitter
`pc` is where `main` is: asleep between warm-up packets, pushing one, polling,
pushing the preamble and sync word, about to read the TUN, pushing a frame.
`left` counts the bits still to push. Results of `put_bits` are ignored for the
warm-up packets, preamble and sync word, and end the push for header and payload
(`FrameCut`), as in the code. `cb` says which bit of a symbol the callback wants.
Bits are counted, not spelled; a packet is the length of its payload after
compression and FEC. Calls of the ring are whole steps: what a torn call does is
`BitRingThreads`' subject, and `WholeSymbols` speaks only of whole ones (a
wrong "empty", as described there, can also split a symbol).

### Receiver
The air delivers bits `<<f, k>>` (bit k of frame f) or noise; a frame can be
damaged or cut short, and the sound can stop for longer than the six-second
timeout. `cpc` and `mpc` are the program counters of the callback and of `main`.
A bit is put in `rx_rb`, then counted, as two steps. `rx_reset` of `main` is a step
a store, in the order of the code: `state`, `bits_received`, `packet_len`,
`header_accumulator` (and the flags, which only `main` reads), the ring (`rb_reset`
as one), the scrambler, the correlator. That of the callback is two, before and
with the ring: of the fields only `packet_len` and the flags are read by `main`,
many steps apart. `rb_to_tun` tests the length against the size of its buffer
(`Buffer`), twice what a valid header can say, so a length from a header that is
being refused may pass. A descrambled bit is right only if the scrambler is where the
sender's was. `MDecode` gives the frame sent if all its bits, its length and its
flags are that frame's; otherwise decoding fails or, when the flags say that
nothing checks the payload, it writes garbage. `bits_received` wraps at `WRAP`
(2^16). `rx_rb` is the queue that `BitRing` is proved to implement.

`MainKeepsUp` says that `main` has finished with a packet before the peer's next
sync word ends. The code does not enforce it: the preamble lasts 16 bits, 5.3 ms
at 3000 bit/s, and `main` polls every 5 ms and is woken late by writes of the
log; during its 5 s warm-up sleep it does not poll at all. So the main property,
`ImplementsLink`, is checked under the assumption, and `ReceiverOverrun` drops
the assumption and checks what remains true.

### FecFrame
Lengths, the test of the header, the layout with its interleaver, and `fec_decode`,
with the code's own constants. A Reed-Solomon block is its contract: at most half
its parity bytes damaged, it is restored; more, it fails or passes for another
codeword. Bytes are positions. `claimed` is what the two prefix bytes say when
they are read; a burst that reaches them may make them say anything.

`fec.h:14` lists a CRC-32 "de deteccao sobre o que o FEC nao conseguiu corrigir";
`fec_crc32` has no caller and the frame has no place for it. What stands in for
it is the header's length: `fec_decode` refuses a prefix that does not go with
it. `PrefixRedundant` says how far that carries: to 183 bytes of payload. From
there on, every payload of as many blocks has the same length on the air and a
damaged prefix passes.

### BitSync
A scrambler's register is a function from bit numbers to bits (`RegBits`), `Shift`
its shift and `Key` the sum of the tapped bits. The line is frames (two in the run) of
preamble, sync word and payload, scrambled as `tun_to_rb` does it, with something
before each. A step gives `process_rx_bit` the next bit, flipped or not; a bit may be
lost, the sound may stop until the timeout, `rx_reset` may come from either thread. `sync_accumulator`, `corr_reg`
and `corr_bits` are the C variables; the two registers are reset at different
moments (a match clears one, a timeout none, `rx_reset` both). `bits_received` counts
to the end of the frame, where the receiver goes back to searching; what a damaged
header says is not spelled out, so once something was damaged it may also read on
past the end (past its beginning, `RxReset` and `Timeout` stand for an end that
comes early). The histories say
how many bits in a row the detector has taken in (`run`), how many of the last
sync word were wrong (`errs`), and whether each descrambled bit is what it should
be (`expected`, `healed`).

Two things the run taught: with one bit of it lost, a sync word may be found a
bit late, which is why `OnlyAtEnds` has an exception (with no fault left for what
follows); and `scrambler.c:11-13` and `echo_protocol.c:145` call the scrambler self-synchronizing in about 17 bits,
but its register takes in its own feedback and never the received bit.
`FlipStaysLocal` is the good side of that (no error multiplication),
`SlipNeverHeals` the bad one.

### Rohc
A header is a function from slots to values; a slot is a run of bytes that
`rohc.c` treats alike, shared between IPv4 and IPv6 as the bytes are.
`Send` is `tun_to_rb` with the compressor in it: the context is updated before
the hundredth packet is forced raw. `DeliverRaw`, `RefuseCompressed` and
`DeliverCompressed` are `rb_to_tun` with `rohc_sync_context` and
`rohc_decompress`. `Lose` is anything that keeps a frame from coming out;
`Damage` touches only frames without FEC; either program may restart. The lower
three variables are histories of what was lost. `Verdict` compares what comes out
with what was sent, up to `Conveyed`.

What `Conveyed` leaves out is what the code does not carry even without loss: the
options of a v4 header and the v6 flow label (they come from the context), and
the lower half of the v6 traffic class. For the class, the sender's context takes
the upper half for the lower one after every compressed packet (`rohc.c:159`),
the receiver's only when the class is sent. A flow whose class has two different
halves therefore comes out with a wrong class from its third packet on, without
any loss. The forced raw packet does not put that right at
the sender, whose context it leaves alone, although `echo_protocol.c:104` calls
it a resync; it does for all that `Tracked` names. And the warm-up
packets (`main.c:97`, "estabelecendo contexto ROHC") do not pass through
`rohc_compress`: they give the receiver a context that the sender does not have,
so the first packet is raw anyway.

### Agc
`TuneBegins` is `agc_tune` up to the tests of the time: the freeze (`agc.c:71`), the
clock, the phase, the interval. What follows it, the statistics, a log write and the
stores of the gains, is `TuneCalibrate` or `TuneSteady`, with each early return a
disjunct: converge, clip, echo, noise, grid search; keep the lock, take it, or
adjust (after letting go of it, in the same call). Between the two steps `Callback`,
the part of `paCallback` that computes `agc_freeze`, may find that a transmission has
begun. `LowerGains` is `main.c:133-135`: the warm-up packets are in `tx_rb`, and
the gains move whether they have been sent or not (a packet of 288 bits takes
96 ms and `main` waits 50 ms between two).

Gains are in units of 1.5 dB and clamped. Time is kept as the age of the moments the
code stores, up to the longest the code compares it with; `Tick` is a second. A
window's counts and level are any of the inputs, and the sign of the power error is
free, because the averaged power depends on all windows so far. The code reads each
statistic again to remember it for the next window; a frame counted between the two
readings is in no window, so a window here is what a call judges. `link` says what
the last one was like, `moved` whether the gains changed since this end began to
transmit.

What to know of the code itself. `agc_tune` has no caller outside the tests and
`paCallback` does not multiply by the gains, although `main.c:133-134` says the
calibrator will raise them: the module says what the control does when it is
called from a loop like main's, which is what it is written for. The reset when
calibration finds nothing (`agc.c:200`) needs a receive gain near its top, which
five steps from 1.0 do not reach; in the run the range is so short that one does. Counts
gathered while frozen are judged by the first call after the freeze. A good link
whose level falls by 6 dB is let go of (`agc.c:245`), so one that goes up and down
by that much unlocks again and again and `GoodLinkLocks` does not speak of it. Silent
windows after an echo raise the transmit gain again, so a program that hears itself
only now and then does not come to rest at the bottom; `EchoBacksOff` says that
it comes to rest nowhere else. A lock may
be taken while the converter clips. In silence the loop around the target
(`agc.c:360`), whose step is at most 0.4 dB, returns before the 3 dB step of
`agc.c:375` unless the gain is already at its limit: silence raises the gains
(`SilenceRaises`), slowly.

## 3. Runs

| Run | Bounds | Shows |
|---|---|---|
| `ring` | 4 bytes of 2 bits, every initial memory | the ring is a FIFO (`ImplementsFifo`), its fields agree with each other and with the contents (`RingAgrees`, `RingContents`) |
| `ring_threads` | 2 bytes of 2 bits, 5 bits put | `OnlyEarlyReadsBreak`, `EarlyOnlyWhileOpening`, and no accepted bit is left behind (`AcceptedIsRead`) |
| `ring_race` (violated) | 3 bits put | a bit is returned that was never put |
| `rx_keeps_up` | 3 frames, one fault anywhere | the receiver implements `FrameLink`; the ring is empty between packets; a packet is read whole; garbage comes only from damage |
| `rx_overrun` | 4 frames, one long silence, main as slow as it likes | a lost frame costs no later one (`Heals`), the receiver returns to searching although `rx_reset` can zero the length in mid-frame (the 16-bit counter then has to wrap) |
| `rx_overlap` (violated) | 2 frames | packet n is read with the length of packet n+1 |
| `tx` | ring of 8 bytes of 2 bits, 6 asked for, frames of 1-3 bytes, 3 packets, 1 failed read | frames that fit are never cut, symbols stay whole, no packet waits for ever |
| `tx_cut` (violated) | frames one bit too long | an admitted frame loses its end |
| `fec` | the real constants, all lengths 1..2048; on seven lengths where the layout changes, bursts of up to 49 bytes at every place | both ends agree on every length; bursts are restored up to half the parity of each block; how far the header's length makes up for the unprotected prefix |
| `rohc` | 8 headers of four flows of both versions, 3 damaged or dummy ones, a raw packet every 4th | contexts, payload and flow under loss, damage and restart (`ContextsAgree`, `FaithfulUntilLoss`, `LossKeepsFlow`, `ResyncBound`) |
| `agc` | transmit gains 0..2, receive gains 0..1, windows on both sides of each test, five levels (three of them good, closer and further apart than the drop that unlocks), two good packets lock, all seconds and counts scaled down | `GainsHeld`, `LockAgrees`, and what a calibration, a good link, silence and echo lead to |
| `bitsync` | the real words, taps and threshold; 2 frames of 100 bits; 2 flips or a lost bit; a reset or timeout at 8 places | where sync words are found, and what one wrong or lost bit does to the rest |

Why the bounds are enough. The ring's behaviour depends on whether the indices are
equal, adjacent or neither and on whether a counter is 0, in between or at its
limit; 4 bytes of 2 bits have every combination, with wrap-around, and the proofs
cover every size. Two bytes suffice for a race because it involves the byte
being opened and the one before. Three frames with one fault let an intact frame
follow, precede or overlap a damaged one; four frames allow two intact ones after
an overrun. The transmitter's ring holds two to three frames, so main waits, the
ring wraps, and the longest length is one bit over what fits. FEC lengths are the
real ones; bursts need only one, two and three blocks. Four headers between raw
packets let a flow be entered, lost, left and entered again before the next one.
The transmit gain has a bottom, a top and a place between; each scaled
time keeps its order with the others (settle below calibration, below or at
cooldown), and the proofs of its safety cover every value. Two frames show what a
register kept of the first in the second, and two flips are what the threshold of
30 in 32 allows.

Deadlock is checked except in `fec`, which follows one frame to its end, and in
`bitsync`, whose line ends.

Fairness. PortAudio calls the callback as long as the stream is open and gives it
samples, silence included; `main` never blocks for good (poll has a 5 ms timeout,
nothing is locked). Hence weak fairness of each thread. The air, the peer and the
kernel owe nothing. In `Agc` the clock and main, whose loop calls `agc_tune`, go on;
nothing is asked of the callback. `CalibrationEnds`, `GoodLinkLocks` and
`SilenceRaises` speak of behaviours in which this end stops transmitting for good
(`<>[]Listening`); `EchoBacksOff` of any in which a window is judged again and again
(`[]<>Judging`), transmissions or not.

### Findings
1. `ring_race`: the documents promise safety between threads from the atomic
   fields; `put_bits` stores `head` too early for that.
2. `rx_overlap`: `packet_ready` announces a packet but its length is read from a
   field the next header overwrites.
3. `tx_cut`: documents say reading stops above 50 % to avoid overflow; the code
   asks for 1024 free bytes, less than a coded packet of the MTU (1532).

## 4. Proofs

Constants are arbitrary: any ring of at least two bytes, any number of bits a
byte, any set of frame lengths, any packets and any period of raw ones, any
geometry of Reed-Solomon blocks, any sync word and scrambler, any gains, times and
inputs, within the `...Assumption` of each module. Nine theorems need more than
that; the hypothesis is then part of the theorem's statement, and named below.

`BitRingProofs`. The inductive invariant `RingInv` is `RingTypeOK`, `RingShape`,
`RingCounts` and `RingContents`. The contents alone are not inductive: a put ORs
into the byte, so the positions not reached must be zero; a get moves to a byte
that must already hold a bit; "full" must leave exactly one bit in the last byte.
The arithmetic is in a few lemmas (`BitsFacts`, `UsedHeadMoves`, `UsedTailMoves`,
`AheadFacts`, `PositionUnique`); then one lemma an action. Theorems: `RingCorrect`,
`TypeCorrect`, `ContentsCorrect`, `EndsAgree`, and `RingImplementsFifo`, that every
call is a call of the queue.

`BitRingThreadsProofs`. In the middle of a call the fields do not agree: a bit is in
`buf` and not in `count_put`, `head` is stored and its byte not cleared, the reader
compares `tail` with a `head` of before. `ThreadsInv` says what the locals stand for
at each step (`Locals`) and, until a read is early, how far the reader is behind the
writer counting what each has done and not yet stored, and where every bit between
them lies (`Joint`). The stale `head` does no harm because the writer only moves
away from it (`Fresh`). Theorems: `ThreadsTypeCorrect`, also after an early read;
`PrefixUntilEarly`; and `EarlyOnlyThere`, for two bits a byte or more. With one bit
a byte the last is false: the reader can have finished the byte that the writer is
still opening, and goes on to the one behind it. The code's eight rule that out.

Three more say how much of `BitFifo` two threads keep until a read is early. They are
action properties defined in the proof module (`Waiting` counts what is written and not
read). `RefusesOnlyNearlyFull`: a refusal means more than S(B-2) bits wait, although
`tail` may be about to move. `QueueUntilEarly`: a bit moves only behind the others,
with room for it, or from their front; the capacity S(B-1)+1 takes one more invariant,
`LastByte`, since the full test looks at whole bytes and before `head` is stored.
`EmptyUnlessOpened`: a wrong "empty" takes a bit that is not counted yet, or a byte
opened since `head` was loaded. The second does happen: a whole byte waits, none of it
read, and `count_get` = 0 is compared with a `count_put` just zeroed for the next byte.

`TransmitterProofs`. `OnlyOversizeCut` says nothing of how much room is left, so
the invariant adds `TxRoom`: what is still to push of a frame that fits is at most
`Room`, the number of puts the ring is sure to accept. A put uses one of them, a
get never takes any away (`PutRoom`, `GetRoom`), and the free bytes main computes
stand for enough (`AdmitRoom`). Theorems: `TxTypeCorrect`, `TxRingCorrect`,
`AdmittedFrameFits`, and `TxImplementsFifo`: each step of main is a `put_bits` of the
ring or leaves it alone (`TxStepsTheRing`), so what `RingImplementsFifo` says of any
caller holds of these two. `NoCutWhenAllFit` is the other side of the finding of
`tx_cut`: where every frame fits, none is cut. With the code's numbers a frame fits
when its payload has at most 1014 bytes.

`WholeSymbols` says nothing during a push. `Symbols` does: what is in the ring and
what is still to push are together as odd as the callback is between two bits, and
the pushes whose results nobody looks at (warm-up packets, overhead) have the room
they need. `FramesOnSymbols` proves it from `CodeSizes`: every part of a frame is a
whole number of symbols, the empty ring takes the warm-up packets, the room asked
for takes the overhead. All three are true of the code's sizes and of the run's.

`FecFrameProofs`. Every property is about a frame that has arrived; `OnAir` adds what
is true of one on its way: its length is what `fec_encoded_len` gave, its damage is
one run of bytes, its prefix is right unless the damage touches it. The lemmas are
about lengths (adaptive parity never shrinks, so a length shorter than a block has
one payload; `ValidFecLen` accepts every length that `EncodedLen` gives) and about the interleaver (a run of consecutive bytes puts at
most k in each of nb blocks when it is no longer than nb * k). Theorems:
`FecTypeCorrect`, `LengthsAgree`, `BurstCorrected`, `PrefixProtected`. What
Reed-Solomon itself does is the contract that the model states.

`ReceiverProofs`. `ReceiverTypeCorrect` and `OnceInOrder` hold for all constants, main as
slow as it likes. `OnceInOrder` is what `rx_overlap` and `rx_overrun` leave standing:
frames come out in the order they were sent and none twice, however packets overlap in
`rx_rb` and wherever a reset or the timeout cuts. Its invariant `OrderInv` says that the
bits read, those in `rx_rb` and the one about to be put are in the order of the line
(`Queued`, `Coming`), that each belongs to a frame younger than all delivered
(`Placed`), and that a frame is delivered only with its last bit; a packet that decodes
as frame f has taken every bit of f with it. The other theorems assume `KeepsUp`, which has three parts:
`MainKeepsUp` (without it `rx_overlap` shows the opposite), no silence longer than
the timeout (after which the code leaves the bits so far in `rx_rb`, and the next
packet begins with them), and room in `rx_rb` for a whole packet. The inductive
invariant `Joint` has nine parts. `Turns`: while main has a packet the callback only
searches, so the two never touch `rx_rb` in the same span. `Counted`: `rx_rb` and
what main has read make up the packet announced, bit for bit, damaged or not.
`LastBit`: the last bit of a frame is not in a buffer before the frame is over.
`Where`, `Taken`, `Held`: for a frame that is undamaged so far, the callback is at the
bit that is on the air, has the scrambler and the header that belong to it, and what
it took in and main reads is that frame in order. `AirOK`, `Order` and `Undamaged`
tie these to the histories. There is a lemma for each action; `DecodeFacts` is the
one that `MDecode` turns on: a packet that decodes is the current frame, not yet
delivered, and that of a sound frame decodes. Theorems: `RingEmptyBetween`,
`WholePackets`, `NoGarbage`, and `LinkSafety`, that every step maps to a step of
`FrameLink` or to none: the refinement without its liveness.

`BitSyncProofs`. `InStep`: in a frame whose sync word was found, with no bit lost
since, both registers are equal, because the sender's starts again at the place
where the receiver's is set. `ScramblersInStep` follows for every word, payload,
taps and width. `Heard`: `j` bits into a sync word of which none was missed, the last
`j` bits of `corr_reg` differ from the word in at most `errs` places, and the
correlator has counted at least as many bits as were taken in. At the word's end
that is enough for the threshold; for the popcount filter it takes `FilterPasses`,
that the filter lets through every word within the threshold of the sync word (the
code's has 16 ones, two may be wrong, the filter takes 10 to 22). Theorem:
`IntactWordsFound`. `BitSyncTypeCorrect`: the register of a scrambler never becomes
zero (from there it would never leave, and scramble nothing), because its top bit is
tapped: the bit shifted out comes back in the key. `SlipsStay` needs two facts
the code's numbers have. `EvenTaps`: the taps are even in number, so a register
all ones has the key 0. And that words are found only where `OnlyAtEnds` says, which
is stated as `[]OnlyAtEnds` next to `Spec`, because for other words it may be false;
the run checks it for the real ones. The argument (`SlipInv`): after a slip the
receiver's register is one step behind the sender's, so the key it uses is
the sender's lowest bit; bits that come out right one after the other mean that
that bit does not change; with STATE_BITS of them the register would be all ones (it
is never zero), whose key is 0.

`RohcProofs`. The properties speak of the contexts while the air is quiet, and of
what came out; neither is inductive, because a sent frame has moved the sender's
context and not yet the receiver's. `RohcInv` adds `InFlight`, which relates the
frame on the air to both contexts (what the receiver will have when it
delivers it is what the sender has now), `Ghosts`, the order between the
histories, and `Due`, that a receiver that has heard `good` whole packets in a row
without being put right has a sender that far on its way to the next raw packet.
`ResyncBound` is `Due` at its end. Theorems: `RohcCorrect`, `RohcTypeCorrect`,
`ContextsAgreeAlways`, `FaithfulCorrect`, `FlowCorrect`, `ResyncCorrect`.

`AgcProofs`. `AgcInv` is `TypeOK`, `LockAgrees` and three parts more. `FreezeCounts`:
what is left of the freeze and what has passed since the last transmission add up to
`HOLD`, without which nothing ties the freeze to the callbacks it counts.
`OneInHand`: while a call of `agc_tune` has passed the test of the freeze and not yet
stored, or the warm-up is not over, nothing has moved in this transmission; two
changes would need two calls, and the second would have found the freeze.
`InCalibration` says in which phase the two begin. Theorems: `AgcCorrect`,
`AgcTypeCorrect`, `LockAgreesAlways`, and `GainsHeldAlways` for the action property.

Only model-checked. Liveness (`AcceptedIsRead`, `PacketsSent`, `BackToSearching`,
`Heals`, the fair half of `FrameLink`, the four of `Agc`), which is beyond the
prover. `OnlyAtEnds` of `BitSync`: it is a fact about these very words and payload
and about the key stream that scrambles them, not a consequence of the control (for
other words it is false), and TLC computes it with the real ones.

## 5. Not modelled

Signal processing (tones and filters), the TUN and PortAudio calls, LZ4, and
Galois-field arithmetic. Shutdown (`keep_running`) ends every behaviour
and is left out. Memory reordering weaker than the C11 default does not arise:
the fields are sequentially consistent atomics, but the fields of `struct EchoRx`
other than `packet_ready` are plain, and the models let their accesses interleave
without letting a compiler merge them.

Start and stop are one sequence each without a second actor. What
reading them shows: the early returns of `audio_init` do not call `Pa_Terminate`
and those of `main` do not call `log_close`; both end the process. The log is a
file behind a mutex that the callback takes as well: a delay that these models,
which have no time, cannot judge.

## 6. Plan

1. (done) `BitFifo`, `BitRing`, `BitRingThreads`, `FrameLink`, `Receiver`,
   `Transmitter`, `FecFrame`; proofs of `BitRing` and of `Transmitter`'s room.
2. (done) `Rohc`, `Agc`, `BitSync`; `FecFrame` with the real constants and the
   damaged prefix; proofs of `Rohc` and of `Agc`'s safety.
3. (done) Proofs of `BitRingThreads`, `WholeSymbols`, `FecFrame`, `Receiver` with the
   safety half of `FrameLink`, and of `BitSync` where it does not depend on the words.
4. (done) Proofs of `BitSync`'s types and of its slips, of order on the receive side
   without `KeepsUp`, of the queue between two threads and of the transmit path as one.
5. What is left: `OnlyAtEnds` reduced to a condition on the words and the key stream
   that TLC evaluates alone; `WholeSymbols` over torn calls of the ring.
