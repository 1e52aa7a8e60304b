-------------------------------- MODULE Rohc --------------------------------
(***************************************************************************)
(* Header compression over one direction of the link: src/src/rohc.c, the  *)
(* part of tun_to_rb that picks what goes on the air and the part of       *)
(* rb_to_tun that rebuilds a header.  Each end keeps one context for both  *)
(* IP versions and nothing acknowledges anything, so the contexts drift    *)
(* when a frame is lost; a raw packet, one in RAW_EVERY, sets the          *)
(* receiver's again.                                                       *)
(*                                                                         *)
(* A header is a function from slots to values.  A slot is a run of bytes  *)
(* the code treats alike, so the two versions share slots the way they     *)
(* share bytes: nib is the low half of byte 0 (v4 header length in words,  *)
(* v6 upper traffic class), tos is v4's byte 1 or v6's lower traffic       *)
(* class, label v6's flow label, b6 .. b9 bytes 6 to 9, addr the addresses *)
(* up to byte 19, tail bytes 20 to 39.  Lengths, checksum and the two      *)
(* bytes every compressed header carries (IP id, payload length) are left  *)
(* out.  The air holds one frame: it keeps the order of frames, and        *)
(* neither end sees what the other does but through them.                  *)
(***************************************************************************)
EXTENDS Naturals

CONSTANTS
  RAW_EVERY,   \* every how many packets tun_to_rb sends one raw (100)
  Packets,     \* headers of the packets the kernel puts on the TUN
  Dummy,       \* header of the warm-up packets of main.c
  IR_COUNT,    \* warm-up packets (8)
  Garbled      \* headers a raw frame damaged on the air may show

Slot   == {"ver", "nib", "tos", "label", "b6", "b7", "b8", "b9", "addr", "tail"}
Header == [Slot -> Nat]

ASSUME RohcAssumption ==
  /\ RAW_EVERY \in Nat \ {0} /\ IR_COUNT \in Nat
  /\ Packets \cup Garbled \cup {Dummy} \subseteq Header
  /\ \A p \in Packets \cup Garbled \cup {Dummy} :
       p["ver"] \in {4, 6} /\ (p["ver"] = 4 => p["nib"] >= 5)

VARIABLES
  rohc_tx, rohc_rx,  \* the ROHCState of each end
  tx_raw_counter,    \* packets since the last forced raw one
  warm,              \* warm-up packets main has still to send
  air,               \* the frame on the air, or None
  outcome,           \* history: what became of the last frame received
  fresh,             \* history: nothing lost since the last raw frame received
  anchored,          \* history: no raw frame lost since the last one received
  good               \* history: frames received in a row, up to RAW_EVERY

vars == <<rohc_tx, rohc_rx, tx_raw_counter, warm, air, outcome, fresh, anchored, good>>

Kinds    == {"raw", "v4", "v6"}
Outcomes == {"none", "ok", "drifted", "misdirected", "refused"}

None    == [kind |-> "none"]
Invalid == [valid |-> FALSE, ctx |-> [s \in Slot |-> 0]]   \* after rohc_init

Merge(new, old, S) == [s \in Slot |-> IF s \in S THEN new[s] ELSE old[s]]
AgreeOn(S, h, g)   == \A s \in S : h[s] = g[s]

-----------------------------------------------------------------------------
(* The sender.                                                             *)

\* The bytes of a header a context copies: all 40, or the 20 of a v4 header
\* without options.
Copied(p) == IF p["ver"] = 4 /\ p["nib"] = 5 THEN Slot \ {"tail"} ELSE Slot

\* The slots that tell one flow from another.
FlowSlots(ver) ==
  IF ver = 4 THEN {"ver", "nib", "b9", "addr"}
             ELSE {"ver", "b6", "b8", "b9", "addr", "tail"}

\* Mutant: the compressor does not compare the protocol.
SameFlowAnyProto(p, c) == AgreeOn(FlowSlots(p["ver"]) \ {"b9"}, p, c)

\* The packet belongs to the flow of context c, and may be compressed.
SameFlow(p, c) == AgreeOn(FlowSlots(p["ver"]), p, c)

\* The slots a compressed header carries besides the bytes it always does.
\* NEXT_HDR is never among them: a packet with another one is not compressed.
Carries(p, c) ==
  LET Changed(S) == IF AgreeOn(S, p, c) THEN {} ELSE S
  IN  IF p["ver"] = 4
      THEN Changed({"tos"}) \cup Changed({"b6", "b7"}) \cup Changed({"b8"})
      ELSE Changed({"b7"}) \cup (Changed({"nib", "tos"}) \ {"tos"})

\* Mutant: the type of service stays out of the sender's context.
SentContextOldTos(p, c) ==
  IF p["ver"] = 4 THEN Merge(p, c, {"b6", "b7", "b8"})
  ELSE [Merge(p, c, {"nib", "b6", "b7"}) EXCEPT !["tos"] = p["nib"]]

\* The sender's context after a compressed packet.  For v6 the lower half of
\* the traffic class is set to the upper one.
SentContext(p, c) ==
  IF p["ver"] = 4 THEN Merge(p, c, {"tos", "b6", "b7", "b8"})
  ELSE [Merge(p, c, {"nib", "b6", "b7"}) EXCEPT !["tos"] = p["nib"]]

\* The packet sets the context and goes out raw: rohc_compress returns 0.
IsIr(p) == ~(rohc_tx.valid /\ SameFlow(p, rohc_tx.ctx))

\* Mutant: the counter goes one too far.
ForcedLate == tx_raw_counter + 1 > RAW_EVERY

\* The packet goes out raw whatever rohc_compress made of it.
Forced == tx_raw_counter + 1 >= RAW_EVERY

\* A frame: coded tells that FEC protects it, hdr holds what is on the air
\* (only the slots in carries, when compressed), sent what it stands for.
Frame(kind, coded, carries, p) ==
  [kind |-> kind, coded |-> coded, carries |-> carries, hdr |-> p, sent |-> p]

\* tun_to_rb.  The contexts are updated before the packet is forced raw.
Send(p) ==
  /\ air = None /\ warm = 0
  /\ rohc_tx' = [valid |-> TRUE,
                 ctx   |-> IF IsIr(p) THEN Merge(p, rohc_tx.ctx, Copied(p))
                           ELSE SentContext(p, rohc_tx.ctx)]
  /\ tx_raw_counter' = IF Forced THEN 0 ELSE tx_raw_counter + 1
  /\ air' = IF Forced \/ IsIr(p) THEN Frame("raw", ~Forced, {}, p)
            ELSE Frame(IF p["ver"] = 4 THEN "v4" ELSE "v6", TRUE,
                       Carries(p, rohc_tx.ctx), p)
  /\ UNCHANGED <<rohc_rx, warm, outcome, fresh, anchored, good>>

\* main sends a warm-up packet: raw, uncoded, and not through rohc_compress.
WarmUp ==
  /\ air = None /\ warm > 0
  /\ warm' = warm - 1
  /\ air' = Frame("raw", FALSE, {}, Dummy)
  /\ UNCHANGED <<rohc_tx, rohc_rx, tx_raw_counter, outcome, fresh, anchored, good>>

-----------------------------------------------------------------------------
(* The receiver.                                                           *)

\* What is rebuilt as the sender sent it while the contexts agree: of a v4
\* header everything but its options, of a v6 header everything but the lower
\* half of the traffic class and the flow label.
Conveyed(p) == IF p["ver"] = 4 THEN Slot \ {"label", "tail"} ELSE Slot \ {"tos", "label"}

Verdict(sent, got) ==
  IF AgreeOn(Conveyed(sent), sent, got) THEN "ok"
  ELSE IF AgreeOn(FlowSlots(sent["ver"]), sent, got) THEN "drifted"
  ELSE "misdirected"

\* rohc_decompress: the header rebuilt from context c, which is also the new
\* context.  A v6 header is made v6 only when it carries the traffic class.
Rebuilt(f, c) ==
  LET r == Merge(f.hdr, c, f.carries)
  IN  IF f.kind = "v6" /\ "nib" \in f.carries
      THEN [r EXCEPT !["ver"] = 6, !["tos"] = f.hdr["nib"]] ELSE r

\* rohc_decompress fails: no context, or one too short to be a v4 header.  (The
\* rohc_sync_context that follows does nothing: the first byte of a compressed
\* header is 0x00 or 0x80.)
CannotRebuild(f) ==
  ~rohc_rx.valid \/ (f.kind = "v4" /\ rohc_rx.ctx["nib"] < 5)

\* Mutant: a raw packet is taken over only by an empty context.
SyncContextOnce(h) ==
  rohc_rx' = IF rohc_rx.valid THEN rohc_rx
             ELSE [valid |-> TRUE, ctx |-> Merge(h, rohc_rx.ctx, Copied(h))]

\* rohc_sync_context: a raw packet is the context, before anything checks it.
SyncContext(h) ==
  rohc_rx' = [valid |-> TRUE, ctx |-> Merge(h, rohc_rx.ctx, Copied(h))]

\* Count the frames of TUN packets that arrive whole one after the other.
Received(f) ==
  good' = IF f.hdr # f.sent \/ ~rohc_tx.valid THEN 0
          ELSE IF good < RAW_EVERY THEN good + 1 ELSE good

\* rb_to_tun, a raw frame.  A damaged v4 header fails its checksum; a v6
\* header has none.  A warm-up packet leaves no context at the sender.
DeliverRaw ==
  /\ air.kind = "raw"
  /\ SyncContext(air.hdr)
  /\ outcome' = IF air.hdr = air.sent THEN "ok"
                ELSE IF air.hdr["ver"] = 4 THEN "refused"
                ELSE Verdict(air.sent, air.hdr)
  /\ fresh' = (air.hdr = air.sent /\ rohc_tx.valid)
  /\ anchored' = fresh'
  /\ Received(air)
  /\ air' = None
  /\ UNCHANGED <<rohc_tx, tx_raw_counter, warm>>

\* rb_to_tun, a compressed frame that cannot be rebuilt.
RefuseCompressed ==
  /\ air.kind \in {"v4", "v6"} /\ CannotRebuild(air)
  /\ outcome' = "refused"
  /\ Received(air)
  /\ air' = None
  /\ UNCHANGED <<rohc_tx, rohc_rx, tx_raw_counter, warm, fresh, anchored>>

\* rb_to_tun, a compressed frame.  The checksum of a v4 header is made anew, so
\* it tells nothing; a v6 frame rebuilt as a v4 header keeps an old one, which
\* refuses it when the context has already changed.
DeliverCompressed ==
  /\ air.kind \in {"v4", "v6"} /\ ~CannotRebuild(air)
  /\ LET got == Rebuilt(air, rohc_rx.ctx) IN
     /\ rohc_rx' = [valid |-> TRUE, ctx |-> got]
     /\ outcome' = IF air.kind = "v6" /\ got["ver"] = 4 THEN "refused"
                   ELSE Verdict(air.sent, got)
  /\ Received(air)
  /\ air' = None
  /\ UNCHANGED <<rohc_tx, tx_raw_counter, warm, fresh, anchored>>

-----------------------------------------------------------------------------
(* What goes wrong.                                                        *)

\* The frame never comes out of the receiver: cut short, not detected, or
\* damaged more than FEC restores.
Lose ==
  /\ air # None
  /\ air' = None
  /\ fresh' = FALSE /\ anchored' = (anchored /\ air.kind # "raw")
  /\ good' = 0
  /\ UNCHANGED <<rohc_tx, rohc_rx, tx_raw_counter, warm, outcome>>

\* A frame without FEC arrives with another header.
Damage ==
  /\ air # None /\ air.kind = "raw" /\ ~air.coded
  /\ \E g \in Garbled \ {air.sent} : air' = [air EXCEPT !.hdr = g]
  /\ UNCHANGED <<rohc_tx, rohc_rx, tx_raw_counter, warm, outcome, fresh, anchored, good>>

\* The sender's program is started again: echo_init, then the warm-up.
RestartSender ==
  /\ rohc_tx' = Invalid /\ tx_raw_counter' = 0 /\ warm' = IR_COUNT
  /\ air' = None
  /\ fresh' = FALSE /\ anchored' = FALSE /\ good' = 0
  /\ UNCHANGED <<rohc_rx, outcome>>

\* The receiver's program is started again; the frame on the air is missed.
RestartReceiver ==
  /\ rohc_rx' = Invalid
  /\ air' = None
  /\ fresh' = FALSE /\ anchored' = FALSE /\ good' = 0
  /\ outcome' = "none"
  /\ UNCHANGED <<rohc_tx, tx_raw_counter, warm>>

Init ==
  /\ rohc_tx = Invalid /\ rohc_rx = Invalid
  /\ tx_raw_counter = 0 /\ warm = IR_COUNT
  /\ air = None
  /\ outcome = "none" /\ fresh = FALSE /\ anchored = FALSE /\ good = 0

Next ==
  \/ \E p \in Packets : Send(p)
  \/ WarmUp \/ DeliverRaw \/ RefuseCompressed \/ DeliverCompressed
  \/ Lose \/ Damage \/ RestartSender \/ RestartReceiver

Spec == Init /\ [][Next]_vars

-----------------------------------------------------------------------------
\* Every variable has a value the code can give it.
TypeOK ==
  /\ {rohc_tx, rohc_rx} \subseteq [valid : BOOLEAN, ctx : Header]
  /\ tx_raw_counter \in 0 .. RAW_EVERY - 1 /\ warm \in 0 .. IR_COUNT
  /\ air \in {None} \cup [kind : Kinds, coded : BOOLEAN, carries : SUBSET Slot,
                          hdr : Header, sent : Header]
  /\ outcome \in Outcomes
  /\ {fresh, anchored} \subseteq BOOLEAN /\ good \in 0 .. RAW_EVERY

\* What the two contexts have in common while nothing is lost.
Tracked(ver) ==
  FlowSlots(ver) \cup IF ver = 4 THEN {"tos", "b6", "b7", "b8"} ELSE {"nib", "b7"}

\* Two programs that never confirm anything keep the same context: with the air
\* quiet, they agree on all that is compared or sent if no frame was lost since
\* the last raw one, and on the flow if no raw frame was.
ContextsAgree ==
  air = None =>
    /\ fresh    => AgreeOn(Tracked(rohc_tx.ctx["ver"]), rohc_tx.ctx, rohc_rx.ctx)
    /\ anchored => AgreeOn(FlowSlots(rohc_tx.ctx["ver"]), rohc_tx.ctx, rohc_rx.ctx)

\* Once a raw packet has been received, every packet comes out as it was sent
\* until a frame is lost, whatever flows, versions and fields alternate.  (Up to
\* what Conveyed leaves out.)
FaithfulUntilLoss == fresh => outcome = "ok"

\* Losing compressed frames spoils fields of a flow, never the flow: no packet
\* goes to another address or is refused unless a raw frame was lost or damaged
\* or a program restarted since the last raw frame received.
LossKeepsFlow == anchored => outcome \in {"ok", "drifted"}

\* The forced raw packet bounds the harm: whatever was lost, damaged or
\* restarted, RAW_EVERY packets received in a row put the ends back in step.
ResyncBound == good = RAW_EVERY => fresh
=============================================================================
