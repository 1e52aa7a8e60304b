----------------------------- MODULE RohcProofs -----------------------------
(***************************************************************************)
(* Proofs about header compression, for every set of packets, every period *)
(* of forced raw packets and every pattern of losses, damage and restarts. *)
(*                                                                         *)
(* What the ends promise each other is only visible with the air quiet.    *)
(* RohcInv adds what holds of a frame in flight: the sender's context      *)
(* already is what the frame will make of the receiver's (InFlight), and   *)
(* how many frames can have arrived since a raw one was due (Due).         *)
(***************************************************************************)
EXTENDS Rohc, TLAPS

Compressed == air # None /\ air.kind # "raw"

\* A header tun_to_rb can meet.
WellFormed(p) == p["ver"] \in {4, 6} /\ (p["ver"] = 4 => p["nib"] >= 5)

\* A frame stands for a packet the sender's context agrees with; a compressed
\* one tells the receiver of every slot in which it may differ.
InFlight ==
  /\ air # None => WellFormed(air.sent)
  /\ (air # None /\ rohc_tx.valid) =>
       AgreeOn(Tracked(rohc_tx.ctx["ver"]), air.sent, rohc_tx.ctx)
  /\ Compressed =>
       /\ rohc_tx.valid
       /\ air.hdr = air.sent
       /\ air.kind = IF air.sent["ver"] = 4 THEN "v4" ELSE "v6"
       /\ air.carries \subseteq IF air.sent["ver"] = 4 THEN {"tos", "b6", "b7", "b8"}
                                                       ELSE {"nib", "b7"}
       /\ anchored => AgreeOn(FlowSlots(rohc_tx.ctx["ver"]), rohc_tx.ctx, rohc_rx.ctx)
       /\ fresh => AgreeOn(Tracked(rohc_tx.ctx["ver"]) \ air.carries, rohc_tx.ctx, rohc_rx.ctx)

Ghosts ==
  /\ fresh => anchored
  /\ anchored => rohc_tx.valid /\ rohc_rx.valid
  /\ warm > 0 => ~rohc_tx.valid

\* Without a fresh context, fewer frames have arrived in a row than packets were
\* sent since the last forced raw one.
Due ==
  /\ ~rohc_tx.valid => good = 0
  /\ ~fresh /\ air = None   => good <= tx_raw_counter
  /\ ~fresh /\ Compressed   => good < tx_raw_counter
  /\ ~fresh                 => good < RAW_EVERY

RohcInv ==
  /\ TypeOK /\ Ghosts /\ InFlight /\ Due
  /\ ContextsAgree /\ FaithfulUntilLoss /\ LossKeepsFlow

-----------------------------------------------------------------------------
(* Slots.                                                                  *)

\* Tracked slots are the ones conveyed, and all of them are copied from a raw
\* packet; the flow is part of them.
LEMMA SlotFacts ==
  ASSUME NEW p \in Header, WellFormed(p)
  PROVE  /\ Conveyed(p) = Tracked(p["ver"])
         /\ Tracked(p["ver"]) \subseteq Copied(p)
         /\ FlowSlots(p["ver"]) \subseteq Tracked(p["ver"])
         /\ Tracked(p["ver"]) \subseteq Slot
         /\ "ver" \in FlowSlots(p["ver"])
<1>1. CASE p["ver"] = 4
  BY <1>1 DEF Conveyed, Tracked, Copied, FlowSlots, Slot
<1>2. CASE p["ver"] = 6
  BY <1>2 DEF Conveyed, Tracked, Copied, FlowSlots, Slot
<1> QED BY <1>1, <1>2 DEF WellFormed

LEMMA MergeFacts ==
  ASSUME NEW h \in Header, NEW g \in Header, NEW S
  PROVE  /\ Merge(h, g, S) \in Header
         /\ \A s \in Slot : Merge(h, g, S)[s] = IF s \in S THEN h[s] ELSE g[s]
BY DEF Merge, Header

LEMMA SlotsAreSlots ==
  /\ \A s \in {"ver", "nib", "tos", "label", "b6", "b7", "b8", "b9", "addr", "tail"} : s \in Slot
BY DEF Slot

\* The sender's context is a header again, and agrees with the packet it has
\* just compressed on everything tracked.
LEMMA SentContextFacts ==
  ASSUME NEW p \in Header, NEW c \in Header, WellFormed(p), SameFlow(p, c)
  PROVE  /\ SentContext(p, c) \in Header
         /\ SentContext(p, c)["ver"] = p["ver"] /\ c["ver"] = p["ver"]
         /\ AgreeOn(Tracked(p["ver"]), p, SentContext(p, c))
         /\ AgreeOn(FlowSlots(p["ver"]), c, SentContext(p, c))
         /\ Carries(p, c) \subseteq
              IF p["ver"] = 4 THEN {"tos", "b6", "b7", "b8"} ELSE {"nib", "b7"}
         /\ AgreeOn(Tracked(p["ver"]) \ Carries(p, c), p, c)
<1>1. CASE p["ver"] = 4
  <2>1. SentContext(p, c) = Merge(p, c, {"tos", "b6", "b7", "b8"})
    BY <1>1 DEF SentContext
  <2>2. AgreeOn({"ver", "nib", "b9", "addr"}, p, c)
    BY <1>1 DEF SameFlow, FlowSlots
  <2>3. SentContext(p, c) \in Header
    BY <2>1, MergeFacts
  <2>4. \A s \in Slot : SentContext(p, c)[s] = IF s \in {"tos", "b6", "b7", "b8"} THEN p[s] ELSE c[s]
    BY <2>1, MergeFacts
  <2>5. \A s \in {"ver", "nib", "b9", "addr"} : p[s] = c[s] /\ SentContext(p, c)[s] = p[s]
    BY <2>2, <2>4, SlotsAreSlots DEF AgreeOn
  <2>6. \A s \in {"tos", "b6", "b7", "b8"} : SentContext(p, c)[s] = p[s]
    BY <2>4, SlotsAreSlots
  <2>7. Tracked(p["ver"]) = {"ver", "nib", "b9", "addr", "tos", "b6", "b7", "b8"}
    BY <1>1 DEF Tracked, FlowSlots
  <2>8. FlowSlots(p["ver"]) = {"ver", "nib", "b9", "addr"}
    BY <1>1 DEF FlowSlots
  <2>9. /\ Carries(p, c) \subseteq {"tos", "b6", "b7", "b8"}
        /\ \A s \in {"tos", "b6", "b7", "b8"} : s \notin Carries(p, c) => p[s] = c[s]
    BY <1>1 DEF Carries, AgreeOn
  <2> QED BY <1>1, <2>3, <2>5, <2>6, <2>7, <2>8, <2>9 DEF AgreeOn
<1>2. CASE p["ver"] = 6
  <2>1. SentContext(p, c) = [Merge(p, c, {"nib", "b6", "b7"}) EXCEPT !["tos"] = p["nib"]]
    BY <1>2 DEF SentContext
  <2>2. AgreeOn({"ver", "b6", "b8", "b9", "addr", "tail"}, p, c)
    BY <1>2 DEF SameFlow, FlowSlots
  <2>3. SentContext(p, c) \in Header
    BY <2>1, MergeFacts, SlotsAreSlots DEF Header
  <2>4. \A s \in Slot \ {"tos"} :
          SentContext(p, c)[s] = IF s \in {"nib", "b6", "b7"} THEN p[s] ELSE c[s]
    BY <2>1, MergeFacts DEF Header
  <2>5. \A s \in {"ver", "b6", "b8", "b9", "addr", "tail"} :
          p[s] = c[s] /\ SentContext(p, c)[s] = p[s]
    BY <2>2, <2>4, SlotsAreSlots DEF AgreeOn
  <2>6. \A s \in {"nib", "b7"} : SentContext(p, c)[s] = p[s]
    BY <2>4, SlotsAreSlots
  <2>7. Tracked(p["ver"]) = {"ver", "b6", "b8", "b9", "addr", "tail", "nib", "b7"}
    BY <1>2 DEF Tracked, FlowSlots
  <2>8. FlowSlots(p["ver"]) = {"ver", "b6", "b8", "b9", "addr", "tail"}
    BY <1>2 DEF FlowSlots
  <2>9. /\ Carries(p, c) \subseteq {"nib", "b7"}
        /\ \A s \in {"nib", "b7"} : s \notin Carries(p, c) => p[s] = c[s]
    BY <1>2 DEF Carries, AgreeOn
  <2> QED BY <1>2, <2>3, <2>5, <2>6, <2>7, <2>8, <2>9 DEF AgreeOn
<1> QED BY <1>1, <1>2 DEF WellFormed

\* A raw packet leaves a context that agrees with it on everything tracked.
LEMMA CopiedFacts ==
  ASSUME NEW p \in Header, NEW c \in Header, WellFormed(p)
  PROVE  /\ Merge(p, c, Copied(p)) \in Header
         /\ Merge(p, c, Copied(p))["ver"] = p["ver"]
         /\ AgreeOn(Tracked(p["ver"]), p, Merge(p, c, Copied(p)))
BY SlotFacts, MergeFacts DEF AgreeOn

\* What the receiver rebuilds is a header; with a context of the same flow it is
\* the packet sent, in its flow slots, and with one that differs only in slots
\* the frame carries, in every conveyed slot.
LEMMA RebuiltFacts ==
  ASSUME NEW f, NEW p \in Header, NEW c \in Header, WellFormed(p),
         f.hdr = p,
         f.kind = IF p["ver"] = 4 THEN "v4" ELSE "v6",
         f.carries \subseteq IF p["ver"] = 4 THEN {"tos", "b6", "b7", "b8"} ELSE {"nib", "b7"}
  PROVE  /\ Rebuilt(f, c) \in Header
         /\ AgreeOn(FlowSlots(p["ver"]), p, c) =>
              AgreeOn(FlowSlots(p["ver"]), p, Rebuilt(f, c))
         /\ AgreeOn(Tracked(p["ver"]) \ f.carries, p, c) =>
              AgreeOn(Tracked(p["ver"]), p, Rebuilt(f, c))
<1>1. CASE p["ver"] = 4
  <2>1. Rebuilt(f, c) = Merge(p, c, f.carries)
    BY <1>1 DEF Rebuilt
  <2>2. \A s \in Slot : Rebuilt(f, c)[s] = IF s \in f.carries THEN p[s] ELSE c[s]
    BY <2>1, MergeFacts
  <2> QED BY <2>1, <2>2, MergeFacts, SlotFacts DEF AgreeOn
<1>2. CASE p["ver"] = 6
  <2>1. Rebuilt(f, c) = Merge(p, c, f.carries) \/
        Rebuilt(f, c) = [Merge(p, c, f.carries) EXCEPT !["ver"] = 6, !["tos"] = p["nib"]]
    BY <1>2 DEF Rebuilt
  <2>2. Rebuilt(f, c) \in Header
    BY <2>1, MergeFacts, SlotsAreSlots DEF Header
  <2>3. \A s \in Slot \ {"ver", "tos"} :
          Rebuilt(f, c)[s] = IF s \in f.carries THEN p[s] ELSE c[s]
    BY <2>1, MergeFacts DEF Header
  <2>4. c["ver"] = 6 => Rebuilt(f, c)["ver"] = 6
    BY <1>2, <2>1, MergeFacts, SlotsAreSlots DEF Header
  <2>5. "tos" \notin Tracked(p["ver"]) /\ "ver" \in Tracked(p["ver"]) /\ "ver" \notin f.carries
    BY <1>2 DEF Tracked, FlowSlots
  <2>6. Tracked(p["ver"]) \subseteq Slot /\ FlowSlots(p["ver"]) \subseteq Tracked(p["ver"])
        /\ "ver" \in FlowSlots(p["ver"])
    BY SlotFacts
  <2>7. ASSUME AgreeOn(FlowSlots(p["ver"]), p, c)
        PROVE  AgreeOn(FlowSlots(p["ver"]), p, Rebuilt(f, c))
    BY <1>2, <2>3, <2>4, <2>5, <2>6, <2>7 DEF AgreeOn
  <2>8. ASSUME AgreeOn(Tracked(p["ver"]) \ f.carries, p, c)
        PROVE  AgreeOn(Tracked(p["ver"]), p, Rebuilt(f, c))
    BY <1>2, <2>3, <2>4, <2>5, <2>6, <2>8 DEF AgreeOn
  <2> QED BY <2>2, <2>7, <2>8
<1> QED BY <1>1, <1>2 DEF WellFormed

-----------------------------------------------------------------------------
(* One lemma for each action.                                              *)

LEMMA InitInv == Init => RohcInv
<1> SUFFICES ASSUME Init PROVE RohcInv
  OBVIOUS
<1>1. TypeOK
  <2>1. Invalid \in [valid : BOOLEAN, ctx : Header]
    BY DEF Invalid, Header
  <2>2. 0 \in 0 .. RAW_EVERY - 1 /\ 0 \in 0 .. RAW_EVERY /\ IR_COUNT \in 0 .. IR_COUNT
    BY RohcAssumption
  <2> QED BY <2>1, <2>2 DEF Init, TypeOK, Outcomes
<1> QED BY <1>1, RohcAssumption
  DEF Init, RohcInv, Ghosts, InFlight, Due, ContextsAgree, FaithfulUntilLoss,
      LossKeepsFlow, Compressed, Invalid, None

\* The facts of a state that the lemmas below share.
LEMMA StateFacts ==
  ASSUME RohcInv
  PROVE  /\ rohc_tx.ctx \in Header /\ rohc_rx.ctx \in Header
         /\ rohc_tx.valid \in BOOLEAN /\ rohc_rx.valid \in BOOLEAN
         /\ rohc_tx = [valid |-> rohc_tx.valid, ctx |-> rohc_tx.ctx]
         /\ air # None => /\ air.kind \in Kinds /\ air.hdr \in Header /\ air.sent \in Header
                          /\ air.carries \subseteq Slot /\ air.coded \in BOOLEAN
         /\ air = None => air.kind = "none"
BY DEF RohcInv, TypeOK, None

LEMMA SendInv ==
  ASSUME RohcInv, NEW p \in Packets, Send(p)
  PROVE  RohcInv'
<1> DEFINE c == rohc_tx.ctx
           n == rohc_tx'.ctx
<1>1. /\ p \in Header /\ WellFormed(p) /\ c \in Header
      /\ rohc_tx.valid \in BOOLEAN
  BY RohcAssumption, StateFacts DEF WellFormed
<1>2. /\ n \in Header /\ n["ver"] = p["ver"] /\ AgreeOn(Tracked(p["ver"]), p, n)
      /\ rohc_tx'.valid = TRUE /\ rohc_tx' \in [valid : BOOLEAN, ctx : Header]
  <2>1. CASE IsIr(p)
    <3>1. rohc_tx' = [valid |-> TRUE, ctx |-> Merge(p, c, Copied(p))]
      BY <2>1 DEF Send
    <3> QED BY <1>1, <3>1, CopiedFacts
  <2>2. CASE ~IsIr(p)
    <3>1. rohc_tx' = [valid |-> TRUE, ctx |-> SentContext(p, c)]
      BY <2>2 DEF Send
    <3>2. SameFlow(p, c)
      BY <2>2 DEF IsIr
    <3> QED BY <1>1, <3>1, <3>2, SentContextFacts
  <2> QED BY <2>1, <2>2
<1>3. /\ tx_raw_counter \in 0 .. RAW_EVERY - 1 /\ RAW_EVERY \in Nat \ {0}
      /\ good \in 0 .. RAW_EVERY
  BY RohcAssumption DEF RohcInv, TypeOK
<1>4. CASE Forced \/ IsIr(p)
  <2>1. air' = Frame("raw", ~Forced, {}, p)
    BY <1>4 DEF Send
  <2>2. TypeOK'
    <3>1. air' \in [kind : Kinds, coded : BOOLEAN, carries : SUBSET Slot, hdr : Header, sent : Header]
      BY <1>1, <2>1 DEF Frame, Kinds, Forced
    <3>2. tx_raw_counter' \in 0 .. RAW_EVERY - 1
      BY <1>3 DEF Send, Forced
    <3> QED BY <1>2, <3>1, <3>2 DEF RohcInv, TypeOK, Send
  <2>3. air' # None /\ air'.kind = "raw" /\ air'.sent = p
    BY <2>1 DEF Frame, None
  <2>5. warm' = 0
    BY DEF Send
  <2>4. ~fresh => good < RAW_EVERY
    BY DEF RohcInv, Due
  <2>6. ~Compressed'
    BY <2>3 DEF Compressed
  <2>7. InFlight'
    <3>1. AgreeOn(Tracked(n["ver"]), p, n)
      BY <1>2
    <3> QED BY <1>1, <2>3, <2>6, <3>1 DEF InFlight
  <2>8. Ghosts'
    <3>1. warm' > 0 => ~rohc_tx'.valid
      BY <2>5
    <3> QED BY <1>2, <3>1 DEF RohcInv, Ghosts, Send
  <2>9. Due'
    BY <1>2, <2>3, <2>4, <2>6 DEF Due, Send
  <2> QED BY <2>2, <2>3, <2>7, <2>8, <2>9
    DEF Send, RohcInv, ContextsAgree, FaithfulUntilLoss, LossKeepsFlow
<1>5. CASE ~Forced /\ ~IsIr(p)
  <2>1. air' = Frame(IF p["ver"] = 4 THEN "v4" ELSE "v6", TRUE, Carries(p, c), p)
    BY <1>5 DEF Send
  <2>2. rohc_tx.valid /\ SameFlow(p, c) /\ n = SentContext(p, c)
    BY <1>5 DEF IsIr, Send
  <2>3. /\ AgreeOn(FlowSlots(p["ver"]), c, n) /\ c["ver"] = p["ver"]
        /\ AgreeOn(Tracked(p["ver"]) \ Carries(p, c), p, c)
        /\ Carries(p, c) \subseteq
              IF p["ver"] = 4 THEN {"tos", "b6", "b7", "b8"} ELSE {"nib", "b7"}
    BY <1>1, <2>2, SentContextFacts
  <2>4. /\ air' # None /\ air'.kind = IF p["ver"] = 4 THEN "v4" ELSE "v6"
        /\ air'.sent = p /\ air'.hdr = p /\ air'.carries = Carries(p, c) /\ air'.kind # "raw"
    BY <2>1 DEF Frame, None
  <2>5. tx_raw_counter' = tx_raw_counter + 1 /\ tx_raw_counter' \in 0 .. RAW_EVERY - 1
    BY <1>3, <1>5 DEF Send, Forced
  <2>6. TypeOK'
    <3>1. Carries(p, c) \subseteq Slot
      BY <2>3, SlotsAreSlots
    <3>2. air' \in [kind : Kinds, coded : BOOLEAN, carries : SUBSET Slot, hdr : Header, sent : Header]
      BY <1>1, <2>1, <3>1 DEF Frame, Kinds
    <3> QED BY <1>2, <2>5, <3>2 DEF RohcInv, TypeOK, Send
  <2>7. /\ anchored => AgreeOn(FlowSlots(p["ver"]), c, rohc_rx.ctx)
        /\ fresh => AgreeOn(Tracked(p["ver"]), c, rohc_rx.ctx)
    BY <2>3 DEF RohcInv, ContextsAgree, Send
  <2>8. InFlight'
    <3>1. anchored => AgreeOn(FlowSlots(p["ver"]), n, rohc_rx.ctx)
      BY <2>3, <2>7 DEF AgreeOn
    <3>2. fresh => AgreeOn(Tracked(p["ver"]) \ Carries(p, c), n, rohc_rx.ctx)
      BY <1>2, <2>3, <2>7 DEF AgreeOn
    <3> QED BY <1>1, <1>2, <2>3, <2>4, <3>1, <3>2 DEF InFlight, Compressed, Send
  <2>9. Due'
    <3>1. (~fresh => good <= tx_raw_counter /\ good < RAW_EVERY) /\ fresh' = fresh /\ good' = good
      BY DEF RohcInv, Due, Send
    <3>2. ~fresh' => good' < tx_raw_counter' /\ good' < RAW_EVERY
      BY <1>3, <2>5, <3>1
    <3> QED BY <1>2, <2>4, <3>2 DEF Due, Compressed
  <2>10. Ghosts'
    BY <1>2 DEF RohcInv, Ghosts, Send
  <2> QED BY <1>2, <2>4, <2>6, <2>8, <2>9, <2>10
    DEF Send, RohcInv, Ghosts, ContextsAgree, FaithfulUntilLoss, LossKeepsFlow
<1> QED BY <1>4, <1>5

LEMMA WarmUpInv ==
  ASSUME RohcInv, WarmUp
  PROVE  RohcInv'
<1>1. air' = Frame("raw", FALSE, {}, Dummy) /\ Dummy \in Header /\ WellFormed(Dummy)
  BY RohcAssumption DEF WarmUp, WellFormed
<1>2. warm' \in 0 .. IR_COUNT /\ warm > 0
  BY RohcAssumption DEF WarmUp, RohcInv, TypeOK
<1>3. TypeOK'
  <2>1. air' \in [kind : Kinds, coded : BOOLEAN, carries : SUBSET Slot, hdr : Header, sent : Header]
    BY <1>1 DEF Frame, Kinds
  <2> QED BY <1>2, <2>1 DEF RohcInv, TypeOK, WarmUp
<1>4. ~rohc_tx.valid /\ ~fresh /\ ~anchored
  BY <1>2 DEF RohcInv, Ghosts
<1>5. air' # None /\ air'.kind = "raw" /\ air'.sent = Dummy
  BY <1>1 DEF Frame, None
<1> QED BY <1>1, <1>3, <1>4, <1>5
  DEF WarmUp, RohcInv, Ghosts, InFlight, Due, ContextsAgree, FaithfulUntilLoss,
      LossKeepsFlow, Compressed

\* With a sender that has a context, the version of the frame in flight is that
\* context's.
LEMMA FlightFacts ==
  ASSUME RohcInv, air # None
  PROVE  /\ air.sent \in Header /\ WellFormed(air.sent)
         /\ rohc_tx.valid => /\ rohc_tx.ctx["ver"] = air.sent["ver"]
                            /\ AgreeOn(Tracked(air.sent["ver"]), air.sent, rohc_tx.ctx)
<1>1. air.sent \in Header /\ WellFormed(air.sent)
  BY StateFacts DEF RohcInv, InFlight
<1>2. rohc_tx.valid => AgreeOn(Tracked(rohc_tx.ctx["ver"]), air.sent, rohc_tx.ctx)
  BY DEF RohcInv, InFlight
<1>3. "ver" \in Tracked(rohc_tx.ctx["ver"])
  BY DEF Tracked, FlowSlots
<1> QED BY <1>1, <1>2, <1>3 DEF AgreeOn

LEMMA VerdictFacts ==
  ASSUME NEW p \in Header, NEW g, WellFormed(p)
  PROVE  /\ Verdict(p, g) \in Outcomes
         /\ AgreeOn(FlowSlots(p["ver"]), p, g) => Verdict(p, g) \in {"ok", "drifted"}
         /\ AgreeOn(Tracked(p["ver"]), p, g) => Verdict(p, g) = "ok"
BY SlotFacts DEF Verdict, Outcomes

LEMMA ReceivedFacts ==
  ASSUME RohcInv, NEW f, Received(f)
  PROVE  /\ good' \in 0 .. RAW_EVERY
         /\ good' = 0 \/ good' = good + 1 \/ good' = good
         /\ good < RAW_EVERY => good' \in {0, good + 1}
         /\ f.hdr # f.sent \/ ~rohc_tx.valid => good' = 0
BY RohcAssumption DEF RohcInv, TypeOK, Received

LEMMA DeliverRawInv ==
  ASSUME RohcInv, DeliverRaw
  PROVE  RohcInv'
<1>1. air # None /\ air.hdr \in Header /\ air.sent \in Header /\ WellFormed(air.sent)
  BY StateFacts, FlightFacts DEF DeliverRaw, None
<1>2. /\ rohc_rx' = [valid |-> TRUE, ctx |-> Merge(air.hdr, rohc_rx.ctx, Copied(air.hdr))]
      /\ rohc_rx' \in [valid : BOOLEAN, ctx : Header]
  BY <1>1, StateFacts, MergeFacts DEF DeliverRaw, SyncContext
<1>3. TypeOK'
  <2>1. outcome' \in Outcomes
    BY <1>1, VerdictFacts DEF DeliverRaw, Outcomes
  <2>2. good' \in 0 .. RAW_EVERY
    BY ReceivedFacts DEF DeliverRaw
  <2>3. fresh' \in BOOLEAN /\ anchored' = fresh'
    BY DEF DeliverRaw
  <2> QED BY <1>2, <2>1, <2>2, <2>3 DEF DeliverRaw, RohcInv, TypeOK
<1>4. CASE air.hdr = air.sent /\ rohc_tx.valid
  <2>1. fresh' /\ anchored' /\ outcome' = "ok"
    BY <1>4 DEF DeliverRaw
  <2>2. AgreeOn(Tracked(air.sent["ver"]), rohc_tx.ctx, rohc_rx'.ctx)
    <3>1. AgreeOn(Tracked(air.sent["ver"]), air.sent, rohc_rx'.ctx)
      BY <1>1, <1>2, <1>4, CopiedFacts, StateFacts
    <3> QED BY <1>1, <1>4, <3>1, FlightFacts DEF AgreeOn
  <2>3. AgreeOn(FlowSlots(air.sent["ver"]), rohc_tx.ctx, rohc_rx'.ctx)
    BY <1>1, <2>2, SlotFacts DEF AgreeOn
  <2>4. rohc_tx.ctx["ver"] = air.sent["ver"]
    BY <1>1, <1>4, FlightFacts
  <2> QED BY <1>2, <1>3, <1>4, <2>1, <2>2, <2>3, <2>4
    DEF DeliverRaw, RohcInv, Ghosts, InFlight, Due, ContextsAgree, FaithfulUntilLoss,
        LossKeepsFlow, Compressed
<1>5. CASE ~(air.hdr = air.sent /\ rohc_tx.valid)
  <2>1. ~fresh' /\ ~anchored'
    BY <1>5 DEF DeliverRaw
  <2>2. good' = 0
    BY <1>5, ReceivedFacts DEF DeliverRaw
  <2>3. 0 <= tx_raw_counter /\ 0 < RAW_EVERY
    BY RohcAssumption DEF RohcInv, TypeOK
  <2> QED BY <1>3, <2>1, <2>2, <2>3
    DEF DeliverRaw, RohcInv, Ghosts, InFlight, Due, ContextsAgree, FaithfulUntilLoss,
        LossKeepsFlow, Compressed
<1> QED BY <1>4, <1>5

\* One more frame received: still fewer than a fresh context would need.
LEMMA DueAfterCompressed ==
  ASSUME RohcInv, Compressed, Received(air), air' = None,
         rohc_tx' = rohc_tx, tx_raw_counter' = tx_raw_counter, fresh' = fresh
  PROVE  Due'
<1>1. /\ good \in 0 .. RAW_EVERY /\ tx_raw_counter \in 0 .. RAW_EVERY - 1
      /\ RAW_EVERY \in Nat \ {0}
  BY RohcAssumption DEF RohcInv, TypeOK
<1>2. ~fresh => good < tx_raw_counter
  BY DEF RohcInv, Due
<1>3. ~fresh => good' <= tx_raw_counter /\ good' < RAW_EVERY
  BY <1>1, <1>2, ReceivedFacts
<1>4. ~rohc_tx.valid => good' = 0
  BY ReceivedFacts
<1> QED BY <1>3, <1>4 DEF Due, Compressed

LEMMA RefuseCompressedInv ==
  ASSUME RohcInv, RefuseCompressed
  PROVE  RohcInv'
<1>1. air # None /\ Compressed
  BY DEF RefuseCompressed, Compressed, None
<1>2. ~anchored
  <2> SUFFICES ASSUME anchored PROVE FALSE
    OBVIOUS
  <2>1. rohc_rx.valid /\ air.kind = "v4" /\ rohc_rx.ctx["nib"] < 5
    BY DEF RohcInv, Ghosts, RefuseCompressed, CannotRebuild
  <2>2. air.sent["ver"] = 4 /\ air.sent["nib"] >= 5
    BY <1>1, <2>1, FlightFacts DEF RohcInv, InFlight, WellFormed
  <2>3. /\ AgreeOn(FlowSlots(4), rohc_tx.ctx, rohc_rx.ctx)
        /\ AgreeOn(Tracked(4), air.sent, rohc_tx.ctx)
    BY <1>1, <2>2, FlightFacts DEF RohcInv, InFlight
  <2>4. "nib" \in FlowSlots(4) /\ "nib" \in Tracked(4)
    BY DEF FlowSlots, Tracked
  <2>5. rohc_rx.ctx["nib"] = air.sent["nib"]
    BY <2>3, <2>4 DEF AgreeOn
  <2>6. air.sent["nib"] \in Nat
    BY <1>1, FlightFacts, SlotsAreSlots DEF Header
  <2> QED BY <2>1, <2>2, <2>5, <2>6
<1>3. Due'
  BY <1>1, DueAfterCompressed DEF RefuseCompressed
<1>4. TypeOK'
  <2>1. good' \in 0 .. RAW_EVERY
    BY ReceivedFacts DEF RefuseCompressed
  <2> QED BY <2>1 DEF RefuseCompressed, RohcInv, TypeOK, Outcomes
<1>5. ~fresh
  BY <1>2 DEF RohcInv, Ghosts
<1> QED BY <1>2, <1>3, <1>4, <1>5
  DEF RefuseCompressed, RohcInv, Ghosts, InFlight, ContextsAgree, FaithfulUntilLoss,
      LossKeepsFlow, Compressed

LEMMA DeliverCompressedInv ==
  ASSUME RohcInv, DeliverCompressed
  PROVE  RohcInv'
<1> DEFINE got == Rebuilt(air, rohc_rx.ctx)
           p   == air.sent
<1>1. air # None /\ Compressed /\ air.hdr = p /\ p \in Header /\ WellFormed(p)
  BY FlightFacts DEF DeliverCompressed, Compressed, None, RohcInv, InFlight
<1>2. /\ air.kind = IF p["ver"] = 4 THEN "v4" ELSE "v6"
      /\ air.carries \subseteq IF p["ver"] = 4 THEN {"tos", "b6", "b7", "b8"} ELSE {"nib", "b7"}
  BY <1>1 DEF RohcInv, InFlight
<1>3. /\ got \in Header
      /\ AgreeOn(FlowSlots(p["ver"]), p, rohc_rx.ctx) => AgreeOn(FlowSlots(p["ver"]), p, got)
      /\ AgreeOn(Tracked(p["ver"]) \ air.carries, p, rohc_rx.ctx)
           => AgreeOn(Tracked(p["ver"]), p, got)
  BY <1>1, <1>2, StateFacts, RebuiltFacts
<1>4. /\ rohc_tx.valid /\ rohc_tx.ctx["ver"] = p["ver"]
      /\ AgreeOn(Tracked(p["ver"]), p, rohc_tx.ctx)
  BY <1>1, FlightFacts DEF RohcInv, InFlight
<1>5. /\ FlowSlots(p["ver"]) \subseteq Tracked(p["ver"]) /\ "ver" \in FlowSlots(p["ver"])
  BY <1>1, SlotFacts
<1>6. anchored => AgreeOn(FlowSlots(p["ver"]), p, got)
  <2>1. anchored => AgreeOn(FlowSlots(p["ver"]), rohc_tx.ctx, rohc_rx.ctx)
    BY <1>1, <1>4 DEF RohcInv, InFlight
  <2> QED BY <1>3, <1>4, <1>5, <2>1 DEF AgreeOn
<1>7. fresh => AgreeOn(Tracked(p["ver"]), p, got)
  <2>1. fresh => AgreeOn(Tracked(p["ver"]) \ air.carries, rohc_tx.ctx, rohc_rx.ctx)
    BY <1>1, <1>4 DEF RohcInv, InFlight
  <2> QED BY <1>3, <1>4, <2>1 DEF AgreeOn
<1>8. anchored => got["ver"] = p["ver"]
  BY <1>5, <1>6 DEF AgreeOn
<1>9. anchored => outcome' = Verdict(p, got)
  BY <1>2, <1>8 DEF DeliverCompressed
<1>10. rohc_rx' = [valid |-> TRUE, ctx |-> got]
  BY DEF DeliverCompressed
<1>11. TypeOK'
  <2>1. outcome' \in Outcomes
    BY <1>1, VerdictFacts DEF DeliverCompressed, Outcomes
  <2>2. good' \in 0 .. RAW_EVERY
    BY ReceivedFacts DEF DeliverCompressed
  <2> QED BY <1>3, <1>10, <2>1, <2>2 DEF DeliverCompressed, RohcInv, TypeOK
<1>12. Due'
  BY <1>1, DueAfterCompressed DEF DeliverCompressed
<1>13. ContextsAgree'
  <2>1. anchored => AgreeOn(FlowSlots(p["ver"]), rohc_tx.ctx, got)
    BY <1>4, <1>5, <1>6 DEF AgreeOn
  <2>2. fresh => AgreeOn(Tracked(p["ver"]), rohc_tx.ctx, got)
    BY <1>4, <1>7 DEF AgreeOn
  <2> QED BY <1>4, <1>10, <2>1, <2>2 DEF ContextsAgree, DeliverCompressed
<1>14. LossKeepsFlow' /\ FaithfulUntilLoss'
  <2>1. fresh => anchored
    BY DEF RohcInv, Ghosts
  <2> QED BY <1>1, <1>6, <1>7, <1>9, <2>1, VerdictFacts
    DEF LossKeepsFlow, FaithfulUntilLoss, DeliverCompressed
<1>15. Ghosts'
  BY <1>10 DEF Ghosts, RohcInv, DeliverCompressed
<1> QED BY <1>11, <1>12, <1>13, <1>14, <1>15
  DEF DeliverCompressed, RohcInv, InFlight, Compressed

LEMMA LoseInv ==
  ASSUME RohcInv, Lose
  PROVE  RohcInv'
<1>1. 0 \in 0 .. RAW_EVERY /\ 0 <= tx_raw_counter /\ 0 < RAW_EVERY
  BY RohcAssumption DEF RohcInv, TypeOK
<1>2. air' = None /\ ~fresh' /\ good' = 0 /\ anchored' = (anchored /\ air.kind # "raw")
  BY DEF Lose
<1>3. TypeOK'
  BY <1>1, <1>2 DEF Lose, RohcInv, TypeOK
<1>4. anchored' => AgreeOn(FlowSlots(rohc_tx.ctx["ver"]), rohc_tx.ctx, rohc_rx.ctx)
  BY <1>2 DEF Lose, RohcInv, InFlight, Compressed
<1>5. ContextsAgree'
  BY <1>2, <1>4 DEF Lose, ContextsAgree
<1>6. Ghosts' /\ InFlight'
  BY <1>2 DEF Lose, RohcInv, Ghosts, InFlight, Compressed
<1>7. Due'
  BY <1>1, <1>2 DEF Lose, Due, Compressed
<1> QED BY <1>2, <1>3, <1>5, <1>6, <1>7
  DEF Lose, RohcInv, FaithfulUntilLoss, LossKeepsFlow

LEMMA DamageInv ==
  ASSUME RohcInv, Damage
  PROVE  RohcInv'
<1>1. PICK g \in Garbled \ {air.sent} : air' = [air EXCEPT !.hdr = g]
  BY DEF Damage
<1>2. g \in Header
  BY RohcAssumption
<1>3. air # None /\ air.kind = "raw"
      /\ air \in [kind : Kinds, coded : BOOLEAN, carries : SUBSET Slot, hdr : Header, sent : Header]
  BY DEF Damage, RohcInv, TypeOK
<1>4. /\ air' \in [kind : Kinds, coded : BOOLEAN, carries : SUBSET Slot, hdr : Header, sent : Header]
      /\ air'.kind = "raw" /\ air'.sent = air.sent
  BY <1>1, <1>2, <1>3
<1>5. air' # None
  BY <1>4 DEF None
<1>6. TypeOK'
  BY <1>4 DEF Damage, RohcInv, TypeOK
<1>7. InFlight'
  BY <1>3, <1>4, <1>5 DEF Damage, RohcInv, InFlight, Compressed
<1>8. Due'
  BY <1>3, <1>4, <1>5 DEF Damage, RohcInv, Due, Compressed
<1> QED BY <1>5, <1>6, <1>7, <1>8
  DEF Damage, RohcInv, Ghosts, ContextsAgree, FaithfulUntilLoss, LossKeepsFlow

\* An end that starts again forgets what both knew.
LEMMA RestartInv ==
  ASSUME RohcInv, RestartSender \/ RestartReceiver
  PROVE  RohcInv'
<1>1. Invalid \in [valid : BOOLEAN, ctx : Header] /\ Invalid.valid = FALSE
  BY DEF Invalid, Header
<1>2. /\ 0 \in 0 .. RAW_EVERY - 1 /\ 0 \in 0 .. RAW_EVERY /\ 0 < RAW_EVERY
      /\ IR_COUNT \in 0 .. IR_COUNT /\ tx_raw_counter \in 0 .. RAW_EVERY - 1
  BY RohcAssumption DEF RohcInv, TypeOK
<1>3. air' = None /\ ~fresh' /\ ~anchored' /\ good' = 0
  BY DEF RestartSender, RestartReceiver
<1>4. CASE RestartSender
  <2>1. rohc_tx' = Invalid /\ tx_raw_counter' = 0 /\ warm' = IR_COUNT
    BY <1>4 DEF RestartSender
  <2>2. TypeOK'
    BY <1>1, <1>2, <1>3, <1>4, <2>1 DEF RestartSender, RohcInv, TypeOK
  <2> QED BY <1>1, <1>2, <1>3, <2>1, <2>2
    DEF RohcInv, Ghosts, InFlight, Due, ContextsAgree, FaithfulUntilLoss, LossKeepsFlow,
        Compressed
<1>5. CASE RestartReceiver
  <2>1. TypeOK'
    BY <1>1, <1>2, <1>3, <1>5 DEF RestartReceiver, RohcInv, TypeOK, Outcomes
  <2>2. rohc_tx' = rohc_tx /\ tx_raw_counter' = tx_raw_counter /\ warm' = warm
    BY <1>5 DEF RestartReceiver
  <2> QED BY <1>2, <1>3, <2>1, <2>2
    DEF RohcInv, Ghosts, InFlight, Due, ContextsAgree, FaithfulUntilLoss, LossKeepsFlow,
        Compressed
<1> QED BY <1>4, <1>5

LEMMA StutterInv ==
  ASSUME RohcInv, UNCHANGED vars
  PROVE  RohcInv'
BY DEF vars, RohcInv, TypeOK, Ghosts, InFlight, Due, ContextsAgree, FaithfulUntilLoss,
       LossKeepsFlow, Compressed

\* A long enough run of received frames has a raw one in it.
LEMMA DueBounds == RohcInv => ResyncBound
<1> SUFFICES ASSUME RohcInv, good = RAW_EVERY PROVE fresh
  BY DEF ResyncBound
<1>1. ~fresh => good < RAW_EVERY
  BY DEF RohcInv, Due
<1> QED BY <1>1, RohcAssumption

-----------------------------------------------------------------------------
(* The theorems.                                                           *)

\* The strengthened invariant holds of every behaviour: tun_to_rb, the warm-up,
\* rb_to_tun, the air and the restarts all keep it.
THEOREM RohcCorrect == Spec => []RohcInv
<1>1. Init => RohcInv
  BY InitInv
<1>2. RohcInv /\ [Next]_vars => RohcInv'
  <2> SUFFICES ASSUME RohcInv, [Next]_vars PROVE RohcInv'
    OBVIOUS
  <2>1. ASSUME NEW p \in Packets, Send(p) PROVE RohcInv'
    BY <2>1, SendInv
  <2>2. CASE WarmUp
    BY <2>2, WarmUpInv
  <2>3. CASE DeliverRaw
    BY <2>3, DeliverRawInv
  <2>4. CASE RefuseCompressed
    BY <2>4, RefuseCompressedInv
  <2>5. CASE DeliverCompressed
    BY <2>5, DeliverCompressedInv
  <2>6. CASE Lose
    BY <2>6, LoseInv
  <2>7. CASE Damage
    BY <2>7, DamageInv
  <2>8. CASE RestartSender \/ RestartReceiver
    BY <2>8, RestartInv
  <2>9. CASE UNCHANGED vars
    BY <2>9, StutterInv
  <2> QED BY <2>1, <2>2, <2>3, <2>4, <2>5, <2>6, <2>7, <2>8, <2>9 DEF Next
<1> QED BY <1>1, <1>2, PTL DEF Spec

\* Contexts, counters, frames and verdicts stay in their types.
THEOREM RohcTypeCorrect == Spec => []TypeOK
<1>1. RohcInv => TypeOK
  BY DEF RohcInv
<1> QED BY <1>1, RohcCorrect, PTL

\* The two contexts of rohc.c agree, with the air quiet, on all that is compared
\* or sent while no frame is lost, and on the flow while no raw frame is.
THEOREM ContextsAgreeAlways == Spec => []ContextsAgree
<1>1. RohcInv => ContextsAgree
  BY DEF RohcInv
<1> QED BY <1>1, RohcCorrect, PTL

\* rohc_decompress gives back every header as rohc_compress took it, from the
\* first raw packet received until a frame is lost.
THEOREM FaithfulCorrect == Spec => []FaithfulUntilLoss
<1>1. RohcInv => FaithfulUntilLoss
  BY DEF RohcInv
<1> QED BY <1>1, RohcCorrect, PTL

\* A lost compressed frame never sends a later packet to another flow, nor makes
\* rohc_decompress refuse it.
THEOREM FlowCorrect == Spec => []LossKeepsFlow
<1>1. RohcInv => LossKeepsFlow
  BY DEF RohcInv
<1> QED BY <1>1, RohcCorrect, PTL

\* RAW_EVERY packets received in a row put the contexts back in step, whatever
\* happened before: the counter of tun_to_rb forces a raw one among them.
THEOREM ResyncCorrect == Spec => []ResyncBound
BY DueBounds, RohcCorrect, PTL
=============================================================================
