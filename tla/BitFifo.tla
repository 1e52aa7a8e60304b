------------------------------ MODULE BitFifo ------------------------------
(***************************************************************************)
(* What the ring of rb_bits.c promises its two users: a bounded queue of   *)
(* bits.  A put may only be refused when more than Guaranteed bits are     *)
(* waiting, no more than Capacity bits are ever held, and a get returns    *)
(* the oldest bit that was accepted, or says that there is none.           *)
(***************************************************************************)
EXTENDS Naturals, Sequences

CONSTANTS Capacity,     \* the most bits the queue ever holds
          Guaranteed    \* with at most this many waiting, a put is accepted

VARIABLES q,            \* the accepted bits not yet returned, oldest first
          ret           \* the result of the last call

Bit == {0, 1}

\* The result of a call: the operation, the value returned, the bit moved.
Result(op, ok, bit) == [op |-> op, ok |-> ok, bit |-> bit]

TypeOK ==
  /\ q \in Seq(Bit)
  /\ Len(q) <= Capacity
  /\ ret \in [op : {"init", "put", "get", "reset"}, ok : {0, 1}, bit : Bit]

Init == q = <<>> /\ ret = Result("init", 1, 0)

Accept(b) ==
  /\ Len(q) < Capacity
  /\ q' = Append(q, b)
  /\ ret' = Result("put", 1, b)

Refuse(b) ==
  /\ Len(q) > Guaranteed
  /\ ret' = Result("put", 0, b)
  /\ UNCHANGED q

Take ==
  /\ q # <<>>
  /\ ret' = Result("get", 1, Head(q))
  /\ q' = Tail(q)

Nothing ==
  /\ q = <<>>
  /\ ret' = Result("get", 0, 0)
  /\ UNCHANGED q

Clear == q' = <<>> /\ ret' = Result("reset", 1, 0)

Next == (\E b \in Bit : Accept(b) \/ Refuse(b)) \/ Take \/ Nothing \/ Clear

Spec == Init /\ [][Next]_<<q, ret>>
=============================================================================
