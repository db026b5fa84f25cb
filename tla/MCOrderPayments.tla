-------------------------- MODULE MCOrderPayments --------------------------
(* A small instance of OrderPayments for TLC: orders s1 and s2 are paid    *)
(* with Stripe, b1 by bank transfer.                                       *)
EXTENDS OrderPayments

\* s1 asks for one unit of x, s2 for two of x (one line) and one of y, b1 for
\* one of x.  Two units of x are in stock: s2 excludes the others.
MixedUnits == 1..5
MixedOrderOf == <<"s1", "s2", "s2", "s2", "b1">>
MixedLineOf == <<1, 1, 1, 2, 1>>
MixedVariantOf == <<"x", "x", "x", "y", "x">>
TwoEach == [v \in Variants |-> 2]

\* All orders, one handler at a time, everything else may go wrong; the same
\* with an event that is replayed, and no refund, abort or crash; one Stripe
\* order whose events are replayed after its refund; and one Stripe order and
\* the bank transfer with two overlapping handlers.
SerialReplayedAndOverlapping ==
    {[orders |-> Orders, slots |-> {1}, replays |-> 0, env |-> Happenings],
     [orders |-> Orders, slots |-> {1}, replays |-> 1, env |-> {"decline"}],
     [orders |-> {"s1"}, slots |-> {1}, replays |-> 2, env |-> Happenings],
     [orders |-> {"s1", "b1"}, slots |-> {1, 2}, replays |-> 1,
      env |-> {"refund", "abort", "crash"}]}
=============================================================================
