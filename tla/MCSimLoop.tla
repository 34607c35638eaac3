----------------------------- MODULE MCSimLoop -----------------------------
(***************************************************************************)
(* A small instance of SimLoop for TLC: two streams whose ticks fall on    *)
(* the same times.                                                         *)
(***************************************************************************)
EXTENDS SimLoop

CONSTANTS u1, u2, a, b, acct

NoBaseRates == [s \in {} |-> None]
NoDecimals  == [s \in Symbols |-> 0]
IndexOf     == [s \in Symbols |-> IF s = a THEN 0 ELSE 1]

Quote(bid, ask) == [bid |-> bid, ask |-> ask]
Tick(t, quote)  == [timestamp |-> t, quote |-> quote]

Low     == Quote(1, 1)
High    == Quote(3, 3)
Wide    == Quote(1, 3)
AnyTick == {Low, High, Wide}

\* the first tick of a stream is lost at registration; both streams tick at 2, the second
\* one twice, so that ticks of one symbol can overtake each other; an order left pending by
\* a wide quote is filled and stopped out by one low tick, which overflows the output buffer
TwoStreams == [s \in Symbols |->
    IF s = a THEN <<Tick(0, High), Tick(2, Wide), Tick(6, Low)>>
             ELSE <<Tick(0, Low), Tick(2, High), Tick(2, Low)>>]
=============================================================================
