---------------------------- MODULE MCSimBroker ----------------------------
(***************************************************************************)
(* Small instances of SimBroker and TickScan for TLC.                      *)
(***************************************************************************)
EXTENDS TickScan, TLC

CONSTANTS u1, u2, test, spot, eurusd, orphan, acct, other

\* one symbol, valued at its size
UnitSymbols   == {test}
NoBaseRates   == [s \in {} |-> None]
NoDecimals    == [s \in Symbols |-> 0]

\* a currency pair that is its own base rate, one without base rate, a oneshot symbol
RichSymbols   == {eurusd, orphan, spot}
RichFx        == {eurusd, orphan}
RichBaseRates == [s \in RichFx |-> IF s = eurusd THEN eurusd ELSE None]
RichDecimals  == [s \in RichSymbols |-> IF s = eurusd THEN 1 ELSE 0]

\* a wide spread around the limit price, and a quote at it or above it
SpreadTicks   == {[bid |-> 1, ask |-> 3], [bid |-> 2, ask |-> 2]}
RisingTicks   == {[bid |-> 1, ask |-> 3], [bid |-> 3, ask |-> 3]}

\* the table of the repository's decimal_conversion test
ASSUME DecimalConversion ==
    /\ ConvertDecimals(100, 2, 3) = 1000
    /\ ConvertDecimals(9991, 4, 3) = 999
    /\ ConvertDecimals(1000, 3, 1) = 10
    /\ ConvertDecimals(0, 8, 2) = 0
    /\ ConvertDecimals(1, 3, 3) = 1

UuidSymmetry  == Permutations(Uuids)
=============================================================================
