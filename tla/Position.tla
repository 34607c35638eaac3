------------------------------ MODULE Position ------------------------------
(***************************************************************************)
(* The Position of util/src/trading/objects.rs and its three predicates.   *)
(*                                                                         *)
(* A position is a record.  Prices and sizes are natural numbers (usize),  *)
(* an Option<usize> is a number or None.  Every constructor of the broker  *)
(* sets execution_time and execution_price together, and sets price to     *)
(* Some, so the pair is one field here and price is a number.  Creation    *)
(* times and the exit data (which no ledger entry ever receives) are       *)
(* dropped.                                                                *)
(***************************************************************************)
EXTENDS Integers

CONSTANTS
    Symbols,    \* the symbols the broker keeps a price for
    None        \* the None of Option<usize>

ASSUME NoneAssumption == None \notin Nat

Optional == Nat \cup {None}

\* The state of one order or position; symbol stands for symbol_id.
Positions ==
    [symbol : Symbols, size : Nat, price : Nat, long : BOOLEAN,
     stop : Optional, take_profit : Optional, execution_price : Optional]

\* A quote: the (bid, ask) pair a symbol carries.
Quotes == [bid : Nat, ask : Nat]

-----------------------------------------------------------------------------
(***************************************************************************)
(* The price a pending order would execute at, or None.  The second test   *)
(* is reached by long orders too.                                          *)
(***************************************************************************)
IsOpenSatisfied(pos, quote) ==
    IF pos.long /\ quote.ask <= pos.price THEN quote.ask
    ELSE IF quote.bid >= pos.price THEN quote.bid
    ELSE None

\* stop and take_profit conditions of a long and of a short position
StopHit(pos, quote) ==
    /\ pos.stop # None
    /\ IF pos.long THEN pos.stop >= quote.bid ELSE pos.stop <= quote.ask

TakeProfitHit(pos, quote) ==
    /\ pos.take_profit # None
    /\ IF pos.long THEN pos.take_profit <= quote.ask ELSE pos.take_profit >= quote.bid

(***************************************************************************)
(* Whether an open position must close at these prices.  The closing price *)
(* the code also returns ends up only in a cache entry that is dropped, and*)
(* the reason only in the text of the message.                             *)
(***************************************************************************)
IsCloseSatisfied(pos, quote) == StopHit(pos, quote) \/ TakeProfitHit(pos, quote)

(***************************************************************************)
(* The stop and take-profit part of check_sanity: the first error, or Ok.  *)
(* The checks on execution and exit data cannot fail on a position whose   *)
(* execution price and time are set together and whose exit is unset.      *)
(***************************************************************************)
CheckSanity(pos) ==
    IF /\ pos.stop # None
       /\ IF pos.long THEN pos.price <= pos.stop ELSE pos.price >= pos.stop
    THEN "InvalidStopValue"
    ELSE IF /\ pos.take_profit # None
            /\ IF pos.long THEN pos.price >= pos.take_profit
                           ELSE pos.price <= pos.take_profit
    THEN "InvalidTakeProfitValue"
    ELSE "Ok"
=============================================================================
