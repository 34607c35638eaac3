----------------------------- MODULE SimBroker -----------------------------
(***************************************************************************)
(* The trading core of the SimBroker: the ledger of its one account        *)
(* (util/src/trading/objects.rs), the per-symbol cache of pending and open *)
(* positions (broker_shims/simbroker/src/helpers.rs) and the handlers that *)
(* change them (broker_shims/simbroker/src/lib.rs).                        *)
(*                                                                         *)
(* One exec_action call is one step.  A price update is a run of steps:    *)
(* NewTick sets the price, one OpenPending step per pending order the new  *)
(* price fills, then one CloseOpen step per cached position it closes,     *)
(* then TickDone; nothing else can happen in between.                      *)
(*                                                                         *)
(* A HashMap<Uuid, Position> is a function whose domain is the set of its  *)
(* keys.  So is the cache: the Vec that holds a cached position is the one *)
(* of its symbol, and each uuid is pushed once.  A tick fills or closes    *)
(* positions here in any order, and is done when none is left; the Vecs    *)
(* and the index that tick_positions steps through them are in TickScan,   *)
(* which implements this module.                                           *)
(*                                                                         *)
(* A Rust panic ends the simulation: panic holds its cause.                *)
(***************************************************************************)
EXTENDS Position, Sequences, FiniteSets, Functions

CONSTANTS
    OneshotSymbols,     \* symbols created by oneshot_price_set: no cache slot
    FxSymbols,          \* symbols registered with is_fx
    BaseRateSymbol,     \* fx symbol -> the symbol of its base rate, or None
    Decimals,           \* symbol -> decimal_precision
    LotSize,            \* settings.fx_lot_size
    StartingBalance,    \* settings.starting_balance
    Account,            \* uuid of the account SimBroker::new creates
    AccountIds,         \* account uuids the client may name
    Uuids,              \* uuids gen_uuid can return
    Sizes, Prices, Stops, TakeProfits,  \* what the client may ask for
    Ticks               \* the quotes a tick may carry

ASSUME SymbolAssumption ==
    /\ OneshotSymbols \subseteq Symbols
    /\ FxSymbols \subseteq Symbols
    /\ BaseRateSymbol \in [FxSymbols -> Symbols \cup {None}]
    /\ None \notin Symbols
    /\ Decimals \in [Symbols -> Nat]
    /\ \A s, t \in Symbols :
          Decimals[s] >= Decimals[t] => 10 ^ (Decimals[s] - Decimals[t]) \in Nat \ {0}

ASSUME InputAssumption ==
    /\ LotSize \in Nat
    /\ StartingBalance \in Nat
    /\ Account \in AccountIds
    /\ Sizes \subseteq Nat
    /\ Prices \subseteq Nat
    /\ Stops \subseteq Optional
    /\ TakeProfits \subseteq Optional
    /\ Ticks \subseteq Quotes
    /\ None \notin Uuids

VARIABLES
    price,              \* Symbol.price of every symbol
    buying_power,       \* Ledger.buying_power
    pending_positions,  \* Ledger.pending_positions
    open_positions,     \* Ledger.open_positions
    closed_positions,   \* Ledger.closed_positions
    pending_cache,      \* Positions.pending of every symbol
    open_cache,         \* Positions.open of every symbol
    issued,             \* uuids already handed out by gen_uuid
    ticking,            \* the symbol tick_positions is working on, or None
    reply,              \* what the last exec_action returned
    notes,              \* what the last step pushed towards the client
    panic               \* "none", or why the simulation died

ledger == <<buying_power, pending_positions, open_positions, closed_positions>>
cache  == <<pending_cache, open_cache>>
vars   == <<price, ledger, cache, issued, ticking, reply, notes, panic>>

-----------------------------------------------------------------------------
(* Finite maps *)

Put(map, key, val) ==
    [k \in DOMAIN map \cup {key} |-> IF k = key THEN val ELSE map[k]]

Remove(map, key) == Restrict(map, DOMAIN map \ {key})

EmptyMap == [k \in {} |-> None]

-----------------------------------------------------------------------------
(* BrokerMessage and BrokerError *)

Errors == {"NoSuchSymbol", "NoSuchAccount", "NoSuchPosition", "NoDataAvailable",
           "InvalidStopValue", "InvalidTakeProfitValue",
           "InsufficientBuyingPower", "InvalidModificationAmount"}

PositionMessages == {"OrderPlaced", "OrderModified", "OrderCancelled",
                     "PositionOpened", "PositionModified", "PositionClosed"}

Error(e) == [kind |-> "Err", error |-> e]

Message(k, u, pos) == [kind |-> k, uuid |-> u, position |-> pos]

LedgerBalanceChange(amount) ==
    [kind |-> "LedgerBalanceChange", buying_power |-> amount]

LedgerSnapshot ==
    [kind |-> "Ledger", buying_power |-> buying_power, pending |-> pending_positions,
     open |-> open_positions, closed |-> closed_positions]

Pong == [kind |-> "Pong"]
AccountListing == [kind |-> "AccountListing"]

-----------------------------------------------------------------------------
(* Position values *)

ConvertDecimals(amount, in_decimals, out_decimals) ==
    IF in_decimals > out_decimals
    THEN amount \div (10 ^ (in_decimals - out_decimals))
    ELSE amount * (10 ^ (out_decimals - in_decimals))

\* get_base_rate finds a pair (either way round) that carries the rate
HasBaseRate(s) == s \in FxSymbols => BaseRateSymbol[s] # None

GetBaseRate(s) ==
    LET base == BaseRateSymbol[s]
    IN  ConvertDecimals(price[base].ask, Decimals[base], Decimals[s])

\* get_position_value, for a symbol whose base rate is known
PositionValue(pos) ==
    IF pos.symbol \in FxSymbols
    THEN pos.size * GetBaseRate(pos.symbol) * LotSize
    ELSE pos.size

-----------------------------------------------------------------------------
(* How a handler ends *)

Running == panic = "none"
Idle    == Running /\ ticking = None

\* The handler returns res and leaves ledger and cache alone.
Answer(res) ==
    /\ reply' = res
    /\ notes' = <<>>
    /\ UNCHANGED <<price, ledger, cache, issued, ticking, panic>>

Reject(e) == Answer(Error(e))

\* The thread panics; nothing it did before can be observed any more.
Crash(cause) ==
    /\ panic' = cause
    /\ UNCHANGED <<price, ledger, cache, issued, ticking, reply, notes>>

\* buying_power_changed: pushes a notification with the new balance
BuyingPowerChanged(amount) == notes' = <<LedgerBalanceChange(amount)>>

\* Mutant: an identifier may come back.
GenUuidReused(u) == u \in Uuids /\ issued' = issued \cup {u}

\* gen_uuid: an identifier never handed out before
GenUuid(u) == u \in Uuids \ issued /\ issued' = issued \cup {u}

-----------------------------------------------------------------------------
(* Methods of Ledger; the checks they make first are those of their callers *)

\* Mutants: a charge made twice, proceeds credited twice.
LedgerPlaceOrderPaidTwice(u, order, value) ==
    /\ buying_power' = buying_power - 2 * value
    /\ pending_positions' = Put(pending_positions, u, order)

LedgerClosePositionCreditedTwice(u, value) ==
    /\ open_positions' = Remove(open_positions, u)
    /\ closed_positions' = Put(closed_positions, u, open_positions[u])
    /\ buying_power' = buying_power + 2 * value

LedgerPlaceOrder(u, order, value) ==
    /\ buying_power' = buying_power - value
    /\ pending_positions' = Put(pending_positions, u, order)

LedgerModifyOrder(u, order) == pending_positions' = Put(pending_positions, u, order)

LedgerCancelOrder(u) == pending_positions' = Remove(pending_positions, u)

LedgerOpenPosition(u, pos) == open_positions' = Put(open_positions, u, pos)

LedgerClosePosition(u, value) ==
    /\ open_positions' = Remove(open_positions, u)
    /\ closed_positions' = Put(closed_positions, u, open_positions[u])
    /\ buying_power' = buying_power + value

LedgerModifyPosition(u, pos) == open_positions' = Put(open_positions, u, pos)

(***************************************************************************)
(* resize_position takes the position out first and puts it back only      *)
(* after a reduction the account can pay for.  A reduction to zero goes    *)
(* through close_position, which no longer finds the position.             *)
(***************************************************************************)
LedgerResizePosition(u, units, cost) ==
    LET unit_diff == open_positions[u].size - units
        resized == [open_positions[u] EXCEPT !.size = unit_diff]
        refusal == IF unit_diff < 0 THEN "InvalidModificationAmount"
                   ELSE IF unit_diff = 0 THEN "NoSuchPosition"
                   ELSE "InsufficientBuyingPower"
    IN  IF unit_diff > 0 /\ buying_power >= cost
        THEN /\ open_positions' = Put(open_positions, u, resized)
             /\ buying_power' = buying_power - cost
             /\ reply' = Message("PositionModified", u, resized)
        ELSE /\ open_positions' = Remove(open_positions, u)
             /\ buying_power' = buying_power
             /\ reply' = Error(refusal)

-----------------------------------------------------------------------------
(* Methods of Accounts: the cache follows the ledger *)

\* Mutants: the cache does not hear of the cancellation or of the new exits.
OrderCancelledUnheard(u) == UNCHANGED pending_cache
PositionModifiedUnheard(u, pos) == UNCHANGED open_cache

OrderPlaced(u, order) == pending_cache' = Put(pending_cache, u, order)

OrderModified(u, order) ==
    pending_cache' = IF u \in DOMAIN pending_cache THEN Put(pending_cache, u, order)
                                                   ELSE pending_cache

\* The caller panics if the order is not found.
OrderCancelled(u) == pending_cache' = Remove(pending_cache, u)

PositionOpenedImmediate(u, pos) == open_cache' = Put(open_cache, u, pos)

PositionModified(u, pos) ==
    open_cache' = IF u \in DOMAIN open_cache THEN Put(open_cache, u, pos) ELSE open_cache

-----------------------------------------------------------------------------
(* BrokerActions: the arms of exec_action *)

(***************************************************************************)
(* market_open, also the tail of a limit order that is fillable at once.   *)
(* The two asserts (open_position returned Ok, the execution data is set)  *)
(* hold by construction of pos; a symbol without a cache slot is indexed   *)
(* out of bounds after the ledger was charged.                             *)
(***************************************************************************)
MarketOpen(acct, s, long, size, stop, tp) ==
    LET cur_price == IF long THEN price[s].ask ELSE price[s].bid
        pos == [symbol |-> s, size |-> size, price |-> cur_price, long |-> long,
                stop |-> stop, take_profit |-> tp, execution_price |-> cur_price]
        value == PositionValue(pos)
    IN  IF CheckSanity(pos) # "Ok" THEN Reject(CheckSanity(pos))
        ELSE IF ~HasBaseRate(s) THEN Reject("NoDataAvailable")
        ELSE IF acct # Account THEN Reject("NoSuchAccount")
        ELSE IF buying_power < value THEN Reject("InsufficientBuyingPower")
        ELSE IF s \in OneshotSymbols THEN Crash("no cache slot")
        ELSE \E u \in Uuids :
                /\ GenUuid(u)
                /\ buying_power' = buying_power - value
                /\ LedgerOpenPosition(u, pos)
                /\ PositionOpenedImmediate(u, pos)
                /\ reply' = Message("PositionOpened", u, pos)
                /\ BuyingPowerChanged(buying_power')
                /\ UNCHANGED <<price, pending_positions, closed_positions,
                               pending_cache, ticking, panic>>

MarketOrder(acct, s, long, size, stop, tp) ==
    /\ Idle
    /\ MarketOpen(acct, s, long, size, stop, tp)

\* place_order: fill at market if the price allows, else park the order.
LimitOrder(acct, s, long, size, stop, tp, limit_price) ==
    LET order == [symbol |-> s, size |-> size, price |-> limit_price, long |-> long,
                  stop |-> stop, take_profit |-> tp, execution_price |-> None]
        value == PositionValue(order)
    IN  /\ Idle
        /\ IF CheckSanity(order) # "Ok" THEN Reject(CheckSanity(order))
           ELSE IF IsOpenSatisfied(order, price[s]) # None
                THEN MarketOpen(acct, s, long, size, stop, tp)
           ELSE IF ~HasBaseRate(s) THEN Reject("NoDataAvailable")
           ELSE IF acct # Account THEN Reject("NoSuchAccount")
           ELSE IF value > buying_power THEN Reject("InsufficientBuyingPower")
           ELSE IF s \in OneshotSymbols THEN Crash("no cache slot")
           ELSE \E u \in Uuids :
                   /\ GenUuid(u)
                   /\ LedgerPlaceOrder(u, order, value)
                   /\ OrderPlaced(u, order)
                   /\ reply' = Message("OrderPlaced", u, order)
                   /\ BuyingPowerChanged(buying_power')
                   /\ UNCHANGED <<price, open_positions, closed_positions,
                                  open_cache, ticking, panic>>

\* get_index finds no symbol of that name
OrderUnknownSymbol == Idle /\ Reject("NoSuchSymbol")

(***************************************************************************)
(* market_close updates the cache on PositionClosed, which resize_position *)
(* never returns: the cache is left alone.                                 *)
(***************************************************************************)
MarketClose(acct, u, size) ==
    /\ Idle
    /\ IF acct # Account THEN Reject("NoSuchAccount")
       ELSE IF u \notin DOMAIN open_positions THEN Reject("NoSuchPosition")
       ELSE IF ~HasBaseRate(open_positions[u].symbol) THEN Reject("NoDataAvailable")
       ELSE IF open_positions[u].size = 0 THEN Crash("divide by zero")
       ELSE LET pos  == open_positions[u]
                cost == (PositionValue(pos) \div pos.size) * size
            IN  /\ LedgerResizePosition(u, size, cost)
                /\ notes' = <<>>
                /\ UNCHANGED <<price, pending_positions, closed_positions, cache,
                               issued, ticking, panic>>

(***************************************************************************)
(* modify_order tests the OLD order for marketability; if it is, it opens  *)
(* a copy without execution data and Ledger::open_position unwraps None.   *)
(* Neither the stop and take-profit nor the balance is looked at.          *)
(***************************************************************************)
ModifyOrder(acct, u, size, entry_price, stop, tp) ==
    /\ Idle
    /\ IF acct # Account THEN Reject("NoSuchAccount")
       ELSE IF u \notin DOMAIN pending_positions THEN Reject("NoSuchPosition")
       ELSE IF IsOpenSatisfied(pending_positions[u], price[pending_positions[u].symbol]) # None
            THEN Crash("no execution time")
       ELSE LET order == [pending_positions[u] EXCEPT !.size = size, !.price = entry_price,
                             !.stop = stop, !.take_profit = tp]
            IN  /\ LedgerModifyOrder(u, order)
                /\ OrderModified(u, order)
                /\ reply' = Message("OrderModified", u, order)
                /\ notes' = <<>>
                /\ UNCHANGED <<price, buying_power, open_positions, closed_positions,
                               open_cache, issued, ticking, panic>>

\* cancel_order with Ledger::cancel_order: what the order had reserved is not given back.
CancelOrder(acct, u) ==
    /\ Idle
    /\ IF acct # Account THEN Reject("NoSuchAccount")
       ELSE IF u \notin DOMAIN pending_positions THEN Reject("NoSuchPosition")
       ELSE IF u \notin DOMAIN pending_cache THEN Crash("cancelled order not cached")
       ELSE /\ LedgerCancelOrder(u)
            /\ OrderCancelled(u)
            /\ reply' = Message("OrderCancelled", u, pending_positions[u])
            /\ BuyingPowerChanged(buying_power)
            /\ UNCHANGED <<price, buying_power, open_positions, closed_positions,
                           open_cache, issued, ticking, panic>>

\* modify_position with new exit levels; the cached copy is overwritten.
SetExits(acct, u, stop, tp) ==
    IF acct # Account THEN Reject("NoSuchAccount")
    ELSE IF u \notin DOMAIN open_positions THEN Reject("NoSuchPosition")
    ELSE LET pos == [open_positions[u] EXCEPT !.stop = stop, !.take_profit = tp]
         IN  /\ LedgerModifyPosition(u, pos)
             /\ PositionModified(u, pos)
             /\ reply' = Message("PositionModified", u, pos)
             /\ notes' = <<>>
             /\ UNCHANGED <<price, buying_power, pending_positions, closed_positions,
                            pending_cache, issued, ticking, panic>>

ModifyPosition(acct, u, stop, tp) == Idle /\ SetExits(acct, u, stop, tp)

\* A limit close only moves the take-profit; its size is ignored.
LimitClose(acct, u, exit_price) ==
    /\ Idle
    /\ SetExits(acct, u, IF u \in DOMAIN open_positions THEN open_positions[u].stop ELSE None,
                exit_price)

Ping == Idle /\ Answer(Pong)

GetLedger(acct) ==
    Idle /\ IF acct = Account THEN Answer(LedgerSnapshot) ELSE Reject("NoSuchAccount")

ListAccounts == Idle /\ Answer(AccountListing)

Disconnect == Idle /\ Crash("not implemented")

\* Setting the price of a known symbol by hand looks at no position.
OneshotPriceSet(s, quote) ==
    /\ Idle
    /\ price' = [price EXCEPT ![s] = quote]
    /\ reply' = None
    /\ notes' = <<>>
    /\ UNCHANGED <<ledger, cache, issued, ticking, panic>>

-----------------------------------------------------------------------------
(* tick_positions *)

\* cached orders of the ticking symbol that the price fills
Fillable == {u \in DOMAIN pending_cache :
                /\ pending_cache[u].symbol = ticking
                /\ IsOpenSatisfied(pending_cache[u], price[ticking]) # None}

\* cached positions of the ticking symbol that the price closes
Closable == {u \in DOMAIN open_cache :
                /\ open_cache[u].symbol = ticking
                /\ IsCloseSatisfied(open_cache[u], price[ticking])}

\* A tick arrives: the price is set and tick_positions starts.
NewTick(s, quote) ==
    /\ Idle
    /\ price' = [price EXCEPT ![s] = quote]
    /\ ticking' = s
    /\ reply' = None
    /\ notes' = <<>>
    /\ UNCHANGED <<ledger, cache, issued, panic>>

\* Mutants: the order also stays pending, the execution price is not set.
TakePendingNot(u) == UNCHANGED pending_positions
ExecutedNot(pos, open_price) == pos

\* ledger.pending_positions.remove
TakePending(u) == pending_positions' = Remove(pending_positions, u)

Executed(pos, open_price) == [pos EXCEPT !.execution_price = open_price]

\* First loop: the order moves from pending to open, in the ledger and in the cache.
FillOrder(u) ==
    IF u \notin DOMAIN pending_positions THEN Crash("filled order not in ledger")
    ELSE LET pos == Executed(pending_positions[u],
                             IsOpenSatisfied(pending_cache[u], price[ticking]))
         IN  /\ TakePending(u)
             /\ LedgerOpenPosition(u, pos)
             /\ pending_cache' = Remove(pending_cache, u)
             /\ open_cache' = Put(open_cache, u, pos)
             /\ notes' = <<Message("PositionOpened", u, pos)>>
             /\ UNCHANGED <<price, buying_power, closed_positions, issued, ticking,
                            reply, panic>>

OpenPending(u) ==
    /\ Running /\ ticking # None
    /\ u \in Fillable
    /\ FillOrder(u)

(***************************************************************************)
(* Second loop: the position is closed for the value of its cached copy    *)
(* (the expect fires if it has none); assert!(push_msg.is_ok()) kills the  *)
(* simulation if the ledger does not know the position.  The new balance   *)
(* is reported before the closure.                                         *)
(***************************************************************************)
ClosePosition(u) ==
    IF ~HasBaseRate(open_cache[u].symbol) THEN Crash("position value unknown")
    ELSE IF u \notin DOMAIN open_positions THEN Crash("closed position not in ledger")
    ELSE /\ LedgerClosePosition(u, PositionValue(open_cache[u]))
         /\ open_cache' = Remove(open_cache, u)
         /\ notes' = <<LedgerBalanceChange(buying_power'),
                       Message("PositionClosed", u, open_positions[u])>>
         /\ UNCHANGED <<price, pending_positions, pending_cache, issued, ticking,
                        reply, panic>>

CloseOpen(u) ==
    /\ Running /\ ticking # None
    /\ Fillable = {}
    /\ u \in Closable
    /\ ClosePosition(u)

\* tick_positions returns.
EndTick ==
    /\ ticking' = None
    /\ notes' = <<>>
    /\ UNCHANGED <<price, ledger, cache, issued, reply, panic>>

\* The price fills and closes nothing any more.
TickDone ==
    /\ Running /\ ticking # None
    /\ Fillable = {} /\ Closable = {}
    /\ EndTick

-----------------------------------------------------------------------------

ZeroQuote == [bid |-> 0, ask |-> 0]

\* SimBroker::new: streams start at (0, 0), oneshot symbols at a given price.
Init ==
    /\ price \in [Symbols -> Ticks \cup {ZeroQuote}]
    /\ \A s \in Symbols : IF s \in OneshotSymbols THEN price[s] \in Ticks
                                                  ELSE price[s] = ZeroQuote
    /\ buying_power = StartingBalance
    /\ pending_positions = EmptyMap
    /\ open_positions = EmptyMap
    /\ closed_positions = EmptyMap
    /\ pending_cache = EmptyMap
    /\ open_cache = EmptyMap
    /\ issued = {}
    /\ ticking = None
    /\ reply = None
    /\ notes = <<>>
    /\ panic = "none"

\* exec_action
ExecAction ==
    \/ \E acct \in AccountIds, s \in Symbols, long \in BOOLEAN, size \in Sizes,
          stop \in Stops, tp \in TakeProfits :
          \/ MarketOrder(acct, s, long, size, stop, tp)
          \/ \E limit_price \in Prices : LimitOrder(acct, s, long, size, stop, tp, limit_price)
    \/ OrderUnknownSymbol
    \/ \E acct \in AccountIds, u \in Uuids :
          \/ \E size \in Sizes : MarketClose(acct, u, size)
          \/ \E size \in Sizes, entry_price \in Prices, stop \in Stops, tp \in TakeProfits :
                ModifyOrder(acct, u, size, entry_price, stop, tp)
          \/ \E stop \in Stops, tp \in TakeProfits : ModifyPosition(acct, u, stop, tp)
          \/ \E exit_price \in Prices : LimitClose(acct, u, exit_price)
          \/ CancelOrder(acct, u)
    \/ Ping \/ ListAccounts \/ Disconnect
    \/ \E acct \in AccountIds : GetLedger(acct)

\* one step of tick_positions
TickPositions == TickDone \/ \E u \in Uuids : OpenPending(u) \/ CloseOpen(u)

Next ==
    \/ ExecAction
    \/ \E s \in Symbols, quote \in Ticks : OneshotPriceSet(s, quote)
    \/ \E s \in Symbols \ OneshotSymbols, quote \in Ticks : NewTick(s, quote)
    \/ TickPositions

Spec == Init /\ [][Next]_vars

-----------------------------------------------------------------------------
(* Types *)

IsPositionMap(map) ==
    /\ DOMAIN map \subseteq Uuids
    /\ map \in [DOMAIN map -> Positions]

Panics == {"none", "no cache slot", "divide by zero", "no execution time",
           "cancelled order not cached", "filled order not in ledger",
           "closed position not in ledger", "position value unknown",
           "not implemented"}

ReplyKinds == PositionMessages \cup {"Err", "Pong", "AccountListing", "Ledger"}
NoteKinds  == {"LedgerBalanceChange", "PositionOpened", "PositionClosed"}

(***************************************************************************)
(* Every part of the broker's state has the type its Rust declaration      *)
(* gives it; in particular buying_power, a usize, never goes below zero.   *)
(***************************************************************************)
TypeOK ==
    /\ price \in [Symbols -> Quotes]
    /\ buying_power \in Nat
    /\ IsPositionMap(pending_positions)
    /\ IsPositionMap(open_positions)
    /\ IsPositionMap(closed_positions)
    /\ IsPositionMap(pending_cache)
    /\ IsPositionMap(open_cache)
    /\ issued \subseteq Uuids
    /\ ticking \in Symbols \cup {None}
    /\ reply # None => reply.kind \in ReplyKinds
    /\ \A i \in DOMAIN notes : notes[i].kind \in NoteKinds
    /\ panic \in Panics

-----------------------------------------------------------------------------
(* Safety *)

(***************************************************************************)
(* The pending cache, which decides what a tick fills, and the ledger hold *)
(* the same orders with the same terms after every placement, modification,*)
(* cancellation and fill (Accounts.order_placed, order_modified,           *)
(* order_cancelled, and the first loop of tick_positions).                 *)
(***************************************************************************)
PendingCacheCoherent == pending_cache = pending_positions

(***************************************************************************)
(* Every open position of the ledger is watched: it is in the open cache   *)
(* of its symbol with the same terms, so that a tick that reaches its stop *)
(* or take-profit closes it.  Only the size may differ, and then the cache *)
(* holds the larger one (a partial market_close does not update it).       *)
(***************************************************************************)
OpenPositionsWatched ==
    \A u \in DOMAIN open_positions :
        /\ u \in DOMAIN open_cache
        /\ open_cache[u] = [open_positions[u] EXCEPT !.size = open_cache[u].size]
        /\ open_cache[u].size >= open_positions[u].size

(***************************************************************************)
(* An order is in one stage of its life: pending, open and closed share no *)
(* uuid, the cache never watches a position for closing while its order is *)
(* still pending or after it was closed, and no entry has a uuid that was  *)
(* never issued.                                                           *)
(***************************************************************************)
StagesDisjoint ==
    /\ DOMAIN pending_positions \cap DOMAIN open_positions = {}
    /\ DOMAIN pending_positions \cap DOMAIN closed_positions = {}
    /\ DOMAIN open_positions \cap DOMAIN closed_positions = {}
    /\ DOMAIN open_cache \cap (DOMAIN pending_positions \cup DOMAIN closed_positions) = {}
    /\ DOMAIN pending_positions \cup DOMAIN open_cache \cup DOMAIN closed_positions
          \subseteq issued

(***************************************************************************)
(* The asserts of is_open_satisfied, is_close_satisfied and                *)
(* position_opened_immediate: an order has no execution price before it is *)
(* filled, and everything open, watched or closed has one.                 *)
(***************************************************************************)
ExecutionData ==
    /\ \A u \in DOMAIN pending_positions : pending_positions[u].execution_price = None
    /\ \A u \in DOMAIN open_cache : open_cache[u].execution_price # None
    /\ \A u \in DOMAIN open_positions : open_positions[u].execution_price # None
    /\ \A u \in DOMAIN closed_positions : closed_positions[u].execution_price # None

(***************************************************************************)
(* A position is taken on only if it can be valued, so that tick_positions *)
(* can value what it closes: every order and every watched position has a  *)
(* symbol whose base rate get_base_rate finds.                             *)
(***************************************************************************)
ValuesKnown ==
    /\ \A u \in DOMAIN pending_positions : HasBaseRate(pending_positions[u].symbol)
    /\ \A u \in DOMAIN open_cache : HasBaseRate(open_cache[u].symbol)

\* the panics the bookkeeping of the cache is there to exclude
CachePanics == {"cancelled order not cached", "filled order not in ledger",
                "position value unknown"}

(***************************************************************************)
(* The panics that guard the cache against the ledger ("We were told that  *)
(* an order was cancelled, but we couldn't find that order in the cache!", *)
(* the unwrap of pending_positions.remove and the expect on the position   *)
(* value in tick_positions) never fire.                                    *)
(***************************************************************************)
CachePanicsUnreachable == panic \notin CachePanics

(***************************************************************************)
(* The conjunction that every step preserves.                              *)
(***************************************************************************)
IInv ==
    /\ TypeOK
    /\ PendingCacheCoherent
    /\ OpenPositionsWatched
    /\ StagesDisjoint
    /\ ExecutionData
    /\ ValuesKnown
    /\ CachePanicsUnreachable

-----------------------------------------------------------------------------
(* What a step may never do *)

(***************************************************************************)
(* Orders move forward only: a pending order is new, an open position was  *)
(* a pending order or is new, a closed one was open, and a closed position *)
(* is never changed or forgotten.                                          *)
(***************************************************************************)
Forward ==
    /\ DOMAIN pending_positions' \ DOMAIN pending_positions \subseteq Uuids \ issued
    /\ DOMAIN open_positions' \ DOMAIN open_positions
          \subseteq DOMAIN pending_positions \cup (Uuids \ issued)
    /\ DOMAIN closed_positions' \ DOMAIN closed_positions \subseteq DOMAIN open_positions
    /\ \A u \in DOMAIN closed_positions :
          u \in DOMAIN closed_positions' /\ closed_positions'[u] = closed_positions[u]

ForwardOnly == [][Forward]_vars

\* One coin per unit of a position in a map.
Coins(map) == UNION {{u} \X (1..map[u].size) : u \in DOMAIN map}

\* Units held in a map; without fx this is their value.
Units(map) == Cardinality(Coins(map))

\* Balance, reserved orders and what the watched positions will pay out.
Equity == buying_power + Units(pending_positions) + Units(open_cache)

(***************************************************************************)
(* No money from nothing (symbols valued at their size): the balance plus  *)
(* what is reserved by orders and by watched positions never grows, in any *)
(* step that does not change the size of a pending order (modify_order     *)
(* changes it without charging for it).                                    *)
(***************************************************************************)
NoMoneyFromNothing ==
    [][(\A u \in DOMAIN pending_positions \cap DOMAIN pending_positions' :
            pending_positions'[u].size = pending_positions[u].size)
       => Equity' <= Equity]_vars

-----------------------------------------------------------------------------
(* Statements of the repository that the code does not keep *)

(***************************************************************************)
(* lib.rs on tick_positions: "All actions that take place here are         *)
(* guarenteed to succeed".                                                 *)
(***************************************************************************)
TicksSucceed == panic # "closed position not in ledger"

(***************************************************************************)
(* trading_condition.rs on LimitOrder: "Opens an order at a price equal or *)
(* better to `entry_price`": a long pays at most, a short gets at least,   *)
(* the price of the order.                                                 *)
(***************************************************************************)
EqualOrBetterPrice ==
    \A u \in DOMAIN open_positions :
        LET pos == open_positions[u]
        IN  IF pos.long THEN pos.execution_price <= pos.price
                        ELSE pos.execution_price >= pos.price

=============================================================================
