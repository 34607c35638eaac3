-------------------------- MODULE SimBroker_proofs --------------------------
(***************************************************************************)
(* Proofs about SimBroker for every set of symbols, uuids, sizes, prices,  *)
(* quotes and accounts, and every starting balance.                        *)
(*                                                                         *)
(* IInv is inductive: the pending panics are unreachable because cache and *)
(* ledger hold the same orders; that needs the stages to be disjoint and   *)
(* fresh uuids to be unused; the watch on open positions survives a price  *)
(* update only because a filled order enters ledger and cache together.    *)
(*                                                                         *)
(* Money is counted as a set, one coin per unit of a position, so that     *)
(* what enters or leaves a map is a disjoint union.                        *)
(***************************************************************************)
EXTENDS TickScan, FiniteSetTheorems, TLAPS

-----------------------------------------------------------------------------
(* Maps *)

(***************************************************************************)
(* Inserting a position under a uuid keeps a map of positions one.         *)
(***************************************************************************)
LEMMA PutType ==
    ASSUME NEW map, IsPositionMap(map), NEW u \in Uuids, NEW pos \in Positions
    PROVE  IsPositionMap(Put(map, u, pos))
BY DEF IsPositionMap, Put

(***************************************************************************)
(* Removing a uuid keeps a map of positions one.                           *)
(***************************************************************************)
LEMMA RemoveType ==
    ASSUME NEW map, IsPositionMap(map), NEW u
    PROVE  IsPositionMap(Remove(map, u))
BY DEF IsPositionMap, Remove, Restrict

(***************************************************************************)
(* A position of a ledger map is a position.                               *)
(***************************************************************************)
LEMMA LookupType ==
    ASSUME NEW map, IsPositionMap(map), NEW u \in DOMAIN map
    PROVE  map[u] \in Positions /\ u \in Uuids
BY DEF IsPositionMap

-----------------------------------------------------------------------------
(* Values *)

(***************************************************************************)
(* get_position_value is a usize: a symbol with a base rate has a value    *)
(* that is a natural number, whatever the price.                           *)
(***************************************************************************)
LEMMA ValueType ==
    ASSUME price \in [Symbols -> Quotes], NEW pos \in Positions, HasBaseRate(pos.symbol)
    PROVE  PositionValue(pos) \in Nat
<1>1. pos.symbol \in Symbols /\ pos.size \in Nat
  BY DEF Positions
<1>2. CASE pos.symbol \in FxSymbols
  <2> DEFINE s == pos.symbol
             base == BaseRateSymbol[s]
             a == price[base].ask
  <2>1. base \in Symbols /\ a \in Nat
    BY <1>1, <1>2, SymbolAssumption DEF HasBaseRate, Quotes
  <2>2. Decimals[base] \in Nat /\ Decimals[s] \in Nat
    BY <1>1, <2>1, SymbolAssumption
  <2>3. ASSUME Decimals[base] > Decimals[s]
        PROVE  GetBaseRate(s) \in Nat
    <3> DEFINE p == 10 ^ (Decimals[base] - Decimals[s])
    <3>1. p \in Nat \ {0}
      BY <1>1, <2>1, <2>2, <2>3, SymbolAssumption
    <3>2. GetBaseRate(s) = a \div p
      BY <2>3 DEF GetBaseRate, ConvertDecimals
    <3> HIDE DEF p, a
    <3>3. a \div p \in Nat
      BY <2>1, <3>1
    <3> QED BY <3>2, <3>3
  <2>4. ASSUME ~(Decimals[base] > Decimals[s])
        PROVE  GetBaseRate(s) \in Nat
    <3> DEFINE p == 10 ^ (Decimals[s] - Decimals[base])
    <3>1. p \in Nat \ {0}
      BY <1>1, <2>1, <2>2, <2>4, SymbolAssumption
    <3>2. GetBaseRate(s) = a * p
      BY <2>4 DEF GetBaseRate, ConvertDecimals
    <3> HIDE DEF p, a
    <3>3. a * p \in Nat
      BY <2>1, <3>1
    <3> QED BY <3>2, <3>3
  <2>5. GetBaseRate(s) \in Nat
    BY <2>3, <2>4
  <2>6. \A x, y, z \in Nat : x * y * z \in Nat
    OBVIOUS
  <2>7. PositionValue(pos) = pos.size * GetBaseRate(s) * LotSize
    BY <1>2 DEF PositionValue
  <2> QED BY <1>1, <2>5, <2>6, <2>7, InputAssumption
<1>3. CASE pos.symbol \notin FxSymbols
  BY <1>1, <1>3 DEF PositionValue
<1> QED BY <1>2, <1>3

(***************************************************************************)
(* A cached copy that was just taken agrees with its original.             *)
(***************************************************************************)
LEMMA FreshCopy ==
    ASSUME NEW pos \in Positions
    PROVE  pos = [pos EXCEPT !.size = pos.size] /\ pos.size >= pos.size
BY DEF Positions

(***************************************************************************)
(* Changing the size of a position changes nothing else.                   *)
(***************************************************************************)
LEMMA Resize ==
    ASSUME NEW pos \in Positions, NEW n \in Nat
    PROVE  /\ [pos EXCEPT !.size = n] \in Positions
           /\ [pos EXCEPT !.size = n].size = n
           /\ [pos EXCEPT !.size = n].execution_price = pos.execution_price
BY DEF Positions

(***************************************************************************)
(* Two resizings in a row are the last one.                                *)
(***************************************************************************)
LEMMA ResizeTwice ==
    ASSUME NEW pos \in Positions, NEW n \in Nat, NEW m \in Nat
    PROVE  [[pos EXCEPT !.size = n] EXCEPT !.size = m] = [pos EXCEPT !.size = m]
BY DEF Positions

(***************************************************************************)
(* is_open_satisfied returns a price or None.                              *)
(***************************************************************************)
LEMMA OpenPriceType ==
    ASSUME NEW pos \in Positions, NEW quote \in Quotes
    PROVE  IsOpenSatisfied(pos, quote) \in Optional
BY DEF IsOpenSatisfied, Positions, Quotes, Optional

-----------------------------------------------------------------------------
(* How a handler ends *)

(***************************************************************************)
(* A handler that only answers (every early return with an error, Ping,    *)
(* GetLedger, ListAccounts) preserves the invariant.                       *)
(***************************************************************************)
LEMMA AnswerInv ==
    ASSUME IInv, NEW res, res.kind \in ReplyKinds, Answer(res)
    PROVE  IInv'
<1>1. (\A i \in DOMAIN notes : notes[i].kind \in NoteKinds)'
  BY DEF Answer
<1>2. (reply # None => reply.kind \in ReplyKinds)'
  BY DEF Answer
<1> QED
  BY <1>1, <1>2
  DEF IInv, TypeOK, PendingCacheCoherent, OpenPositionsWatched, StagesDisjoint,
      ExecutionData, ValuesKnown, CachePanicsUnreachable, Answer, ledger, cache

(***************************************************************************)
(* So does a rejection, whatever the error.                                *)
(***************************************************************************)
LEMMA RejectInv ==
    ASSUME IInv, NEW e, Reject(e)
    PROVE  IInv'
<1>1. Error(e).kind \in ReplyKinds
  BY DEF Error, ReplyKinds
<1> QED BY <1>1, AnswerInv DEF Reject

(***************************************************************************)
(* So does a panic other than those that guard the cache.                  *)
(***************************************************************************)
LEMMA CrashInv ==
    ASSUME IInv,
           NEW cause \in Panics \ CachePanics,
           Crash(cause)
    PROVE  IInv'
BY DEF IInv, TypeOK, PendingCacheCoherent, OpenPositionsWatched, StagesDisjoint,
       ExecutionData, ValuesKnown, CachePanicsUnreachable, Crash, ledger, cache

-----------------------------------------------------------------------------
(* The handlers *)

(***************************************************************************)
(* market_open: a position enters ledger and open cache under one new uuid.*)
(***************************************************************************)
LEMMA MarketOpenInv ==
    ASSUME IInv, NEW acct \in AccountIds, NEW s \in Symbols, NEW long \in BOOLEAN,
           NEW size \in Sizes, NEW stop \in Stops, NEW tp \in TakeProfits,
           MarketOpen(acct, s, long, size, stop, tp)
    PROVE  IInv'
<1> DEFINE cur_price == IF long THEN price[s].ask ELSE price[s].bid
           pos == [symbol |-> s, size |-> size, price |-> cur_price, long |-> long,
                   stop |-> stop, take_profit |-> tp, execution_price |-> cur_price]
           value == PositionValue(pos)
<1>1. cur_price \in Nat
  BY DEF IInv, TypeOK, Quotes
<1>2. pos \in Positions /\ pos.symbol = s /\ pos.execution_price # None
  BY <1>1, InputAssumption, NoneAssumption DEF Positions, Optional
<1> HIDE DEF cur_price
<1>3. CASE CheckSanity(pos) # "Ok"
  BY <1>3, RejectInv DEF MarketOpen, LedgerOpenPosition, PositionOpenedImmediate, cur_price
<1>4. CASE CheckSanity(pos) = "Ok" /\ ~HasBaseRate(s)
  BY <1>4, RejectInv DEF MarketOpen, LedgerOpenPosition, PositionOpenedImmediate, cur_price
<1>5. CASE CheckSanity(pos) = "Ok" /\ HasBaseRate(s) /\ acct # Account
  BY <1>5, RejectInv DEF MarketOpen, LedgerOpenPosition, PositionOpenedImmediate, cur_price
<1>6. CASE CheckSanity(pos) = "Ok" /\ HasBaseRate(s) /\ acct = Account /\ buying_power < value
  BY <1>6, RejectInv DEF MarketOpen, LedgerOpenPosition, PositionOpenedImmediate, cur_price
<1>7. CASE CheckSanity(pos) = "Ok" /\ HasBaseRate(s) /\ acct = Account
           /\ ~(buying_power < value) /\ s \in OneshotSymbols
  BY <1>7, CrashInv DEF MarketOpen, LedgerOpenPosition, PositionOpenedImmediate, cur_price,
                        Panics, CachePanics
<1>8. CASE CheckSanity(pos) = "Ok" /\ HasBaseRate(s) /\ acct = Account
           /\ ~(buying_power < value) /\ s \notin OneshotSymbols
  <2>1. PICK u \in Uuids :
            /\ GenUuid(u)
            /\ buying_power' = buying_power - value
            /\ open_positions' = Put(open_positions, u, pos)
            /\ open_cache' = Put(open_cache, u, pos)
            /\ reply' = Message("PositionOpened", u, pos)
            /\ BuyingPowerChanged(buying_power')
            /\ UNCHANGED <<price, pending_positions, closed_positions,
                           pending_cache, ticking, panic>>
    BY <1>8 DEF MarketOpen, LedgerOpenPosition, PositionOpenedImmediate, cur_price
  <2>2. value \in Nat
    BY <1>2, <1>8, ValueType DEF IInv, TypeOK
  <2> HIDE DEF pos, value
  <2>3. u \notin issued /\ issued' = issued \cup {u}
    BY <2>1 DEF GenUuid
  <2>4. u \notin DOMAIN open_cache /\ u \notin DOMAIN open_positions
        /\ u \notin DOMAIN pending_positions /\ u \notin DOMAIN closed_positions
    BY <2>3 DEF IInv, StagesDisjoint, OpenPositionsWatched
  <2>5. /\ DOMAIN open_positions' = DOMAIN open_positions \cup {u}
        /\ open_positions'[u] = pos
        /\ \A k \in DOMAIN open_positions : open_positions'[k] = open_positions[k]
    BY <2>1, <2>4 DEF Put
  <2>6. /\ DOMAIN open_cache' = DOMAIN open_cache \cup {u}
        /\ open_cache'[u] = pos
        /\ \A k \in DOMAIN open_cache : open_cache'[k] = open_cache[k]
    BY <2>1, <2>4 DEF Put
  <2>7. TypeOK'
    <3>1. IsPositionMap(open_positions') /\ IsPositionMap(open_cache')
      BY <1>2, <2>1, PutType DEF IInv, TypeOK
    <3>2. buying_power' \in Nat
      BY <1>8, <2>1, <2>2 DEF IInv, TypeOK
    <3>3. reply' # None => reply'.kind \in ReplyKinds
      BY <2>1 DEF Message, ReplyKinds, PositionMessages
    <3>4. \A i \in DOMAIN notes' : notes'[i].kind \in NoteKinds
      BY <2>1 DEF BuyingPowerChanged, LedgerBalanceChange, NoteKinds
    <3> QED BY <2>1, <2>3, <3>1, <3>2, <3>3, <3>4 DEF IInv, TypeOK
  <2>8. PendingCacheCoherent' /\ CachePanicsUnreachable'
    BY <2>1 DEF IInv, PendingCacheCoherent, CachePanicsUnreachable
  <2>9. OpenPositionsWatched'
    <3>1. /\ u \in DOMAIN open_cache'
          /\ open_cache'[u] = [open_positions'[u] EXCEPT !.size = open_cache'[u].size]
          /\ open_cache'[u].size >= open_positions'[u].size
      BY <1>2, <2>5, <2>6, FreshCopy
    <3> QED BY <2>5, <2>6, <3>1 DEF IInv, OpenPositionsWatched
  <2>10. StagesDisjoint'
    BY <2>1, <2>3, <2>4, <2>5, <2>6 DEF IInv, StagesDisjoint
  <2>11. ExecutionData'
    BY <1>2, <2>1, <2>5, <2>6 DEF IInv, ExecutionData
  <2>12. ValuesKnown'
    BY <1>2, <1>8, <2>1, <2>6 DEF IInv, ValuesKnown, HasBaseRate
  <2> QED BY <2>7, <2>8, <2>9, <2>10, <2>11, <2>12 DEF IInv
<1> QED BY <1>3, <1>4, <1>5, <1>6, <1>7, <1>8

(***************************************************************************)
(* place_order: an order enters ledger and pending cache under a new uuid. *)
(***************************************************************************)
LEMMA LimitOrderInv ==
    ASSUME IInv, NEW acct \in AccountIds, NEW s \in Symbols, NEW long \in BOOLEAN,
           NEW size \in Sizes, NEW stop \in Stops, NEW tp \in TakeProfits,
           NEW limit_price \in Prices,
           LimitOrder(acct, s, long, size, stop, tp, limit_price)
    PROVE  IInv'
<1> DEFINE order == [symbol |-> s, size |-> size, price |-> limit_price, long |-> long,
                     stop |-> stop, take_profit |-> tp, execution_price |-> None]
           value == PositionValue(order)
           sane == CheckSanity(order) = "Ok"
           fills == IsOpenSatisfied(order, price[s]) # None
<1>1. order \in Positions /\ order.symbol = s /\ order.execution_price = None
  BY InputAssumption DEF Positions, Optional
<1>2. CASE ~sane
  BY <1>2, RejectInv DEF LimitOrder, LedgerPlaceOrder, OrderPlaced
<1>3. CASE sane /\ fills
  BY <1>3, MarketOpenInv DEF LimitOrder, LedgerPlaceOrder, OrderPlaced
<1>4. CASE sane /\ ~fills /\ ~HasBaseRate(s)
  BY <1>4, RejectInv DEF LimitOrder, LedgerPlaceOrder, OrderPlaced
<1>5. CASE sane /\ ~fills /\ HasBaseRate(s) /\ acct # Account
  BY <1>5, RejectInv DEF LimitOrder, LedgerPlaceOrder, OrderPlaced
<1>6. CASE sane /\ ~fills /\ HasBaseRate(s) /\ acct = Account /\ value > buying_power
  BY <1>6, RejectInv DEF LimitOrder, LedgerPlaceOrder, OrderPlaced
<1>7. CASE sane /\ ~fills /\ HasBaseRate(s) /\ acct = Account /\ ~(value > buying_power)
           /\ s \in OneshotSymbols
  BY <1>7, CrashInv DEF LimitOrder, LedgerPlaceOrder, OrderPlaced, Panics, CachePanics
<1>8. CASE sane /\ ~fills /\ HasBaseRate(s) /\ acct = Account /\ ~(value > buying_power)
           /\ s \notin OneshotSymbols
  <2>1. PICK u \in Uuids :
            /\ GenUuid(u)
            /\ buying_power' = buying_power - value
            /\ pending_positions' = Put(pending_positions, u, order)
            /\ pending_cache' = Put(pending_cache, u, order)
            /\ reply' = Message("OrderPlaced", u, order)
            /\ BuyingPowerChanged(buying_power')
            /\ UNCHANGED <<price, open_positions, closed_positions,
                           open_cache, ticking, panic>>
    BY <1>8 DEF LimitOrder, LedgerPlaceOrder, OrderPlaced
  <2>2. value \in Nat
    BY <1>1, <1>8, ValueType DEF IInv, TypeOK
  <2> HIDE DEF order, value, sane, fills
  <2>3. u \notin issued /\ issued' = issued \cup {u}
    BY <2>1 DEF GenUuid
  <2>4. u \notin DOMAIN open_cache /\ u \notin DOMAIN open_positions
        /\ u \notin DOMAIN pending_positions /\ u \notin DOMAIN closed_positions
    BY <2>3 DEF IInv, StagesDisjoint, OpenPositionsWatched
  <2>5. /\ DOMAIN pending_positions' = DOMAIN pending_positions \cup {u}
        /\ pending_positions'[u] = order
        /\ \A k \in DOMAIN pending_positions : pending_positions'[k] = pending_positions[k]
    BY <2>1, <2>4 DEF Put
  <2>6. TypeOK'
    <3>1. IsPositionMap(pending_positions') /\ IsPositionMap(pending_cache')
      BY <1>1, <2>1, PutType DEF IInv, TypeOK
    <3>2. buying_power' \in Nat
      BY <1>8, <2>1, <2>2 DEF IInv, TypeOK
    <3>3. reply' # None => reply'.kind \in ReplyKinds
      BY <2>1 DEF Message, ReplyKinds, PositionMessages
    <3>4. \A i \in DOMAIN notes' : notes'[i].kind \in NoteKinds
      BY <2>1 DEF BuyingPowerChanged, LedgerBalanceChange, NoteKinds
    <3> QED BY <2>1, <2>3, <3>1, <3>2, <3>3, <3>4 DEF IInv, TypeOK
  <2>7. PendingCacheCoherent' /\ CachePanicsUnreachable'
    BY <2>1 DEF IInv, PendingCacheCoherent, CachePanicsUnreachable
  <2>8. OpenPositionsWatched'
    BY <2>1 DEF IInv, OpenPositionsWatched
  <2>9. StagesDisjoint'
    BY <2>1, <2>3, <2>4, <2>5 DEF IInv, StagesDisjoint
  <2>10. ExecutionData'
    BY <1>1, <2>1, <2>5 DEF IInv, ExecutionData
  <2>11. ValuesKnown'
    BY <1>1, <1>8, <2>1, <2>5 DEF IInv, ValuesKnown, HasBaseRate
  <2> QED BY <2>6, <2>7, <2>8, <2>9, <2>10, <2>11 DEF IInv
<1> QED BY <1>2, <1>3, <1>4, <1>5, <1>6, <1>7, <1>8

(***************************************************************************)
(* market_close: the ledger's position shrinks or disappears while the     *)
(* cache stays as it is, so that the cached size stays the larger one.     *)
(***************************************************************************)
LEMMA MarketCloseInv ==
    ASSUME IInv, NEW acct \in AccountIds, NEW u \in Uuids, NEW size \in Sizes,
           MarketClose(acct, u, size)
    PROVE  IInv'
<1> DEFINE pos == open_positions[u]
           cost == (PositionValue(pos) \div pos.size) * size
           unit_diff == pos.size - size
           resized == [pos EXCEPT !.size = unit_diff]
<1>1. CASE acct # Account
  BY <1>1, RejectInv DEF MarketClose, LedgerResizePosition
<1>2. CASE acct = Account /\ u \notin DOMAIN open_positions
  BY <1>2, RejectInv DEF MarketClose, LedgerResizePosition
<1>3. CASE acct = Account /\ u \in DOMAIN open_positions /\ ~HasBaseRate(pos.symbol)
  BY <1>3, RejectInv DEF MarketClose, LedgerResizePosition
<1>4. CASE acct = Account /\ u \in DOMAIN open_positions /\ HasBaseRate(pos.symbol)
           /\ pos.size = 0
  BY <1>4, CrashInv DEF MarketClose, LedgerResizePosition, Panics, CachePanics
<1>5. CASE acct = Account /\ u \in DOMAIN open_positions /\ HasBaseRate(pos.symbol)
           /\ pos.size # 0
  <2>1. /\ notes' = <<>>
        /\ UNCHANGED <<price, pending_positions, closed_positions, cache,
                       issued, ticking, panic>>
    BY <1>5 DEF MarketClose, LedgerResizePosition
  <2>2. pos \in Positions
    BY <1>5, LookupType DEF IInv, TypeOK
  <2>3. size \in Nat /\ pos.size \in Nat \ {0} /\ PositionValue(pos) \in Nat
    BY <1>5, <2>2, ValueType, InputAssumption DEF IInv, TypeOK, Positions
  <2>4. cost \in Nat
    <3>1. \A v, n, m \in Nat : n # 0 => (v \div n) * m \in Nat
      OBVIOUS
    <3> QED BY <2>3, <3>1
  <2> USE DEF cache
  <2>5. PendingCacheCoherent' /\ ValuesKnown' /\ CachePanicsUnreachable'
    BY <2>1 DEF IInv, PendingCacheCoherent, ValuesKnown, HasBaseRate, CachePanicsUnreachable
  <2>6. \A i \in DOMAIN notes' : notes'[i].kind \in NoteKinds
    BY <2>1
  <2>7. CASE unit_diff > 0 /\ buying_power >= cost
    <3>1. /\ open_positions' = Put(open_positions, u, resized)
          /\ buying_power' = buying_power - cost
          /\ reply' = Message("PositionModified", u, resized)
      BY <1>5, <2>7 DEF MarketClose, LedgerResizePosition
    <3>2. resized \in Positions /\ resized.size = unit_diff
          /\ pos.size >= resized.size /\ resized.execution_price = pos.execution_price
          /\ \A n \in Nat : [resized EXCEPT !.size = n] = [pos EXCEPT !.size = n]
      <4>1. unit_diff \in Nat /\ pos.size >= unit_diff
        BY <2>3, <2>7
      <4> HIDE DEF unit_diff, pos
      <4> QED BY <2>2, <4>1, Resize, ResizeTwice
    <3> HIDE DEF resized, cost, unit_diff
    <3>3. /\ DOMAIN open_positions' = DOMAIN open_positions
          /\ open_positions'[u] = resized
          /\ \A k \in DOMAIN open_positions \ {u} : open_positions'[k] = open_positions[k]
      BY <1>5, <3>1 DEF Put
    <3>4. TypeOK'
      <4>1. IsPositionMap(open_positions')
        BY <3>1, <3>2, PutType DEF IInv, TypeOK
      <4>2. buying_power' \in Nat
        BY <2>4, <2>7, <3>1 DEF IInv, TypeOK
      <4>3. reply' # None => reply'.kind \in ReplyKinds
        BY <3>1 DEF Message, ReplyKinds, PositionMessages
      <4> QED BY <2>1, <2>6, <4>1, <4>2, <4>3 DEF IInv, TypeOK
    <3>5. OpenPositionsWatched'
      <4>1. open_cache' = open_cache
        BY <2>1
      <4>2. /\ u \in DOMAIN open_cache
            /\ open_cache[u] = [pos EXCEPT !.size = open_cache[u].size]
            /\ open_cache[u].size >= pos.size
        BY <1>5 DEF IInv, OpenPositionsWatched
      <4>3. open_cache[u].size \in Nat
        BY <4>2, LookupType DEF IInv, TypeOK, Positions
      <4>4. open_cache[u] = [resized EXCEPT !.size = open_cache[u].size]
        BY <3>2, <4>2, <4>3
      <4>5. open_cache[u].size >= resized.size
        BY <2>3, <3>2, <4>2, <4>3 DEF Positions
      <4> QED BY <3>3, <4>1, <4>2, <4>4, <4>5 DEF IInv, OpenPositionsWatched
    <3>6. StagesDisjoint'
      BY <2>1, <3>3 DEF IInv, StagesDisjoint
    <3>7. ExecutionData'
      BY <1>5, <2>1, <3>2, <3>3 DEF IInv, ExecutionData
    <3> QED BY <2>5, <3>4, <3>5, <3>6, <3>7 DEF IInv
  <2>8. CASE ~(unit_diff > 0 /\ buying_power >= cost)
    <3>1. /\ open_positions' = Remove(open_positions, u)
          /\ buying_power' = buying_power
          /\ reply'.kind = "Err"
      BY <1>5, <2>8 DEF MarketClose, LedgerResizePosition, Error
    <3>2. /\ DOMAIN open_positions' = DOMAIN open_positions \ {u}
          /\ \A k \in DOMAIN open_positions' : open_positions'[k] = open_positions[k]
      BY <3>1 DEF Remove, Restrict
    <3>3. IsPositionMap(open_positions')
      BY <3>1, RemoveType DEF IInv, TypeOK
    <3>4. reply' # None => reply'.kind \in ReplyKinds
      BY <3>1 DEF ReplyKinds
    <3>5. TypeOK'
      BY <2>1, <2>6, <3>1, <3>3, <3>4 DEF IInv, TypeOK
    <3>6. OpenPositionsWatched'
      BY <2>1, <3>2 DEF IInv, OpenPositionsWatched
    <3>7. StagesDisjoint'
      BY <2>1, <3>2 DEF IInv, StagesDisjoint
    <3>8. ExecutionData'
      BY <2>1, <3>2 DEF IInv, ExecutionData
    <3> QED BY <2>5, <3>5, <3>6, <3>7, <3>8 DEF IInv
  <2> QED BY <2>7, <2>8
<1> QED BY <1>1, <1>2, <1>3, <1>4, <1>5

(***************************************************************************)
(* modify_order: the new terms replace the old ones in ledger and cache.   *)
(***************************************************************************)
LEMMA ModifyOrderInv ==
    ASSUME IInv, NEW acct \in AccountIds, NEW u \in Uuids, NEW size \in Sizes,
           NEW entry_price \in Prices, NEW stop \in Stops, NEW tp \in TakeProfits,
           ModifyOrder(acct, u, size, entry_price, stop, tp)
    PROVE  IInv'
<1> DEFINE old == pending_positions[u]
           marketable == IsOpenSatisfied(old, price[old.symbol]) # None
           order == [old EXCEPT !.size = size, !.price = entry_price,
                                !.stop = stop, !.take_profit = tp]
<1>1. CASE acct # Account
  BY <1>1, RejectInv DEF ModifyOrder, LedgerModifyOrder, OrderModified
<1>2. CASE acct = Account /\ u \notin DOMAIN pending_positions
  BY <1>2, RejectInv DEF ModifyOrder, LedgerModifyOrder, OrderModified
<1>3. CASE acct = Account /\ u \in DOMAIN pending_positions /\ marketable
  BY <1>3, CrashInv DEF ModifyOrder, LedgerModifyOrder, OrderModified, Panics, CachePanics
<1>4. CASE acct = Account /\ u \in DOMAIN pending_positions /\ ~marketable
  <2>1. /\ pending_positions' = Put(pending_positions, u, order)
        /\ pending_cache' = Put(pending_cache, u, order)
        /\ reply' = Message("OrderModified", u, order)
        /\ notes' = <<>>
        /\ UNCHANGED <<price, buying_power, open_positions, closed_positions,
                       open_cache, issued, ticking, panic>>
    BY <1>4 DEF ModifyOrder, LedgerModifyOrder, OrderModified, IInv, PendingCacheCoherent
  <2>2. order \in Positions /\ order.symbol = old.symbol
        /\ order.execution_price = old.execution_price
    <3>1. old \in Positions
      BY <1>4, LookupType DEF IInv, TypeOK
    <3> QED BY <3>1, InputAssumption DEF Positions, Optional
  <2> HIDE DEF old, marketable, order
  <2>3. /\ DOMAIN pending_positions' = DOMAIN pending_positions
        /\ pending_positions'[u] = order
        /\ \A k \in DOMAIN pending_positions \ {u} : pending_positions'[k] = pending_positions[k]
    BY <1>4, <2>1 DEF Put
  <2>4. TypeOK'
    <3>1. IsPositionMap(pending_positions') /\ IsPositionMap(pending_cache')
      BY <2>1, <2>2, PutType DEF IInv, TypeOK
    <3>2. reply' # None => reply'.kind \in ReplyKinds
      BY <2>1 DEF Message, ReplyKinds, PositionMessages
    <3>3. \A i \in DOMAIN notes' : notes'[i].kind \in NoteKinds
      BY <2>1
    <3> QED BY <2>1, <3>1, <3>2, <3>3 DEF IInv, TypeOK
  <2>5. PendingCacheCoherent' /\ CachePanicsUnreachable'
    BY <2>1 DEF IInv, PendingCacheCoherent, CachePanicsUnreachable
  <2>6. OpenPositionsWatched'
    BY <2>1 DEF IInv, OpenPositionsWatched
  <2>7. StagesDisjoint'
    BY <2>1, <2>3 DEF IInv, StagesDisjoint
  <2>8. ExecutionData'
    BY <1>4, <2>1, <2>2, <2>3 DEF IInv, ExecutionData, old
  <2>9. ValuesKnown'
    BY <1>4, <2>1, <2>2, <2>3 DEF IInv, ValuesKnown, HasBaseRate, old
  <2> QED BY <2>4, <2>5, <2>6, <2>7, <2>8, <2>9 DEF IInv
<1> QED BY <1>1, <1>2, <1>3, <1>4

(***************************************************************************)
(* cancel_order: the order leaves ledger and cache; the panic of           *)
(* order_cancelled is excluded because the two held the same orders.       *)
(***************************************************************************)
LEMMA CancelOrderInv ==
    ASSUME IInv, NEW acct \in AccountIds, NEW u \in Uuids, CancelOrder(acct, u)
    PROVE  IInv'
<1>1. CASE acct # Account
  BY <1>1, RejectInv DEF CancelOrder, LedgerCancelOrder, OrderCancelled
<1>2. CASE acct = Account /\ u \notin DOMAIN pending_positions
  BY <1>2, RejectInv DEF CancelOrder, LedgerCancelOrder, OrderCancelled
<1>3. CASE acct = Account /\ u \in DOMAIN pending_positions
  <2>1. /\ pending_positions' = Remove(pending_positions, u)
        /\ pending_cache' = Remove(pending_cache, u)
        /\ reply' = Message("OrderCancelled", u, pending_positions[u])
        /\ BuyingPowerChanged(buying_power)
        /\ UNCHANGED <<price, buying_power, open_positions, closed_positions,
                       open_cache, issued, ticking, panic>>
    BY <1>3 DEF CancelOrder, LedgerCancelOrder, OrderCancelled, IInv, PendingCacheCoherent
  <2>2. /\ DOMAIN pending_positions' = DOMAIN pending_positions \ {u}
        /\ \A k \in DOMAIN pending_positions' : pending_positions'[k] = pending_positions[k]
    BY <2>1 DEF Remove, Restrict
  <2>3. TypeOK'
    <3>1. IsPositionMap(pending_positions') /\ IsPositionMap(pending_cache')
      BY <2>1, RemoveType DEF IInv, TypeOK
    <3>2. reply' # None => reply'.kind \in ReplyKinds
      BY <2>1 DEF Message, ReplyKinds, PositionMessages
    <3>3. \A i \in DOMAIN notes' : notes'[i].kind \in NoteKinds
      BY <2>1 DEF BuyingPowerChanged, LedgerBalanceChange, NoteKinds
    <3> QED BY <2>1, <3>1, <3>2, <3>3 DEF IInv, TypeOK
  <2>4. PendingCacheCoherent' /\ CachePanicsUnreachable'
    BY <2>1 DEF IInv, PendingCacheCoherent, CachePanicsUnreachable
  <2>5. OpenPositionsWatched'
    BY <2>1 DEF IInv, OpenPositionsWatched
  <2>6. StagesDisjoint'
    BY <2>1, <2>2 DEF IInv, StagesDisjoint
  <2>7. ExecutionData'
    BY <2>1, <2>2 DEF IInv, ExecutionData
  <2>8. ValuesKnown'
    BY <2>1, <2>2 DEF IInv, ValuesKnown, HasBaseRate
  <2> QED BY <2>3, <2>4, <2>5, <2>6, <2>7, <2>8 DEF IInv
<1> QED BY <1>1, <1>2, <1>3

(***************************************************************************)
(* modify_position: ledger and cache get the same new copy, so that the    *)
(* sizes agree again whatever partial closes came before.                  *)
(***************************************************************************)
LEMMA SetExitsInv ==
    ASSUME IInv, NEW acct \in AccountIds, NEW u \in Uuids,
           NEW stop, u \in DOMAIN open_positions => stop \in Optional,
           NEW tp \in Optional, SetExits(acct, u, stop, tp)
    PROVE  IInv'
<1> DEFINE pos == [open_positions[u] EXCEPT !.stop = stop, !.take_profit = tp]
<1>1. CASE acct # Account
  BY <1>1, RejectInv DEF SetExits, LedgerModifyPosition, PositionModified
<1>2. CASE acct = Account /\ u \notin DOMAIN open_positions
  BY <1>2, RejectInv DEF SetExits, LedgerModifyPosition, PositionModified
<1>3. CASE acct = Account /\ u \in DOMAIN open_positions
  <2>1. u \in DOMAIN open_cache
    BY <1>3 DEF IInv, OpenPositionsWatched
  <2>2. /\ open_positions' = Put(open_positions, u, pos)
        /\ open_cache' = Put(open_cache, u, pos)
        /\ reply' = Message("PositionModified", u, pos)
        /\ notes' = <<>>
        /\ UNCHANGED <<price, buying_power, pending_positions, closed_positions,
                       pending_cache, issued, ticking, panic>>
    BY <1>3, <2>1 DEF SetExits, LedgerModifyPosition, PositionModified
  <2>3. open_positions[u] \in Positions
    BY <1>3, LookupType DEF IInv, TypeOK
  <2>4. pos \in Positions /\ pos.symbol = open_positions[u].symbol
        /\ pos.execution_price = open_positions[u].execution_price
    BY <1>3, <2>3 DEF Positions
  <2> HIDE DEF pos
  <2>5. /\ DOMAIN open_positions' = DOMAIN open_positions
        /\ open_positions'[u] = pos
        /\ \A k \in DOMAIN open_positions \ {u} : open_positions'[k] = open_positions[k]
    BY <1>3, <2>2 DEF Put
  <2>6. /\ DOMAIN open_cache' = DOMAIN open_cache
        /\ open_cache'[u] = pos
        /\ \A k \in DOMAIN open_cache \ {u} : open_cache'[k] = open_cache[k]
    BY <2>1, <2>2 DEF Put
  <2>7. TypeOK'
    <3>1. IsPositionMap(open_positions') /\ IsPositionMap(open_cache')
      BY <2>2, <2>4, PutType DEF IInv, TypeOK
    <3>2. reply' # None => reply'.kind \in ReplyKinds
      BY <2>2 DEF Message, ReplyKinds, PositionMessages
    <3>3. \A i \in DOMAIN notes' : notes'[i].kind \in NoteKinds
      BY <2>2
    <3> QED BY <2>2, <3>1, <3>2, <3>3 DEF IInv, TypeOK
  <2>8. PendingCacheCoherent' /\ CachePanicsUnreachable'
    BY <2>2 DEF IInv, PendingCacheCoherent, CachePanicsUnreachable
  <2>9. OpenPositionsWatched'
    <3>1. /\ u \in DOMAIN open_cache'
          /\ open_cache'[u] = [open_positions'[u] EXCEPT !.size = open_cache'[u].size]
          /\ open_cache'[u].size >= open_positions'[u].size
      BY <2>1, <2>4, <2>5, <2>6, FreshCopy
    <3> QED BY <2>5, <2>6, <3>1 DEF IInv, OpenPositionsWatched
  <2>10. StagesDisjoint'
    BY <2>2, <2>5, <2>6 DEF IInv, StagesDisjoint
  <2>11. ExecutionData'
    BY <1>3, <2>2, <2>4, <2>5, <2>6 DEF IInv, ExecutionData
  <2>12. ValuesKnown'
    <3>1. open_cache[u].symbol = open_positions[u].symbol
      <4>1. open_cache[u] = [open_positions[u] EXCEPT !.size = open_cache[u].size]
        BY <1>3 DEF IInv, OpenPositionsWatched
      <4> DEFINE p == open_positions[u]
                 n == open_cache[u].size
      <4>2. p \in Positions /\ open_cache[u] = [p EXCEPT !.size = n]
        BY <2>3, <4>1
      <4> HIDE DEF p, n
      <4>3. [p EXCEPT !.size = n].symbol = p.symbol
        BY <4>2 DEF Positions
      <4> QED BY <4>2, <4>3 DEF p
    <3> QED BY <2>1, <2>2, <2>4, <2>6, <3>1 DEF IInv, ValuesKnown, HasBaseRate
  <2> QED BY <2>7, <2>8, <2>9, <2>10, <2>11, <2>12 DEF IInv
<1> QED BY <1>1, <1>2, <1>3

(***************************************************************************)
(* LimitClose is modify_position with the stop the position has.           *)
(***************************************************************************)
LEMMA LimitCloseInv ==
    ASSUME IInv, NEW acct \in AccountIds, NEW u \in Uuids, NEW exit_price \in Prices,
           LimitClose(acct, u, exit_price)
    PROVE  IInv'
<1> DEFINE stop == IF u \in DOMAIN open_positions THEN open_positions[u].stop ELSE None
<1>1. u \in DOMAIN open_positions => stop \in Optional
  BY LookupType DEF IInv, TypeOK, Positions
<1>2. exit_price \in Optional
  BY InputAssumption DEF Optional
<1>3. SetExits(acct, u, stop, exit_price)
  BY DEF LimitClose
<1> HIDE DEF stop
<1> QED BY <1>1, <1>2, <1>3, SetExitsInv

-----------------------------------------------------------------------------
(* Price updates *)

(***************************************************************************)
(* Setting a price, by hand or by a tick, disturbs no position.            *)
(***************************************************************************)
LEMMA PriceSetInv ==
    ASSUME IInv, NEW s \in Symbols, NEW quote \in Ticks,
           OneshotPriceSet(s, quote) \/ NewTick(s, quote)
    PROVE  IInv'
<1>1. /\ price' = [price EXCEPT ![s] = quote]
      /\ reply' = None
      /\ notes' = <<>>
      /\ ticking' \in {ticking, s}
      /\ UNCHANGED <<ledger, cache, issued, panic>>
  BY DEF OneshotPriceSet, NewTick
<1>2. price' \in [Symbols -> Quotes]
  BY <1>1, InputAssumption DEF IInv, TypeOK
<1>3. \A i \in DOMAIN notes' : notes'[i].kind \in NoteKinds
  BY <1>1
<1>4. TypeOK'
  BY <1>1, <1>2, <1>3 DEF IInv, TypeOK, ledger, cache
<1> QED
  BY <1>1, <1>4
  DEF IInv, PendingCacheCoherent, OpenPositionsWatched, StagesDisjoint, ExecutionData,
      ValuesKnown, HasBaseRate, CachePanicsUnreachable, ledger, cache

(***************************************************************************)
(* First loop of tick_positions: a cached order is in the ledger, so the   *)
(* unwrap is safe; it leaves the pending stage and is watched at once.     *)
(***************************************************************************)
LEMMA OpenPendingInv ==
    ASSUME IInv, NEW u \in Uuids, OpenPending(u)
    PROVE  IInv'
<1> DEFINE at == IsOpenSatisfied(pending_cache[u], price[ticking])
           pos == [pending_positions[u] EXCEPT !.execution_price = at]
<1>1. u \in DOMAIN pending_positions /\ ticking \in Symbols /\ at # None
  BY DEF OpenPending, FillOrder, TakePending, Executed, LedgerOpenPosition, Fillable, IInv,
         PendingCacheCoherent, TypeOK
<1>2. /\ pending_positions' = Remove(pending_positions, u)
      /\ open_positions' = Put(open_positions, u, pos)
      /\ pending_cache' = Remove(pending_cache, u)
      /\ open_cache' = Put(open_cache, u, pos)
      /\ notes' = <<Message("PositionOpened", u, pos)>>
      /\ UNCHANGED <<price, buying_power, closed_positions, issued, ticking, reply, panic>>
  BY <1>1 DEF OpenPending, FillOrder, TakePending, Executed, LedgerOpenPosition
<1>3. pending_positions[u] \in Positions
  BY <1>1, LookupType DEF IInv, TypeOK
<1>4. at \in Optional
  <2>1. pending_cache[u] = pending_positions[u]
    BY DEF IInv, PendingCacheCoherent
  <2>2. price[ticking] \in Quotes
    BY <1>1 DEF IInv, TypeOK
  <2> QED BY <1>3, <2>1, <2>2, OpenPriceType
<1> HIDE DEF at
<1>5. pos \in Positions /\ pos.execution_price # None
      /\ pos.symbol = pending_positions[u].symbol
  BY <1>1, <1>3, <1>4 DEF Positions
<1> HIDE DEF pos
<1>6. u \notin DOMAIN open_cache /\ u \notin DOMAIN open_positions
      /\ u \notin DOMAIN closed_positions /\ u \in issued
  BY <1>1 DEF IInv, StagesDisjoint
<1>7. /\ DOMAIN pending_positions' = DOMAIN pending_positions \ {u}
      /\ \A k \in DOMAIN pending_positions' : pending_positions'[k] = pending_positions[k]
  BY <1>2 DEF Remove, Restrict
<1>8. /\ DOMAIN open_positions' = DOMAIN open_positions \cup {u}
      /\ open_positions'[u] = pos
      /\ \A k \in DOMAIN open_positions : open_positions'[k] = open_positions[k]
  BY <1>2, <1>6 DEF Put
<1>9. /\ DOMAIN open_cache' = DOMAIN open_cache \cup {u}
      /\ open_cache'[u] = pos
      /\ \A k \in DOMAIN open_cache : open_cache'[k] = open_cache[k]
  BY <1>2, <1>6 DEF Put
<1>10. TypeOK'
  <2>1. IsPositionMap(pending_positions') /\ IsPositionMap(pending_cache')
    BY <1>2, RemoveType DEF IInv, TypeOK
  <2>2. IsPositionMap(open_positions') /\ IsPositionMap(open_cache')
    BY <1>2, <1>5, PutType DEF IInv, TypeOK
  <2>3. \A i \in DOMAIN notes' : notes'[i].kind \in NoteKinds
    BY <1>2 DEF Message, NoteKinds
  <2> QED BY <1>2, <2>1, <2>2, <2>3 DEF IInv, TypeOK
<1>11. PendingCacheCoherent' /\ CachePanicsUnreachable'
  BY <1>2 DEF IInv, PendingCacheCoherent, CachePanicsUnreachable
<1>12. OpenPositionsWatched'
  <2>1. /\ u \in DOMAIN open_cache'
        /\ open_cache'[u] = [open_positions'[u] EXCEPT !.size = open_cache'[u].size]
        /\ open_cache'[u].size >= open_positions'[u].size
    BY <1>5, <1>8, <1>9, FreshCopy
  <2> QED BY <1>8, <1>9, <2>1 DEF IInv, OpenPositionsWatched
<1>13. StagesDisjoint'
  BY <1>2, <1>6, <1>7, <1>8, <1>9 DEF IInv, StagesDisjoint
<1>14. ExecutionData'
  BY <1>2, <1>5, <1>7, <1>8, <1>9 DEF IInv, ExecutionData
<1>15. ValuesKnown'
  BY <1>1, <1>5, <1>7, <1>9 DEF IInv, ValuesKnown, HasBaseRate
<1> QED BY <1>10, <1>11, <1>12, <1>13, <1>14, <1>15 DEF IInv

(***************************************************************************)
(* Second loop of tick_positions: the position leaves ledger and watch     *)
(* together and its value, which is known, is credited.  The assert may    *)
(* fail, for a position the ledger lost.                                   *)
(***************************************************************************)
LEMMA CloseOpenInv ==
    ASSUME IInv, NEW u \in Uuids, CloseOpen(u)
    PROVE  IInv'
<1>1. u \in DOMAIN open_cache
  BY DEF CloseOpen, ClosePosition, LedgerClosePosition, Closable
<1>2. HasBaseRate(open_cache[u].symbol)
  BY <1>1 DEF IInv, ValuesKnown
<1>3. CASE u \notin DOMAIN open_positions
  BY <1>2, <1>3, CrashInv DEF CloseOpen, ClosePosition, LedgerClosePosition, Panics, CachePanics
<1>4. CASE u \in DOMAIN open_positions
  <2>1. /\ open_positions' = Remove(open_positions, u)
        /\ closed_positions' = Put(closed_positions, u, open_positions[u])
        /\ buying_power' = buying_power + PositionValue(open_cache[u])
        /\ open_cache' = Remove(open_cache, u)
        /\ notes' = <<LedgerBalanceChange(buying_power'),
                      Message("PositionClosed", u, open_positions[u])>>
        /\ UNCHANGED <<price, pending_positions, pending_cache, issued, ticking, reply, panic>>
    BY <1>2, <1>4 DEF CloseOpen, ClosePosition, LedgerClosePosition
  <2>2. open_cache[u] \in Positions /\ open_positions[u] \in Positions
    BY <1>1, <1>4, LookupType DEF IInv, TypeOK
  <2>3. PositionValue(open_cache[u]) \in Nat
    BY <1>2, <2>2, ValueType DEF IInv, TypeOK
  <2>4. u \notin DOMAIN pending_positions /\ u \notin DOMAIN closed_positions /\ u \in issued
    BY <1>1, <1>4 DEF IInv, StagesDisjoint
  <2>5. /\ DOMAIN open_positions' = DOMAIN open_positions \ {u}
        /\ \A k \in DOMAIN open_positions' : open_positions'[k] = open_positions[k]
    BY <2>1 DEF Remove, Restrict
  <2>6. /\ DOMAIN open_cache' = DOMAIN open_cache \ {u}
        /\ \A k \in DOMAIN open_cache' : open_cache'[k] = open_cache[k]
    BY <2>1 DEF Remove, Restrict
  <2>7. /\ DOMAIN closed_positions' = DOMAIN closed_positions \cup {u}
        /\ closed_positions'[u] = open_positions[u]
        /\ \A k \in DOMAIN closed_positions : closed_positions'[k] = closed_positions[k]
    BY <2>1, <2>4 DEF Put
  <2>8. TypeOK'
    <3>1. IsPositionMap(open_positions') /\ IsPositionMap(open_cache')
      BY <2>1, RemoveType DEF IInv, TypeOK
    <3>2. IsPositionMap(closed_positions')
      BY <2>1, <2>2, PutType DEF IInv, TypeOK
    <3>3. \A i \in DOMAIN notes' : notes'[i].kind \in NoteKinds
      BY <2>1 DEF Message, LedgerBalanceChange, NoteKinds
    <3>4. buying_power' \in Nat
      BY <2>1, <2>3 DEF IInv, TypeOK
    <3> QED BY <2>1, <3>1, <3>2, <3>3, <3>4 DEF IInv, TypeOK
  <2>9. PendingCacheCoherent' /\ CachePanicsUnreachable'
    BY <2>1 DEF IInv, PendingCacheCoherent, CachePanicsUnreachable
  <2>10. OpenPositionsWatched'
    BY <2>5, <2>6 DEF IInv, OpenPositionsWatched
  <2>11. StagesDisjoint'
    BY <2>1, <2>4, <2>5, <2>6, <2>7 DEF IInv, StagesDisjoint
  <2>12. ExecutionData'
    BY <1>4, <2>1, <2>5, <2>6, <2>7 DEF IInv, ExecutionData
  <2>13. ValuesKnown'
    BY <2>1, <2>6 DEF IInv, ValuesKnown, HasBaseRate
  <2> QED BY <2>8, <2>9, <2>10, <2>11, <2>12, <2>13 DEF IInv
<1> QED BY <1>3, <1>4

(***************************************************************************)
(* The end of a price update.                                              *)
(***************************************************************************)
LEMMA TickDoneInv ==
    ASSUME IInv, TickDone
    PROVE  IInv'
<1>1. \A i \in DOMAIN notes' : notes'[i].kind \in NoteKinds
  BY DEF TickDone, EndTick
<1> QED
  BY <1>1
  DEF TickDone, EndTick, IInv, TypeOK, PendingCacheCoherent, OpenPositionsWatched, StagesDisjoint,
      ExecutionData, ValuesKnown, HasBaseRate, CachePanicsUnreachable, ledger, cache

-----------------------------------------------------------------------------
(* The invariant *)

(***************************************************************************)
(* Every request of a client keeps the books coherent.                     *)
(***************************************************************************)
LEMMA ExecActionInv ==
    ASSUME IInv, ExecAction
    PROVE  IInv'
<1>1. ASSUME NEW acct \in AccountIds, NEW s \in Symbols, NEW long \in BOOLEAN,
             NEW size \in Sizes, NEW stop \in Stops, NEW tp \in TakeProfits,
             MarketOrder(acct, s, long, size, stop, tp)
      PROVE  IInv'
  BY <1>1, MarketOpenInv DEF MarketOrder
<1>2. ASSUME NEW acct \in AccountIds, NEW s \in Symbols, NEW long \in BOOLEAN,
             NEW size \in Sizes, NEW stop \in Stops, NEW tp \in TakeProfits,
             NEW limit_price \in Prices, LimitOrder(acct, s, long, size, stop, tp, limit_price)
      PROVE  IInv'
  BY <1>2, LimitOrderInv
<1>3. ASSUME NEW acct \in AccountIds, NEW u \in Uuids, NEW size \in Sizes,
             MarketClose(acct, u, size)
      PROVE  IInv'
  BY <1>3, MarketCloseInv
<1>4. ASSUME NEW acct \in AccountIds, NEW u \in Uuids, NEW size \in Sizes,
             NEW entry_price \in Prices, NEW stop \in Stops, NEW tp \in TakeProfits,
             ModifyOrder(acct, u, size, entry_price, stop, tp)
      PROVE  IInv'
  BY <1>4, ModifyOrderInv
<1>5. ASSUME NEW acct \in AccountIds, NEW u \in Uuids, NEW stop \in Stops,
             NEW tp \in TakeProfits, ModifyPosition(acct, u, stop, tp)
      PROVE  IInv'
  <2>1. stop \in Optional /\ tp \in Optional
    BY InputAssumption
  <2>2. SetExits(acct, u, stop, tp)
    BY <1>5 DEF ModifyPosition
  <2> QED BY <2>1, <2>2, SetExitsInv
<1>6. ASSUME NEW acct \in AccountIds, NEW u \in Uuids, NEW exit_price \in Prices,
             LimitClose(acct, u, exit_price)
      PROVE  IInv'
  BY <1>6, LimitCloseInv
<1>7. ASSUME NEW acct \in AccountIds, NEW u \in Uuids, CancelOrder(acct, u)
      PROVE  IInv'
  BY <1>7, CancelOrderInv
<1>8. CASE OrderUnknownSymbol
  BY <1>8, RejectInv DEF OrderUnknownSymbol
<1>9. CASE Ping
  <2>1. Pong.kind \in ReplyKinds
    BY DEF Pong, ReplyKinds
  <2> QED BY <1>9, <2>1, AnswerInv DEF Ping
<1>10. CASE ListAccounts
  <2>1. AccountListing.kind \in ReplyKinds
    BY DEF AccountListing, ReplyKinds
  <2> QED BY <1>10, <2>1, AnswerInv DEF ListAccounts
<1>11. CASE Disconnect
  BY <1>11, CrashInv DEF Disconnect, Panics, CachePanics
<1>12. ASSUME NEW acct \in AccountIds, GetLedger(acct)
       PROVE  IInv'
  <2>1. LedgerSnapshot.kind \in ReplyKinds
    BY DEF LedgerSnapshot, ReplyKinds
  <2> QED BY <1>12, <2>1, AnswerInv, RejectInv DEF GetLedger
<1> QED
  BY <1>1, <1>2, <1>3, <1>4, <1>5, <1>6, <1>7, <1>8, <1>9, <1>10, <1>11, <1>12 DEF ExecAction

(***************************************************************************)
(* Every step of the broker keeps the books coherent.                      *)
(***************************************************************************)
LEMMA NextInv ==
    ASSUME IInv, [Next]_vars
    PROVE  IInv'
<1>1. CASE UNCHANGED vars
  BY <1>1
  DEF vars, ledger, cache, IInv, TypeOK, PendingCacheCoherent, OpenPositionsWatched,
      StagesDisjoint, ExecutionData, ValuesKnown, HasBaseRate, CachePanicsUnreachable
<1>2. CASE ExecAction
  BY <1>2, ExecActionInv
<1>3. ASSUME NEW s \in Symbols, NEW quote \in Ticks,
             OneshotPriceSet(s, quote) \/ NewTick(s, quote)
      PROVE  IInv'
  BY <1>3, PriceSetInv
<1>4. CASE TickPositions
  BY <1>4, TickDoneInv, OpenPendingInv, CloseOpenInv DEF TickPositions
<1> QED BY <1>1, <1>2, <1>3, <1>4 DEF Next

(***************************************************************************)
(* SimBroker::new starts with empty, hence coherent, books.                *)
(***************************************************************************)
LEMMA InitInv ==
    ASSUME Init
    PROVE  IInv
<1>1. IsPositionMap(EmptyMap) /\ DOMAIN EmptyMap = {}
  BY DEF IsPositionMap, EmptyMap
<1>2. price \in [Symbols -> Quotes]
  BY InputAssumption DEF Init, ZeroQuote, Quotes
<1>3. TypeOK
  BY <1>1, <1>2, InputAssumption DEF Init, TypeOK, Panics
<1> QED
  BY <1>1, <1>3
  DEF Init, IInv, PendingCacheCoherent, OpenPositionsWatched, StagesDisjoint,
      ExecutionData, ValuesKnown, CachePanicsUnreachable, CachePanics

(***************************************************************************)
(* The books are coherent in every state of every simulation.              *)
(***************************************************************************)
THEOREM BooksCoherent == Spec => []IInv
<1>1. Init => IInv
  BY InitInv
<1>2. IInv /\ [Next]_vars => IInv'
  BY NextInv
<1> QED BY <1>1, <1>2, PTL DEF Spec

(***************************************************************************)
(* Every part of the state keeps its type; in particular the balance, a    *)
(* usize, never goes below zero.                                           *)
(***************************************************************************)
THEOREM TypeCorrect == Spec => []TypeOK
<1>1. IInv => TypeOK
  BY DEF IInv
<1> QED BY <1>1, BooksCoherent, PTL

(***************************************************************************)
(* What a tick fills is what the ledger holds as pending.                  *)
(***************************************************************************)
THEOREM PendingCoherent == Spec => []PendingCacheCoherent
<1>1. IInv => PendingCacheCoherent
  BY DEF IInv
<1> QED BY <1>1, BooksCoherent, PTL

(***************************************************************************)
(* No open position escapes its stop and take-profit.                      *)
(***************************************************************************)
THEOREM OpenWatched == Spec => []OpenPositionsWatched
<1>1. IInv => OpenPositionsWatched
  BY DEF IInv
<1> QED BY <1>1, BooksCoherent, PTL

(***************************************************************************)
(* An order is in one stage of its life at a time.                         *)
(***************************************************************************)
THEOREM OneStage == Spec => []StagesDisjoint
<1>1. IInv => StagesDisjoint
  BY DEF IInv
<1> QED BY <1>1, BooksCoherent, PTL

(***************************************************************************)
(* The panics of order_cancelled and of the unwrap and the expect in       *)
(* tick_positions are dead code.                                           *)
(***************************************************************************)
THEOREM CacheNeverPanics == Spec => []CachePanicsUnreachable
<1>1. IInv => CachePanicsUnreachable
  BY DEF IInv
<1> QED BY <1>1, BooksCoherent, PTL

-----------------------------------------------------------------------------
(* Orders move forward only *)

(***************************************************************************)
(* A step that leaves the three maps of the ledger alone moves no order.   *)
(***************************************************************************)
LEMMA StandStill ==
    ASSUME UNCHANGED <<pending_positions, open_positions, closed_positions>>
    PROVE  Forward
BY DEF Forward

(***************************************************************************)
(* Rejections, plain answers and panics move no order.                     *)
(***************************************************************************)
LEMMA NoMove ==
    ASSUME (\E res : Answer(res)) \/ (\E e : Reject(e)) \/ (\E cause : Crash(cause))
    PROVE  Forward
BY StandStill DEF Answer, Reject, Crash, ledger

(***************************************************************************)
(* A request of a client moves orders forward only: a new order or         *)
(* position has a uuid that was never issued.                              *)
(***************************************************************************)
LEMMA ExecActionForward ==
    ASSUME IInv, ExecAction
    PROVE  Forward
<1>1. ASSUME NEW acct \in AccountIds, NEW s \in Symbols, NEW long \in BOOLEAN,
             NEW size \in Sizes, NEW stop \in Stops, NEW tp \in TakeProfits,
             MarketOpen(acct, s, long, size, stop, tp)
      PROVE  Forward
  <2>1. \/ \E e : Reject(e)
        \/ \E cause : Crash(cause)
        \/ \E u \in Uuids : \E pos : /\ GenUuid(u)
                                     /\ open_positions' = Put(open_positions, u, pos)
                                     /\ UNCHANGED <<pending_positions, closed_positions>>
    BY <1>1 DEF MarketOpen, LedgerOpenPosition, PositionOpenedImmediate
  <2> QED BY <2>1, NoMove DEF GenUuid, Put, Forward
<1>2. ASSUME NEW acct \in AccountIds, NEW s \in Symbols, NEW long \in BOOLEAN,
             NEW size \in Sizes, NEW stop \in Stops, NEW tp \in TakeProfits,
             NEW limit_price \in Prices, LimitOrder(acct, s, long, size, stop, tp, limit_price)
      PROVE  Forward
  <2>1. \/ \E e : Reject(e)
        \/ \E cause : Crash(cause)
        \/ MarketOpen(acct, s, long, size, stop, tp)
        \/ \E u \in Uuids : \E pos : /\ GenUuid(u)
                                     /\ pending_positions' = Put(pending_positions, u, pos)
                                     /\ UNCHANGED <<open_positions, closed_positions>>
    BY <1>2 DEF LimitOrder, LedgerPlaceOrder, OrderPlaced
  <2> QED BY <1>1, <2>1, NoMove DEF GenUuid, Put, Forward
<1>3. ASSUME NEW acct \in AccountIds, NEW u \in Uuids, NEW size \in Sizes,
             MarketClose(acct, u, size)
      PROVE  Forward
  <2>1. \/ \E e : Reject(e)
        \/ \E cause : Crash(cause)
        \/ /\ \/ \E pos : open_positions' = Put(open_positions, u, pos)
              \/ open_positions' = Remove(open_positions, u)
           /\ u \in DOMAIN open_positions
           /\ UNCHANGED <<pending_positions, closed_positions>>
    BY <1>3 DEF MarketClose, LedgerResizePosition
  <2> QED BY <2>1, NoMove DEF Put, Remove, Restrict, Forward
<1>4. ASSUME NEW acct \in AccountIds, NEW u \in Uuids, NEW size \in Sizes,
             NEW entry_price \in Prices, NEW stop \in Stops, NEW tp \in TakeProfits,
             ModifyOrder(acct, u, size, entry_price, stop, tp)
      PROVE  Forward
  <2>1. \/ \E e : Reject(e)
        \/ \E cause : Crash(cause)
        \/ /\ \E pos : pending_positions' = Put(pending_positions, u, pos)
           /\ u \in DOMAIN pending_positions
           /\ UNCHANGED <<open_positions, closed_positions>>
    BY <1>4 DEF ModifyOrder, LedgerModifyOrder, OrderModified
  <2> QED BY <2>1, NoMove DEF Put, Forward
<1>5. ASSUME NEW acct, NEW u, NEW stop, NEW tp, SetExits(acct, u, stop, tp)
      PROVE  Forward
  <2>1. \/ \E e : Reject(e)
        \/ /\ \E pos : open_positions' = Put(open_positions, u, pos)
           /\ u \in DOMAIN open_positions
           /\ UNCHANGED <<pending_positions, closed_positions>>
    BY <1>5 DEF SetExits, LedgerModifyPosition, PositionModified
  <2> QED BY <2>1, NoMove DEF Put, Forward
<1>6. ASSUME NEW acct \in AccountIds, NEW u \in Uuids, CancelOrder(acct, u)
      PROVE  Forward
  <2>1. \/ \E e : Reject(e)
        \/ \E cause : Crash(cause)
        \/ /\ pending_positions' = Remove(pending_positions, u)
           /\ UNCHANGED <<open_positions, closed_positions>>
    BY <1>6 DEF CancelOrder, LedgerCancelOrder, OrderCancelled
  <2> QED BY <2>1, NoMove DEF Remove, Restrict, Forward
<1>7. CASE OrderUnknownSymbol \/ Ping \/ ListAccounts \/ Disconnect
           \/ \E acct \in AccountIds : GetLedger(acct)
  BY <1>7, NoMove DEF OrderUnknownSymbol, Ping, ListAccounts, Disconnect, GetLedger
<1> QED
  BY <1>1, <1>2, <1>3, <1>4, <1>5, <1>6, <1>7
  DEF ExecAction, MarketOrder, ModifyPosition, LimitClose

(***************************************************************************)
(* Every step moves orders forward only; a closed position is never closed *)
(* again, which is where the disjointness of the stages is needed.         *)
(***************************************************************************)
LEMMA ForwardStep ==
    ASSUME IInv, Next
    PROVE  Forward
<1>1. CASE ExecAction
  BY <1>1, ExecActionForward
<1>2. ASSUME NEW s \in Symbols, NEW quote \in Ticks,
             OneshotPriceSet(s, quote) \/ NewTick(s, quote)
      PROVE  Forward
  BY <1>2, StandStill DEF OneshotPriceSet, NewTick, ledger
<1>3. CASE TickDone
  BY <1>3, StandStill DEF TickDone, EndTick, ledger
<1>4. ASSUME NEW u \in Uuids, OpenPending(u)
      PROVE  Forward
  <2>1. \/ \E cause : Crash(cause)
        \/ /\ pending_positions' = Remove(pending_positions, u)
           /\ \E pos : open_positions' = Put(open_positions, u, pos)
           /\ u \in DOMAIN pending_positions
           /\ UNCHANGED closed_positions
    BY <1>4 DEF OpenPending, FillOrder, TakePending, Executed, LedgerOpenPosition
  <2> QED BY <2>1, NoMove DEF Put, Remove, Restrict, Forward
<1>5. ASSUME NEW u \in Uuids, CloseOpen(u)
      PROVE  Forward
  <2>1. \/ \E cause : Crash(cause)
        \/ /\ open_positions' = Remove(open_positions, u)
           /\ \E pos : closed_positions' = Put(closed_positions, u, pos)
           /\ u \in DOMAIN open_positions
           /\ UNCHANGED pending_positions
    BY <1>5 DEF CloseOpen, ClosePosition, LedgerClosePosition
  <2>2. u \notin DOMAIN closed_positions \/ \E cause : Crash(cause)
    BY <2>1 DEF IInv, StagesDisjoint
  <2> QED BY <2>1, <2>2, NoMove DEF Put, Remove, Restrict, Forward
<1> QED BY <1>1, <1>2, <1>3, <1>4, <1>5 DEF Next, TickPositions

(***************************************************************************)
(* In every simulation orders move forward only, and what is closed stays  *)
(* closed and unchanged.                                                   *)
(***************************************************************************)
THEOREM MovesForward == Spec => ForwardOnly
<1>1. IInv /\ [Next]_vars => [Forward]_vars
  BY ForwardStep
<1> QED BY <1>1, BooksCoherent, PTL DEF Spec, ForwardOnly
-----------------------------------------------------------------------------
(* No money from nothing *)

(***************************************************************************)
(* A position that enters a map brings its coins, and they are new when    *)
(* the map had no position of that uuid.                                   *)
(***************************************************************************)
LEMMA PutCoins ==
    ASSUME NEW map, IsFiniteSet(Coins(map)), NEW u, NEW pos, pos.size \in Nat
    PROVE  /\ IsFiniteSet(Coins(Put(map, u, pos)))
           /\ u \notin DOMAIN map => Units(Put(map, u, pos)) = Units(map) + pos.size
<1> DEFINE purse == {u} \X (1..pos.size)
           more == Put(map, u, pos)
<1>1. IsFiniteSet(purse) /\ Cardinality(purse) = pos.size
  <2> DEFINE coin == [n \in 1..pos.size |-> <<u, n>>]
  <2>1. coin \in Bijection(1..pos.size, purse)
    BY DEF Bijection, Injection, IsInjective, Surjection
  <2>2. ExistsBijection(1..pos.size, purse)
    BY <2>1 DEF ExistsBijection
  <2>3. IsFiniteSet(1..pos.size) /\ Cardinality(1..pos.size) = pos.size
    <3> DEFINE k == pos.size
    <3>1. 1 \in Int /\ k \in Int /\ k >= 0
      OBVIOUS
    <3> HIDE DEF k
    <3>2. IsFiniteSet(1..k) /\ Cardinality(1..k) = IF 1 > k THEN 0 ELSE k - 1 + 1
      BY <3>1, FS_Interval
    <3>3. Cardinality(1..k) = k
      BY <3>1, <3>2
    <3> QED BY <3>2, <3>3 DEF k
  <2> QED BY <2>2, <2>3, FS_Bijection
<1>2. /\ DOMAIN more = DOMAIN map \cup {u}
      /\ \A v \in DOMAIN more : more[v] = IF v = u THEN pos ELSE map[v]
  BY DEF Put
<1>3. Coins(more) \subseteq Coins(map) \cup purse
  BY <1>2 DEF Coins
<1>4. IsFiniteSet(Coins(map) \cup purse)
  BY <1>1, FS_Union
<1>5. ASSUME u \notin DOMAIN map
      PROVE  Units(more) = Units(map) + pos.size
  <2>1. Coins(more) = Coins(map) \cup purse
    <3>1. purse \subseteq Coins(more)
      BY <1>2 DEF Coins
    <3>2. Coins(map) \subseteq Coins(more)
      BY <1>2, <1>5 DEF Coins
    <3> QED BY <1>3, <3>1, <3>2
  <2>2. Coins(map) \cap purse = {}
    BY <1>5 DEF Coins
  <2>3. Cardinality(Coins(map) \cap purse) = 0
    BY <2>2, FS_EmptySet
  <2>4. Cardinality(Coins(map)) \in Nat
    BY FS_CardinalityType
  <2>5. Cardinality(Coins(map) \cup purse)
          = Cardinality(Coins(map)) + Cardinality(purse) - Cardinality(Coins(map) \cap purse)
    BY <1>1, FS_Union
  <2>6. Cardinality(Coins(more)) = Cardinality(Coins(map)) + pos.size
    <3> HIDE DEF purse, more
    <3> QED BY <1>1, <2>1, <2>3, <2>4, <2>5
  <2> QED BY <2>6 DEF Units
<1> QED BY <1>3, <1>4, <1>5, FS_Subset

(***************************************************************************)
(* A position that replaces one that is not smaller brings no coins.       *)
(***************************************************************************)
LEMMA ReplaceCoins ==
    ASSUME NEW map, IsPositionMap(map), IsFiniteSet(Coins(map)), NEW u \in DOMAIN map,
           NEW pos, pos.size \in Nat, pos.size <= map[u].size
    PROVE  Units(Put(map, u, pos)) <= Units(map)
<1>1. map[u].size \in Nat
  BY LookupType DEF Positions
<1>2. 1..pos.size \subseteq 1..map[u].size
  BY <1>1
<1>3. ASSUME NEW c \in Coins(Put(map, u, pos))
      PROVE  c \in Coins(map)
  <2>1. PICK v \in DOMAIN map : c \in {v} \X (1..Put(map, u, pos)[v].size)
    BY DEF Coins, Put
  <2>2. c \in {v} \X (1..map[v].size)
    BY <1>2, <2>1 DEF Put
  <2> QED BY <2>2 DEF Coins
<1>4. Coins(Put(map, u, pos)) \in SUBSET Coins(map)
  BY <1>3
<1> QED BY <1>4, FS_Subset DEF Units

(***************************************************************************)
(* A position that leaves a map takes its coins along.                     *)
(***************************************************************************)
LEMMA RemoveCoins ==
    ASSUME NEW map, IsPositionMap(map), IsFiniteSet(Coins(map)), NEW u \in DOMAIN map
    PROVE  /\ IsFiniteSet(Coins(Remove(map, u)))
           /\ Units(map) = Units(Remove(map, u)) + map[u].size
<1>1. Coins(Remove(map, u)) \subseteq Coins(map)
  BY DEF Coins, Remove, Restrict
<1>2. IsFiniteSet(Coins(Remove(map, u)))
  BY <1>1, FS_Subset
<1>3. map = Put(Remove(map, u), u, map[u]) /\ u \notin DOMAIN Remove(map, u)
  BY DEF IsPositionMap, Put, Remove, Restrict
<1>4. map[u].size \in Nat
  BY LookupType DEF Positions
<1> QED BY <1>2, <1>3, <1>4, PutCoins

\* There is a number of units reserved by orders, and of units in positions watched.
UnitsCounted == IsFiniteSet(Coins(pending_positions)) /\ IsFiniteSet(Coins(open_cache))

\* A new position is paid for: at the market, or reserved by an order.
Bought(u, pos) ==
    /\ u \notin DOMAIN open_cache /\ pos.size \in Nat
    /\ buying_power' = buying_power - pos.size
    /\ open_cache' = Put(open_cache, u, pos)
    /\ UNCHANGED pending_positions

Reserved(u, pos) ==
    /\ u \notin DOMAIN pending_positions /\ pos.size \in Nat
    /\ buying_power' = buying_power - pos.size
    /\ pending_positions' = Put(pending_positions, u, pos)
    /\ UNCHANGED open_cache

\* What was reserved is bought; what is watched is paid out.
Filled(u, pos) ==
    /\ u \in DOMAIN pending_positions \ DOMAIN open_cache
    /\ pos.size = pending_positions[u].size
    /\ pending_positions' = Remove(pending_positions, u)
    /\ open_cache' = Put(open_cache, u, pos)
    /\ UNCHANGED buying_power

PaidOut(u) ==
    /\ u \in DOMAIN open_cache
    /\ buying_power' = buying_power + open_cache[u].size
    /\ open_cache' = Remove(open_cache, u)
    /\ UNCHANGED pending_positions

\* An order or a position gets new terms, or an order is dropped.
OrderChanged(u, pos) ==
    /\ u \in DOMAIN pending_positions /\ pos.size \in Nat
    /\ pending_positions' = Put(pending_positions, u, pos)
    /\ UNCHANGED <<buying_power, open_cache>>

WatchChanged(u, pos) ==
    /\ u \in DOMAIN open_cache /\ pos.size \in Nat /\ pos.size <= open_cache[u].size
    /\ open_cache' = Put(open_cache, u, pos)
    /\ UNCHANGED <<buying_power, pending_positions>>

Dropped(u) ==
    /\ u \in DOMAIN pending_positions
    /\ pending_positions' = Remove(pending_positions, u)
    /\ UNCHANGED <<buying_power, open_cache>>

\* Nothing is paid out and no position moves.
Charged ==
    /\ buying_power' \in Nat /\ buying_power' <= buying_power
    /\ UNCHANGED <<pending_positions, open_cache>>

MoneyMoves ==
    \/ Charged
    \/ \E u, pos : \/ Bought(u, pos) \/ Reserved(u, pos) \/ Filled(u, pos)
                   \/ OrderChanged(u, pos) \/ WatchChanged(u, pos)
    \/ \E u : PaidOut(u) \/ Dropped(u)

(***************************************************************************)
(* Rejections, plain answers and panics move no money.                     *)
(***************************************************************************)
LEMMA NoMoney ==
    ASSUME IInv, (\E res : Answer(res)) \/ (\E e : Reject(e)) \/ (\E cause : Crash(cause))
    PROVE  Charged
BY DEF Answer, Reject, Crash, ledger, cache, Charged, IInv, TypeOK

(***************************************************************************)
(* What an order at the market costs is what its position is worth, and it *)
(* is watched under a uuid that was never used.                            *)
(***************************************************************************)
LEMMA MarketOpenMoney ==
    ASSUME IInv, FxSymbols = {}, NEW acct, NEW s \in Symbols, NEW long \in BOOLEAN,
           NEW size \in Nat, NEW stop, NEW tp, MarketOpen(acct, s, long, size, stop, tp)
    PROVE  MoneyMoves
<1> DEFINE cur_price == IF long THEN price[s].ask ELSE price[s].bid
           pos == [symbol |-> s, size |-> size, price |-> cur_price, long |-> long,
                   stop |-> stop, take_profit |-> tp, execution_price |-> cur_price]
<1>1. PositionValue(pos) = size
  BY DEF PositionValue
<1>2. \/ \E e : Reject(e)
      \/ \E cause : Crash(cause)
      \/ \E u \in Uuids : /\ GenUuid(u)
                          /\ buying_power' = buying_power - PositionValue(pos)
                          /\ open_cache' = Put(open_cache, u, pos)
                          /\ UNCHANGED pending_positions
  BY DEF MarketOpen, PositionOpenedImmediate
<1>3. ASSUME NEW u \in Uuids, GenUuid(u), buying_power' = buying_power - PositionValue(pos),
             open_cache' = Put(open_cache, u, pos), UNCHANGED pending_positions
      PROVE  Bought(u, pos)
  <2>1. u \notin DOMAIN open_cache
    BY <1>3 DEF GenUuid, IInv, StagesDisjoint
  <2> QED BY <1>1, <1>3, <2>1 DEF Bought
<1> QED BY <1>2, <1>3, NoMoney DEF MoneyMoves

(***************************************************************************)
(* An order that waits reserves what its position will be worth.           *)
(***************************************************************************)
LEMMA LimitOrderMoney ==
    ASSUME IInv, FxSymbols = {}, NEW acct, NEW s \in Symbols, NEW long \in BOOLEAN,
           NEW size \in Nat, NEW stop, NEW tp, NEW limit_price,
           LimitOrder(acct, s, long, size, stop, tp, limit_price)
    PROVE  MoneyMoves
<1> DEFINE order == [symbol |-> s, size |-> size, price |-> limit_price, long |-> long,
                     stop |-> stop, take_profit |-> tp, execution_price |-> None]
<1>1. PositionValue(order) = size
  BY DEF PositionValue
<1>2. \/ \E e : Reject(e)
      \/ \E cause : Crash(cause)
      \/ MarketOpen(acct, s, long, size, stop, tp)
      \/ \E u \in Uuids : /\ GenUuid(u)
                          /\ buying_power' = buying_power - PositionValue(order)
                          /\ pending_positions' = Put(pending_positions, u, order)
                          /\ UNCHANGED open_cache
  BY DEF LimitOrder, LedgerPlaceOrder, OrderPlaced
<1>3. ASSUME NEW u \in Uuids, GenUuid(u), buying_power' = buying_power - PositionValue(order),
             pending_positions' = Put(pending_positions, u, order), UNCHANGED open_cache
      PROVE  Reserved(u, order)
  <2>1. u \notin DOMAIN pending_positions
    BY <1>3 DEF GenUuid, IInv, StagesDisjoint
  <2> QED BY <1>1, <1>3, <2>1 DEF Reserved
<1> QED BY <1>2, <1>3, NoMoney, MarketOpenMoney DEF MoneyMoves

(***************************************************************************)
(* A market close charges the account and leaves the watched copy alone.   *)
(***************************************************************************)
LEMMA MarketCloseMoney ==
    ASSUME IInv, IInv', NEW acct, NEW u, NEW size \in Nat, MarketClose(acct, u, size)
    PROVE  Charged
<1>1. CASE (\E e : Reject(e)) \/ (\E cause : Crash(cause))
  BY <1>1, NoMoney
<1>2. CASE ~ ((\E e : Reject(e)) \/ (\E cause : Crash(cause)))
  <2> DEFINE pos  == open_positions[u]
             cost == (PositionValue(pos) \div pos.size) * size
  <2>1. /\ u \in DOMAIN open_positions /\ HasBaseRate(pos.symbol) /\ pos.size # 0
        /\ LedgerResizePosition(u, size, cost)
        /\ UNCHANGED <<pending_positions, cache>>
    BY <1>2 DEF MarketClose
  <2>2. pos \in Positions /\ pos.size \in Nat /\ price \in [Symbols -> Quotes]
    BY <2>1, LookupType DEF IInv, TypeOK, Positions
  <2>3. PositionValue(pos) \in Nat
    BY <2>1, <2>2, ValueType
  <2>4. cost \in Nat
    <3>1. \A v, n, m \in Nat : n # 0 => (v \div n) * m \in Nat
      <4>1. \A v, n \in Nat : n # 0 => v \div n \in Nat
        OBVIOUS
      <4>2. \A a, b \in Nat : a * b \in Nat
        OBVIOUS
      <4> QED BY <4>1, <4>2
    <3> QED BY <2>1, <2>2, <2>3, <3>1
  <2>5. buying_power' = buying_power - cost \/ buying_power' = buying_power
    BY <2>1 DEF LedgerResizePosition
  <2>6. buying_power \in Nat /\ buying_power' \in Nat
    BY DEF IInv, TypeOK
  <2>7. buying_power' <= buying_power
    <3> HIDE DEF cost
    <3> QED BY <2>4, <2>5, <2>6
  <2> QED BY <2>1, <2>6, <2>7 DEF Charged, cache
<1> QED BY <1>1, <1>2

(***************************************************************************)
(* New terms of an order, whatever its size, and new exits of a position,  *)
(* whose copy is not smaller, cost nothing.                                *)
(***************************************************************************)
LEMMA TermsMoney ==
    ASSUME IInv, NEW acct, NEW u, NEW size \in Nat, NEW entry_price, NEW stop, NEW tp,
           ModifyOrder(acct, u, size, entry_price, stop, tp) \/ SetExits(acct, u, stop, tp)
    PROVE  MoneyMoves
<1> DEFINE order == [pending_positions[u] EXCEPT !.size = size, !.price = entry_price,
                        !.stop = stop, !.take_profit = tp]
           pos == [open_positions[u] EXCEPT !.stop = stop, !.take_profit = tp]
<1>1. CASE (\E e : Reject(e)) \/ (\E cause : Crash(cause))
  BY <1>1, NoMoney DEF MoneyMoves
<1>2. CASE /\ ~ ((\E e : Reject(e)) \/ (\E cause : Crash(cause)))
           /\ ModifyOrder(acct, u, size, entry_price, stop, tp)
  <2>1. /\ u \in DOMAIN pending_positions
        /\ pending_positions' = Put(pending_positions, u, order)
        /\ UNCHANGED <<buying_power, open_cache>>
    BY <1>2 DEF ModifyOrder, LedgerModifyOrder
  <2>2. pending_positions[u] \in Positions
    BY <2>1, LookupType DEF IInv, TypeOK
  <2>3. order.size = size
    BY <2>2 DEF Positions
  <2> QED BY <2>1, <2>3 DEF OrderChanged, MoneyMoves
<1>3. CASE /\ ~ ((\E e : Reject(e)) \/ (\E cause : Crash(cause)))
           /\ SetExits(acct, u, stop, tp)
  <2>1. /\ u \in DOMAIN open_positions
        /\ PositionModified(u, pos)
        /\ UNCHANGED <<buying_power, pending_positions>>
    BY <1>3 DEF SetExits
  <2>2. /\ u \in DOMAIN open_cache
        /\ open_cache[u].size >= open_positions[u].size
    BY <2>1 DEF IInv, OpenPositionsWatched
  <2>3. open_positions[u] \in Positions /\ open_cache[u] \in Positions
    BY <2>1, <2>2, LookupType DEF IInv, TypeOK
  <2>4. pos.size = open_positions[u].size /\ pos.size \in Nat /\ open_cache[u].size \in Nat
    BY <2>3 DEF Positions
  <2>5. open_cache' = Put(open_cache, u, pos)
    BY <2>1, <2>2 DEF PositionModified
  <2>6. WatchChanged(u, pos)
    <3> HIDE DEF pos
    <3> QED BY <2>1, <2>2, <2>4, <2>5 DEF WatchChanged
  <2> QED BY <2>6 DEF MoneyMoves
<1> QED BY <1>1, <1>2, <1>3

(***************************************************************************)
(* What every request of a client does with the money.                     *)
(***************************************************************************)
LEMMA ExecActionMoney ==
    ASSUME IInv, IInv', FxSymbols = {}, ExecAction
    PROVE  MoneyMoves
<1>1. ASSUME NEW acct \in AccountIds, NEW u \in Uuids, CancelOrder(acct, u)
      PROVE  MoneyMoves
  <2>1. \/ \E e : Reject(e)
        \/ \E cause : Crash(cause)
        \/ Dropped(u)
    BY <1>1 DEF CancelOrder, LedgerCancelOrder, Dropped
  <2> QED BY <2>1, NoMoney DEF MoneyMoves
<1>2. CASE OrderUnknownSymbol \/ Ping \/ ListAccounts \/ Disconnect
           \/ \E acct \in AccountIds : GetLedger(acct)
  BY <1>2, NoMoney
  DEF OrderUnknownSymbol, Ping, ListAccounts, Disconnect, GetLedger, MoneyMoves
<1>3. ASSUME NEW acct \in AccountIds, NEW s \in Symbols, NEW long \in BOOLEAN,
             NEW size \in Sizes, NEW stop \in Stops, NEW tp \in TakeProfits,
             \/ MarketOrder(acct, s, long, size, stop, tp)
             \/ \E limit_price \in Prices : LimitOrder(acct, s, long, size, stop, tp, limit_price)
      PROVE  MoneyMoves
  BY <1>3, InputAssumption, MarketOpenMoney, LimitOrderMoney DEF MarketOrder
<1>4. ASSUME NEW acct \in AccountIds, NEW u \in Uuids, NEW size \in Sizes,
             \/ MarketClose(acct, u, size)
             \/ \E entry_price \in Prices, stop \in Stops, tp \in TakeProfits :
                   ModifyOrder(acct, u, size, entry_price, stop, tp)
      PROVE  MoneyMoves
  BY <1>4, InputAssumption, MarketCloseMoney, TermsMoney DEF MoneyMoves
<1>5. ASSUME NEW acct \in AccountIds, NEW u \in Uuids,
             \/ \E stop \in Stops, tp \in TakeProfits : ModifyPosition(acct, u, stop, tp)
             \/ \E exit_price \in Prices : LimitClose(acct, u, exit_price)
      PROVE  MoneyMoves
  <2>1. \E stop, tp : SetExits(acct, u, stop, tp)
    BY <1>5 DEF ModifyPosition, LimitClose
  <2>2. 0 \in Nat
    OBVIOUS
  <2> QED BY <2>1, <2>2, TermsMoney
<1> QED BY <1>1, <1>2, <1>3, <1>4, <1>5 DEF ExecAction

(***************************************************************************)
(* What every step does with the money: a fill turns a reservation into a  *)
(* position, a closure pays out what was watched.                          *)
(***************************************************************************)
LEMMA StepMoney ==
    ASSUME IInv, IInv', FxSymbols = {}, [Next]_vars
    PROVE  MoneyMoves
<1>1. CASE UNCHANGED vars
  BY <1>1 DEF vars, ledger, cache, MoneyMoves, Charged, IInv, TypeOK
<1>2. CASE ExecAction
  BY <1>2, ExecActionMoney
<1>3. CASE TickDone \/ \E s \in Symbols, quote \in Ticks :
                          OneshotPriceSet(s, quote) \/ NewTick(s, quote)
  BY <1>3
  DEF TickDone, EndTick, OneshotPriceSet, NewTick, ledger, cache, MoneyMoves, Charged, IInv, TypeOK
<1>4. ASSUME NEW u \in Uuids, OpenPending(u)
      PROVE  MoneyMoves
  <2> DEFINE pos == Executed(pending_positions[u],
                             IsOpenSatisfied(pending_cache[u], price[ticking]))
  <2>1. CASE \E cause : Crash(cause)
    BY <2>1, NoMoney DEF MoneyMoves
  <2>2. CASE ~ \E cause : Crash(cause)
    <3>1. /\ u \in DOMAIN pending_positions
          /\ pending_positions' = Remove(pending_positions, u)
          /\ open_cache' = Put(open_cache, u, pos)
          /\ UNCHANGED buying_power
      BY <1>4, <2>2 DEF OpenPending, FillOrder, TakePending
    <3>2. u \notin DOMAIN open_cache
      BY <3>1 DEF IInv, StagesDisjoint
    <3>3. pending_positions[u] \in Positions
      BY <3>1, LookupType DEF IInv, TypeOK
    <3>4. pos.size = pending_positions[u].size
      BY <3>3 DEF Executed, Positions
    <3> QED BY <3>1, <3>2, <3>4 DEF Filled, MoneyMoves
  <2> QED BY <2>1, <2>2
<1>5. ASSUME NEW u \in Uuids, CloseOpen(u)
      PROVE  MoneyMoves
  <2>1. CASE \E cause : Crash(cause)
    BY <2>1, NoMoney DEF MoneyMoves
  <2>2. CASE ~ \E cause : Crash(cause)
    <3>1. /\ u \in DOMAIN open_cache
          /\ buying_power' = buying_power + PositionValue(open_cache[u])
          /\ open_cache' = Remove(open_cache, u)
          /\ UNCHANGED pending_positions
      BY <1>5, <2>2 DEF CloseOpen, ClosePosition, LedgerClosePosition, Closable
    <3>2. PositionValue(open_cache[u]) = open_cache[u].size
      BY DEF PositionValue
    <3> QED BY <3>1, <3>2 DEF PaidOut, MoneyMoves
  <2> QED BY <2>1, <2>2
<1> QED BY <1>1, <1>2, <1>3, <1>4, <1>5 DEF Next, TickPositions

-----------------------------------------------------------------------------

\* modify_order changed no size
SizesKept ==
    \A u \in DOMAIN pending_positions \cap DOMAIN pending_positions' :
        pending_positions'[u].size = pending_positions[u].size

(***************************************************************************)
(* However money moves, what is there can be counted, and there is not     *)
(* more of it than before.                                                 *)
(***************************************************************************)
LEMMA MoneyCounted ==
    ASSUME IInv, UnitsCounted, MoneyMoves
    PROVE  UnitsCounted' /\ (SizesKept => Equity' <= Equity)
<1>1. /\ IsPositionMap(pending_positions) /\ IsPositionMap(open_cache)
      /\ buying_power \in Nat
      /\ \A u \in DOMAIN pending_positions : pending_positions[u].size \in Nat
      /\ \A u \in DOMAIN open_cache : open_cache[u].size \in Nat
  BY LookupType DEF IInv, TypeOK, Positions
<1>2. Units(pending_positions) \in Nat /\ Units(open_cache) \in Nat
  BY FS_CardinalityType DEF UnitsCounted, Units
<1>3. /\ Coins(pending_positions)' = Coins(pending_positions')
      /\ Coins(open_cache)' = Coins(open_cache')
      /\ Units(pending_positions)' = Units(pending_positions')
      /\ Units(open_cache)' = Units(open_cache')
  BY DEF Units, Coins
<1>4. CASE Charged
  BY <1>1, <1>2, <1>3, <1>4 DEF Charged, UnitsCounted, Equity
<1>5. ASSUME NEW u, NEW pos, Bought(u, pos)
      PROVE  UnitsCounted' /\ Equity' <= Equity
  <2>1. /\ IsFiniteSet(Coins(open_cache'))
        /\ Units(open_cache') = Units(open_cache) + pos.size
    BY <1>5, PutCoins DEF Bought, UnitsCounted
  <2> QED BY <1>1, <1>2, <1>3, <1>5, <2>1 DEF Bought, UnitsCounted, Equity
<1>6. ASSUME NEW u, NEW pos, Reserved(u, pos)
      PROVE  UnitsCounted' /\ Equity' <= Equity
  <2>1. /\ IsFiniteSet(Coins(pending_positions'))
        /\ Units(pending_positions') = Units(pending_positions) + pos.size
    BY <1>6, PutCoins DEF Reserved, UnitsCounted
  <2> QED BY <1>1, <1>2, <1>3, <1>6, <2>1 DEF Reserved, UnitsCounted, Equity
<1>7. ASSUME NEW u, NEW pos, Filled(u, pos)
      PROVE  UnitsCounted' /\ Equity' <= Equity
  <2>1. /\ IsFiniteSet(Coins(pending_positions'))
        /\ Units(pending_positions) = Units(pending_positions') + pending_positions[u].size
    BY <1>1, <1>7, RemoveCoins DEF Filled, UnitsCounted
  <2>2. /\ IsFiniteSet(Coins(open_cache'))
        /\ Units(open_cache') = Units(open_cache) + pos.size
    BY <1>1, <1>7, PutCoins DEF Filled, UnitsCounted
  <2>3. Units(pending_positions') \in Nat
    BY <2>1, FS_CardinalityType DEF Units
  <2> QED BY <1>1, <1>2, <1>3, <1>7, <2>1, <2>2, <2>3 DEF Filled, UnitsCounted, Equity
<1>8. ASSUME NEW u, NEW pos, OrderChanged(u, pos)
      PROVE  UnitsCounted' /\ (SizesKept => Equity' <= Equity)
  <2>1. IsFiniteSet(Coins(pending_positions'))
    BY <1>8, PutCoins DEF OrderChanged, UnitsCounted
  <2>2. ASSUME SizesKept
        PROVE  Units(pending_positions') <= Units(pending_positions)
    <3>1. u \in DOMAIN pending_positions' /\ pending_positions'[u] = pos
      BY <1>8 DEF OrderChanged, Put
    <3>2. pos.size = pending_positions[u].size
      BY <1>8, <2>2, <3>1 DEF OrderChanged, SizesKept
    <3>3. pos.size <= pending_positions[u].size
      BY <1>1, <1>8, <3>2 DEF OrderChanged
    <3> QED BY <1>1, <1>8, <3>3, ReplaceCoins DEF OrderChanged, UnitsCounted
  <2>3. Units(pending_positions') \in Nat
    BY <2>1, FS_CardinalityType DEF Units
  <2> QED BY <1>1, <1>2, <1>3, <1>8, <2>1, <2>2, <2>3 DEF OrderChanged, UnitsCounted, Equity
<1>9. ASSUME NEW u, NEW pos, WatchChanged(u, pos)
      PROVE  UnitsCounted' /\ Equity' <= Equity
  <2>1. IsFiniteSet(Coins(open_cache')) /\ Units(open_cache') <= Units(open_cache)
    BY <1>1, <1>9, PutCoins, ReplaceCoins DEF WatchChanged, UnitsCounted
  <2>2. Units(open_cache') \in Nat
    BY <2>1, FS_CardinalityType DEF Units
  <2> QED BY <1>1, <1>2, <1>3, <1>9, <2>1, <2>2 DEF WatchChanged, UnitsCounted, Equity
<1>10. ASSUME NEW u, PaidOut(u)
       PROVE  UnitsCounted' /\ Equity' <= Equity
  <2>1. /\ IsFiniteSet(Coins(open_cache'))
        /\ Units(open_cache) = Units(open_cache') + open_cache[u].size
    BY <1>1, <1>10, RemoveCoins DEF PaidOut, UnitsCounted
  <2>2. Units(open_cache') \in Nat
    BY <2>1, FS_CardinalityType DEF Units
  <2> QED BY <1>1, <1>2, <1>3, <1>10, <2>1, <2>2 DEF PaidOut, UnitsCounted, Equity
<1>11. ASSUME NEW u, Dropped(u)
       PROVE  UnitsCounted' /\ Equity' <= Equity
  <2>1. /\ IsFiniteSet(Coins(pending_positions'))
        /\ Units(pending_positions) = Units(pending_positions') + pending_positions[u].size
    BY <1>1, <1>11, RemoveCoins DEF Dropped, UnitsCounted
  <2>2. Units(pending_positions') \in Nat
    BY <2>1, FS_CardinalityType DEF Units
  <2> QED BY <1>1, <1>2, <1>3, <1>11, <2>1, <2>2 DEF Dropped, UnitsCounted, Equity
<1> QED
  BY <1>4, <1>5, <1>6, <1>7, <1>8, <1>9, <1>10, <1>11 DEF MoneyMoves

(***************************************************************************)
(* Where every symbol is valued at its size, no step of a simulation makes *)
(* money, unless modify_order makes an order larger than it was paid for.  *)
(***************************************************************************)
THEOREM MoneyIsNotMade == ASSUME FxSymbols = {} PROVE Spec => NoMoneyFromNothing
<1>1. Init => UnitsCounted
  <2>1. Coins(EmptyMap) = {}
    BY DEF Coins, EmptyMap
  <2> QED BY <2>1, FS_EmptySet DEF Init, UnitsCounted
<1>2. IInv /\ IInv' /\ UnitsCounted /\ [Next]_vars => UnitsCounted'
  BY StepMoney, MoneyCounted
<1>3. IInv /\ IInv' /\ UnitsCounted /\ [Next]_vars => [SizesKept => Equity' <= Equity]_vars
  BY StepMoney, MoneyCounted
<1>4. Spec => [][SizesKept => Equity' <= Equity]_vars
  BY <1>1, <1>2, <1>3, BooksCoherent, PTL DEF Spec
<1> QED BY <1>4 DEF NoMoneyFromNothing, SizesKept
-----------------------------------------------------------------------------
(* The loops of tick_positions *)

(***************************************************************************)
(* Vec::push puts the entry at the end; nothing else moves.                *)
(***************************************************************************)
LEMMA PushVec ==
    ASSUME NEW vec \in Seq(Uuids), NEW u \in Uuids
    PROVE  LET longer == Append(vec, u)
           IN  /\ longer \in Seq(Uuids) /\ Len(longer) = Len(vec) + 1
               /\ \A k \in 1..Len(vec) : longer[k] = vec[k]
               /\ Held(longer) = Held(vec) \cup {u}
               /\ EachOnce(vec) /\ u \notin Held(vec) => EachOnce(longer)
<1> DEFINE longer == Append(vec, u)
<1>1. /\ longer \in Seq(Uuids) /\ Len(vec) \in Nat /\ Len(longer) = Len(vec) + 1
      /\ DOMAIN vec = 1..Len(vec) /\ DOMAIN longer = 1..(Len(vec) + 1)
      /\ \A k \in 1..Len(vec) : longer[k] = vec[k]
      /\ longer[Len(vec) + 1] = u
  OBVIOUS
<1> HIDE DEF longer
<1>2. Held(longer) = Held(vec) \cup {u}
  <2>1. ASSUME NEW k \in DOMAIN longer PROVE longer[k] \in Held(vec) \cup {u}
    BY <1>1 DEF Held
  <2>2. ASSUME NEW k \in DOMAIN vec PROVE vec[k] \in Held(longer)
    <3>1. k \in DOMAIN longer /\ longer[k] = vec[k]
      BY <1>1
    <3> QED BY <3>1 DEF Held
  <2>3. u \in Held(longer)
    <3>1. Len(vec) + 1 \in DOMAIN longer
      BY <1>1
    <3> QED BY <1>1, <3>1 DEF Held
  <2> QED BY <2>1, <2>2, <2>3 DEF Held
<1>3. ASSUME EachOnce(vec), u \notin Held(vec),
             NEW j \in DOMAIN longer, NEW k \in DOMAIN longer, longer[j] = longer[k]
      PROVE  j = k
  BY <1>1, <1>3 DEF Held, EachOnce
<1> QED BY <1>1, <1>2, <1>3 DEF longer, EachOnce

(***************************************************************************)
(* Vec::remove of the k-th takes that entry out and moves up what is       *)
(* behind it: the entries before it stay where they are.                   *)
(***************************************************************************)
LEMMA CutVec ==
    ASSUME NEW vec \in Seq(Uuids), NEW k \in DOMAIN vec, EachOnce(vec)
    PROVE  LET shorter == CutOut(vec, k)
           IN  /\ shorter \in Seq(Uuids) /\ Len(shorter) = Len(vec) - 1
               /\ \A j \in 1..(k - 1) : shorter[j] = vec[j]
               /\ Held(shorter) = Held(vec) \ {vec[k]}
               /\ EachOnce(shorter)
<1> DEFINE shorter == CutOut(vec, k)
           n == Len(vec)
<1>1. n \in Nat /\ DOMAIN vec = 1..n /\ k \in 1..n /\ n - 1 \in Nat
      /\ \A j \in 1..n : vec[j] \in Uuids
  OBVIOUS
<1>once. \A i, j \in DOMAIN vec : vec[i] = vec[j] => i = j
  BY DEF EachOnce
<1>2. /\ DOMAIN shorter = 1..(n - 1)
      /\ \A j \in 1..(n - 1) : shorter[j] = IF j < k THEN vec[j] ELSE vec[j + 1]
  BY DEF CutOut
<1>3. shorter \in Seq(Uuids) /\ Len(shorter) = n - 1
  <2>1. shorter \in [1..(n - 1) -> Uuids]
    BY <1>1 DEF CutOut
  <2> HIDE DEF shorter, n
  <2> QED BY <1>1, <2>1
<1> HIDE DEF shorter, n
<1>4. Held(shorter) = Held(vec) \ {vec[k]}
  <2>1. ASSUME NEW j \in DOMAIN shorter PROVE shorter[j] \in Held(vec) \ {vec[k]}
    <3>1. CASE j < k
      BY <1>once, <1>1, <1>2, <3>1 DEF Held
    <3>2. CASE ~(j < k)
      <4>1. j + 1 \in 1..n /\ j + 1 # k
        BY <1>1, <1>2, <3>2
      <4> QED BY <1>once, <1>1, <1>2, <3>2, <4>1 DEF Held
    <3> QED BY <3>1, <3>2
  <2>2. ASSUME NEW j \in DOMAIN vec, vec[j] # vec[k] PROVE vec[j] \in Held(shorter)
    <3>1. CASE j < k
      <4>1. j \in DOMAIN shorter /\ shorter[j] = vec[j]
        BY <1>1, <1>2, <3>1
      <4> QED BY <4>1 DEF Held
    <3>2. CASE ~(j < k)
      <4>1. j - 1 \in DOMAIN shorter /\ shorter[j - 1] = vec[j]
        <5>1. j - 1 \in 1..(n - 1) /\ ~(j - 1 < k) /\ (j - 1) + 1 = j
          BY <1>1, <2>2, <3>2
        <5> QED BY <1>2, <5>1
      <4> QED BY <4>1 DEF Held
    <3> QED BY <3>1, <3>2
  <2> QED BY <2>1, <2>2 DEF Held
<1>5. ASSUME NEW i \in DOMAIN shorter, NEW j \in DOMAIN shorter, shorter[i] = shorter[j]
      PROVE  i = j
  <2>1. /\ i \in 1..(n - 1) /\ j \in 1..(n - 1)
        /\ i + 1 \in 1..n /\ j + 1 \in 1..n /\ i \in 1..n /\ j \in 1..n
    BY <1>1, <1>2
  <2>2. (IF i < k THEN i ELSE i + 1) = (IF j < k THEN j ELSE j + 1)
    BY <1>once, <1>1, <1>2, <1>5, <2>1
  <2> QED BY <1>1, <2>1, <2>2
<1>6. \A j \in 1..(k - 1) : shorter[j] = vec[j]
  BY <1>1, <1>2
<1> QED BY <1>3, <1>4, <1>5, <1>6 DEF shorter, n, EachOnce

(***************************************************************************)
(* A request puts one position with a slot into a cache, takes one out of  *)
(* the pending cache, or neither, and no cached position changes symbol.   *)
(***************************************************************************)
SymbolsKept ==
    /\ \A u \in DOMAIN pending_cache \cap DOMAIN pending_cache' :
          pending_cache'[u].symbol = pending_cache[u].symbol
    /\ \A u \in DOMAIN open_cache \cap DOMAIN open_cache' :
          open_cache'[u].symbol = open_cache[u].symbol

CacheMoves ==
    /\ SymbolsKept
    /\ \/ SameCached
       \/ \E u \in Uuids \ DOMAIN pending_cache :
             /\ DOMAIN pending_cache' = DOMAIN pending_cache \cup {u}
             /\ pending_cache'[u].symbol \in Slots
             /\ open_cache' = open_cache
       \/ \E u \in DOMAIN pending_cache :
             /\ DOMAIN pending_cache' = DOMAIN pending_cache \ {u}
             /\ open_cache' = open_cache
       \/ \E u \in Uuids \ DOMAIN open_cache :
             /\ DOMAIN open_cache' = DOMAIN open_cache \cup {u}
             /\ open_cache'[u].symbol \in Slots
             /\ pending_cache' = pending_cache

(***************************************************************************)
(* A handler that leaves the cache alone moves nothing.                    *)
(***************************************************************************)
LEMMA CacheStill ==
    ASSUME UNCHANGED cache
    PROVE  CacheMoves
BY DEF cache, CacheMoves, SymbolsKept, SameCached

(***************************************************************************)
(* market_open pushes the new position to the Vec of its symbol.           *)
(***************************************************************************)
LEMMA MarketOpenMoves ==
    ASSUME IInv, NEW acct, NEW s \in Symbols, NEW long, NEW size, NEW stop, NEW tp,
           MarketOpen(acct, s, long, size, stop, tp)
    PROVE  CacheMoves
<1>1. CASE UNCHANGED cache
  BY <1>1, CacheStill
<1>2. CASE ~UNCHANGED cache
  <2> DEFINE cur_price == IF long THEN price[s].ask ELSE price[s].bid
             pos == [symbol |-> s, size |-> size, price |-> cur_price, long |-> long,
                stop |-> stop, take_profit |-> tp, execution_price |-> cur_price]
  <2>1. pos.symbol = s
    OBVIOUS
  <2>2. PICK u \in Uuids :
            /\ s \notin OneshotSymbols /\ GenUuid(u)
            /\ open_cache' = Put(open_cache, u, pos)
            /\ pending_cache' = pending_cache
    BY <1>2 DEF MarketOpen, PositionOpenedImmediate, Reject, Answer, Crash, cache
  <2> HIDE DEF pos
  <2>3. u \notin DOMAIN open_cache
    BY <2>2 DEF GenUuid, IInv, StagesDisjoint
  <2>4. /\ DOMAIN open_cache' = DOMAIN open_cache \cup {u} /\ open_cache'[u] = pos
        /\ \A k \in DOMAIN open_cache : open_cache'[k] = open_cache[k]
    BY <2>2, <2>3 DEF Put
  <2> QED BY <2>1, <2>2, <2>3, <2>4 DEF CacheMoves, SymbolsKept, Slots
<1> QED BY <1>1, <1>2

(***************************************************************************)
(* place_order pushes the order to the Vec of its symbol, or opens it.     *)
(***************************************************************************)
LEMMA LimitOrderMoves ==
    ASSUME IInv, NEW acct, NEW s \in Symbols, NEW long, NEW size, NEW stop, NEW tp,
           NEW limit_price, LimitOrder(acct, s, long, size, stop, tp, limit_price)
    PROVE  CacheMoves
<1>1. CASE UNCHANGED cache \/ MarketOpen(acct, s, long, size, stop, tp)
  BY <1>1, CacheStill, MarketOpenMoves
<1>2. CASE ~UNCHANGED cache /\ ~MarketOpen(acct, s, long, size, stop, tp)
  <2> DEFINE order == [symbol |-> s, size |-> size, price |-> limit_price, long |-> long,
                  stop |-> stop, take_profit |-> tp, execution_price |-> None]
  <2>1. order.symbol = s
    OBVIOUS
  <2>2. PICK u \in Uuids :
            /\ s \notin OneshotSymbols /\ GenUuid(u)
            /\ pending_cache' = Put(pending_cache, u, order)
            /\ open_cache' = open_cache
    BY <1>2 DEF LimitOrder, OrderPlaced, Reject, Answer, Crash, cache
  <2> HIDE DEF order
  <2>3. u \notin DOMAIN pending_cache
    BY <2>2 DEF GenUuid, IInv, StagesDisjoint, PendingCacheCoherent
  <2>4. /\ DOMAIN pending_cache' = DOMAIN pending_cache \cup {u} /\ pending_cache'[u] = order
        /\ \A k \in DOMAIN pending_cache : pending_cache'[k] = pending_cache[k]
    BY <2>2, <2>3 DEF Put
  <2> QED BY <2>1, <2>2, <2>3, <2>4 DEF CacheMoves, SymbolsKept, Slots
<1> QED BY <1>1, <1>2

(***************************************************************************)
(* New terms or new exits do not move an entry to another symbol.          *)
(***************************************************************************)
LEMMA TermsMove ==
    ASSUME IInv, NEW acct, NEW u,
           \/ \E size, entry_price, stop, tp : ModifyOrder(acct, u, size, entry_price, stop, tp)
           \/ \E stop, tp : SetExits(acct, u, stop, tp)
    PROVE  CacheMoves
<1>1. CASE UNCHANGED cache
  BY <1>1, CacheStill
<1>2. ASSUME NEW size, NEW entry_price, NEW stop, NEW tp,
             ModifyOrder(acct, u, size, entry_price, stop, tp), ~UNCHANGED cache
      PROVE  CacheMoves
  <2> DEFINE order == [pending_positions[u] EXCEPT !.size = size, !.price = entry_price,
                          !.stop = stop, !.take_profit = tp]
  <2>1. /\ u \in DOMAIN pending_positions
        /\ pending_cache' = Put(pending_cache, u, order) /\ open_cache' = open_cache
    BY <1>2 DEF ModifyOrder, OrderModified, Reject, Answer, Crash, cache, IInv,
                PendingCacheCoherent
  <2>2. pending_positions[u] = pending_cache[u] /\ pending_positions[u] \in Positions
    BY <2>1, LookupType DEF IInv, TypeOK, PendingCacheCoherent
  <2>3. order.symbol = pending_cache[u].symbol
    BY <2>2 DEF Positions
  <2> HIDE DEF order
  <2>4. u \in DOMAIN pending_cache
    BY <2>1 DEF IInv, PendingCacheCoherent
  <2>5. /\ DOMAIN pending_cache' = DOMAIN pending_cache /\ pending_cache'[u] = order
        /\ \A k \in DOMAIN pending_cache \ {u} : pending_cache'[k] = pending_cache[k]
    BY <2>1, <2>4 DEF Put
  <2> QED BY <2>1, <2>3, <2>5 DEF CacheMoves, SymbolsKept, SameCached
<1>3. ASSUME NEW stop, NEW tp, SetExits(acct, u, stop, tp), ~UNCHANGED cache
      PROVE  CacheMoves
  <2> DEFINE pos == [open_positions[u] EXCEPT !.stop = stop, !.take_profit = tp]
  <2>1. /\ u \in DOMAIN open_positions /\ u \in DOMAIN open_cache
        /\ open_cache' = Put(open_cache, u, pos) /\ pending_cache' = pending_cache
    BY <1>3 DEF SetExits, PositionModified, Reject, Answer, cache, IInv, OpenPositionsWatched
  <2>2. open_positions[u] \in Positions
    BY <2>1, LookupType DEF IInv, TypeOK
  <2>3. open_cache[u].symbol = open_positions[u].symbol
    BY <2>1, <2>2 DEF IInv, OpenPositionsWatched, Positions
  <2>4. pos.symbol = open_cache[u].symbol
    BY <2>2, <2>3 DEF Positions
  <2> HIDE DEF pos
  <2>5. /\ DOMAIN open_cache' = DOMAIN open_cache /\ open_cache'[u] = pos
        /\ \A k \in DOMAIN open_cache \ {u} : open_cache'[k] = open_cache[k]
    BY <2>1 DEF Put
  <2> QED BY <2>1, <2>4, <2>5 DEF CacheMoves, SymbolsKept, SameCached
<1> QED BY <1>1, <1>2, <1>3

(***************************************************************************)
(* cancel_order takes the order out.                                       *)
(***************************************************************************)
LEMMA CancelOrderMoves ==
    ASSUME IInv, NEW acct, NEW u, CancelOrder(acct, u)
    PROVE  CacheMoves
<1>1. CASE UNCHANGED cache
  BY <1>1, CacheStill
<1>2. CASE ~UNCHANGED cache
  <2>1. /\ u \in DOMAIN pending_cache /\ open_cache' = open_cache
        /\ pending_cache' = Remove(pending_cache, u)
    BY <1>2 DEF CancelOrder, OrderCancelled, Reject, Answer, Crash, cache
  <2>2. /\ DOMAIN pending_cache' = DOMAIN pending_cache \ {u}
        /\ \A k \in DOMAIN pending_cache' : pending_cache'[k] = pending_cache[k]
    BY <2>1 DEF Remove, Restrict
  <2> QED BY <2>1, <2>2 DEF CacheMoves, SymbolsKept
<1> QED BY <1>1, <1>2

(***************************************************************************)
(* Every request of a client: only between ticks, and one entry at most.   *)
(***************************************************************************)
LEMMA ExecMoves ==
    ASSUME IInv, ExecAction \/ \E s \in Symbols, quote \in Ticks : OneshotPriceSet(s, quote)
    PROVE  CacheMoves /\ Idle /\ ticking' = None
<1>1. Idle /\ ticking' = None
  <2>1. ASSUME NEW acct, NEW s, NEW long, NEW size, NEW stop, NEW tp,
               MarketOpen(acct, s, long, size, stop, tp)
        PROVE  ticking' = ticking
    BY <2>1 DEF MarketOpen, Reject, Answer, Crash
  <2>2. ASSUME NEW acct, NEW s, NEW long, NEW size, NEW stop, NEW tp, NEW limit_price,
               LimitOrder(acct, s, long, size, stop, tp, limit_price)
        PROVE  Idle /\ ticking' = ticking
    BY <2>1, <2>2 DEF LimitOrder, Reject, Answer, Crash
  <2>3. ASSUME NEW acct, NEW u, NEW size, MarketClose(acct, u, size)
        PROVE  Idle /\ ticking' = ticking
    BY <2>3 DEF MarketClose, Reject, Answer, Crash
  <2>4. ASSUME NEW acct, NEW u, NEW size, NEW entry_price, NEW stop, NEW tp,
               ModifyOrder(acct, u, size, entry_price, stop, tp)
        PROVE  Idle /\ ticking' = ticking
    BY <2>4 DEF ModifyOrder, Reject, Answer, Crash
  <2>5. ASSUME NEW acct, NEW u, NEW stop, NEW tp, SetExits(acct, u, stop, tp)
        PROVE  ticking' = ticking
    BY <2>5 DEF SetExits, Reject, Answer
  <2>6. ASSUME NEW acct, NEW u, CancelOrder(acct, u)
        PROVE  Idle /\ ticking' = ticking
    BY <2>6 DEF CancelOrder, Reject, Answer, Crash
  <2>7. ASSUME \/ OrderUnknownSymbol \/ Ping \/ ListAccounts \/ Disconnect
               \/ \E acct \in AccountIds : GetLedger(acct)
               \/ \E s \in Symbols, quote \in Ticks : OneshotPriceSet(s, quote)
        PROVE  Idle /\ ticking' = ticking
    BY <2>7 DEF OrderUnknownSymbol, Ping, ListAccounts, Disconnect, GetLedger,
                OneshotPriceSet, Reject, Answer, Crash
  <2> QED BY <2>1, <2>2, <2>3, <2>4, <2>5, <2>6, <2>7
             DEF ExecAction, MarketOrder, ModifyPosition, LimitClose, Idle
<1>2. ASSUME NEW acct \in AccountIds, NEW s \in Symbols, NEW long \in BOOLEAN,
             NEW size \in Sizes, NEW stop \in Stops, NEW tp \in TakeProfits,
             \/ MarketOrder(acct, s, long, size, stop, tp)
             \/ \E limit_price \in Prices :
                   LimitOrder(acct, s, long, size, stop, tp, limit_price)
      PROVE  CacheMoves
  BY <1>2, MarketOpenMoves, LimitOrderMoves DEF MarketOrder
<1>3. ASSUME NEW acct \in AccountIds, NEW u \in Uuids,
             \/ \E size \in Sizes, entry_price \in Prices, stop \in Stops, tp \in TakeProfits :
                   ModifyOrder(acct, u, size, entry_price, stop, tp)
             \/ \E stop \in Stops, tp \in TakeProfits : ModifyPosition(acct, u, stop, tp)
             \/ \E exit_price \in Prices : LimitClose(acct, u, exit_price)
             \/ CancelOrder(acct, u)
      PROVE  CacheMoves
  BY <1>3, TermsMove, CancelOrderMoves DEF ModifyPosition, LimitClose
<1>4. ASSUME \/ \E acct \in AccountIds, u \in Uuids, size \in Sizes : MarketClose(acct, u, size)
             \/ OrderUnknownSymbol \/ Ping \/ ListAccounts \/ Disconnect
             \/ \E acct \in AccountIds : GetLedger(acct)
             \/ \E s \in Symbols, quote \in Ticks : OneshotPriceSet(s, quote)
      PROVE  CacheMoves
  <2>1. UNCHANGED cache
    BY <1>4 DEF MarketClose, OrderUnknownSymbol, Ping, ListAccounts, Disconnect, GetLedger,
                OneshotPriceSet, Reject, Answer, Crash, cache
  <2> QED BY <2>1, CacheStill
<1> QED BY <1>1, <1>2, <1>3, <1>4 DEF ExecAction

\* the entries of a map that belong to a symbol
Of(map, s) == {u \in DOMAIN map : map[u].symbol = s}

(***************************************************************************)
(* A Vec stays that of its symbol when a new entry is pushed to it, when   *)
(* the entry that leaves the map is removed from it, and when nothing of   *)
(* its symbol comes or goes.                                               *)
(***************************************************************************)
LEMMA VecFollows ==
    ASSUME NEW vec \in Seq(Uuids), NEW s, NEW map, NEW map2, VecOf(vec, s, map)
    PROVE  /\ \A u \in Uuids : Of(map2, s) = Of(map, s) \cup {u} /\ u \notin Of(map, s)
                 => VecOf(Append(vec, u), s, map2)
           /\ \A k \in DOMAIN vec : Of(map2, s) = Of(map, s) \ {vec[k]}
                 => VecOf(CutOut(vec, k), s, map2)
           /\ Of(map2, s) = Of(map, s) => VecOf(vec, s, map2)
<1>1. ASSUME NEW u \in Uuids, Of(map2, s) = Of(map, s) \cup {u}, u \notin Of(map, s)
      PROVE  VecOf(Append(vec, u), s, map2)
  BY <1>1, PushVec DEF VecOf, Of
<1>2. ASSUME NEW k \in DOMAIN vec, Of(map2, s) = Of(map, s) \ {vec[k]}
      PROVE  VecOf(CutOut(vec, k), s, map2)
  BY <1>2, CutVec DEF VecOf, Of
<1> QED BY <1>1, <1>2 DEF VecOf, Of

(***************************************************************************)
(* The handlers keep the Vecs those of their symbols.                      *)
(***************************************************************************)
LEMMA HandleScan ==
    ASSUME IInv, ScanInv, Handle
    PROVE  ScanInv'
<1>1. CacheMoves /\ ticking' = None /\ UNCHANGED <<scanning, index>>
  BY ExecMoves DEF Handle
<1> DEFINE Vecs == /\ pending_vec' \in [Slots -> Seq(Uuids)]
                   /\ open_vec' \in [Slots -> Seq(Uuids)]
                   /\ \A s \in Slots : /\ VecOf(pending_vec'[s], s, pending_cache')
                                       /\ VecOf(open_vec'[s], s, open_cache')
<1>2. CASE VecsStay
  <2>1. UNCHANGED <<pending_vec, open_vec>> /\ SameCached
    BY <1>2 DEF VecsStay
  <2>2. ASSUME NEW s \in Slots
        PROVE  Of(pending_cache', s) = Of(pending_cache, s) /\ Of(open_cache', s) = Of(open_cache, s)
    BY <1>1, <2>1 DEF CacheMoves, SymbolsKept, SameCached, Of
  <2>3. Vecs
    BY <2>1, <2>2, VecFollows DEF ScanInv
  <2> QED BY <1>1, <2>3 DEF ScanInv
<1>3. ASSUME NEW u \in Uuids, OrderPushed(u)
      PROVE  ScanInv'
  <2> DEFINE t == pending_cache'[u].symbol
  <2>1. /\ u \notin DOMAIN pending_cache
        /\ DOMAIN pending_cache' = DOMAIN pending_cache \cup {u}
        /\ t \in Slots /\ open_cache' = open_cache /\ SymbolsKept
        /\ pending_vec' = Push(pending_vec, t, u) /\ open_vec' = open_vec
    BY <1>1, <1>3 DEF OrderPushed, CacheMoves, SameCached
  <2>2. ASSUME NEW s \in Slots
        PROVE  Of(pending_cache', s) = IF s = t THEN Of(pending_cache, s) \cup {u}
                                                ELSE Of(pending_cache, s)
    BY <2>1 DEF SymbolsKept, Of
  <2>3. /\ pending_vec' = [pending_vec EXCEPT ![t] = Append(pending_vec[t], u)]
        /\ u \notin Of(pending_cache, t)
    BY <2>1 DEF Push, Of
  <2>4. ASSUME NEW s \in Slots
        PROVE  /\ pending_vec'[s] \in Seq(Uuids)
               /\ VecOf(pending_vec'[s], s, pending_cache') /\ VecOf(open_vec'[s], s, open_cache')
    <3>1. CASE s = t
      <4>1. pending_vec'[s] = Append(pending_vec[s], u) /\ pending_vec[s] \in Seq(Uuids)
        BY <2>3, <3>1 DEF ScanInv
      <4>2. VecOf(pending_vec[s], s, pending_cache) /\ VecOf(open_vec[s], s, open_cache)
        BY DEF ScanInv
      <4>3. VecOf(Append(pending_vec[s], u), s, pending_cache')
        BY <2>2, <2>3, <3>1, <4>1, <4>2, VecFollows
      <4> QED BY <2>1, <4>1, <4>2, <4>3, PushVec
    <3>2. CASE s # t
      <4>1. pending_vec'[s] = pending_vec[s] /\ pending_vec[s] \in Seq(Uuids)
        BY <2>1, <2>3, <3>2 DEF ScanInv
      <4> QED BY <2>1, <2>2, <3>2, <4>1, VecFollows DEF ScanInv
    <3> QED BY <3>1, <3>2
  <2>5. DOMAIN pending_vec' = Slots /\ pending_vec' = [s \in Slots |-> pending_vec'[s]]
    BY <2>3 DEF ScanInv
  <2> HIDE DEF t
  <2>6. Vecs
    BY <2>1, <2>4, <2>5 DEF ScanInv
  <2> QED BY <1>1, <2>6 DEF ScanInv
<1>4. ASSUME NEW u \in Uuids, OrderRemoved(u)
      PROVE  ScanInv'
  <2> DEFINE t == pending_cache[u].symbol
  <2>1. /\ u \in DOMAIN pending_cache
        /\ DOMAIN pending_cache' = DOMAIN pending_cache \ {u}
        /\ open_cache' = open_cache /\ SymbolsKept /\ open_vec' = open_vec
    BY <1>1, <1>4 DEF OrderRemoved, CacheMoves, SameCached
  <2>2. PICK k \in DOMAIN pending_vec[t] :
            pending_vec[t][k] = u /\ pending_vec' = TakeOut(pending_vec, t, k)
    BY <1>4 DEF OrderRemoved
  <2>3. ASSUME NEW s \in Slots
        PROVE  Of(pending_cache', s) = IF s = t THEN Of(pending_cache, s) \ {u}
                                                ELSE Of(pending_cache, s)
    BY <2>1 DEF SymbolsKept, Of
  <2>4. pending_vec' = [pending_vec EXCEPT ![t] = CutOut(pending_vec[t], k)]
    BY <2>2 DEF TakeOut
  <2>5. ASSUME NEW s \in Slots
        PROVE  /\ pending_vec'[s] \in Seq(Uuids)
               /\ VecOf(pending_vec'[s], s, pending_cache') /\ VecOf(open_vec'[s], s, open_cache')
    <3>1. CASE s = t
      <4>1. /\ pending_vec'[s] = CutOut(pending_vec[s], k) /\ pending_vec[s] \in Seq(Uuids)
            /\ k \in DOMAIN pending_vec[s] /\ pending_vec[s][k] = u
            /\ VecOf(pending_vec[s], s, pending_cache)
        BY <2>2, <2>4, <3>1 DEF ScanInv
      <4>2. CutOut(pending_vec[s], k) \in Seq(Uuids)
        BY <4>1, CutVec DEF VecOf
      <4>3. VecOf(open_vec[s], s, open_cache)
        BY DEF ScanInv
      <4>4. VecOf(CutOut(pending_vec[s], k), s, pending_cache')
        BY <2>3, <3>1, <4>1, VecFollows
      <4> QED BY <2>1, <4>1, <4>2, <4>3, <4>4
    <3>2. CASE s # t
      <4>1. pending_vec'[s] = pending_vec[s] /\ pending_vec[s] \in Seq(Uuids)
        BY <2>1, <2>4, <3>2 DEF ScanInv
      <4> QED BY <2>1, <2>3, <3>2, <4>1, VecFollows DEF ScanInv
    <3> QED BY <3>1, <3>2
  <2>6. pending_vec' = [s \in Slots |-> pending_vec'[s]]
    BY <2>4 DEF ScanInv
  <2> HIDE DEF t
  <2>7. Vecs
    BY <2>1, <2>5, <2>6 DEF ScanInv
  <2> QED BY <1>1, <2>7 DEF ScanInv
<1>5. ASSUME NEW u \in Uuids, PositionPushed(u)
      PROVE  ScanInv'
  <2> DEFINE t == open_cache'[u].symbol
  <2>1. /\ u \notin DOMAIN open_cache
        /\ DOMAIN open_cache' = DOMAIN open_cache \cup {u}
        /\ t \in Slots /\ pending_cache' = pending_cache /\ SymbolsKept
        /\ open_vec' = Push(open_vec, t, u) /\ pending_vec' = pending_vec
    BY <1>1, <1>5 DEF PositionPushed, CacheMoves, SameCached
  <2>2. ASSUME NEW s \in Slots
        PROVE  Of(open_cache', s) = IF s = t THEN Of(open_cache, s) \cup {u}
                                             ELSE Of(open_cache, s)
    BY <2>1 DEF SymbolsKept, Of
  <2>3. /\ open_vec' = [open_vec EXCEPT ![t] = Append(open_vec[t], u)]
        /\ u \notin Of(open_cache, t)
    BY <2>1 DEF Push, Of
  <2>4. ASSUME NEW s \in Slots
        PROVE  /\ open_vec'[s] \in Seq(Uuids)
               /\ VecOf(pending_vec'[s], s, pending_cache') /\ VecOf(open_vec'[s], s, open_cache')
    <3>1. CASE s = t
      <4>1. open_vec'[s] = Append(open_vec[s], u) /\ open_vec[s] \in Seq(Uuids)
        BY <2>3, <3>1 DEF ScanInv
      <4>2. VecOf(open_vec[s], s, open_cache) /\ VecOf(pending_vec[s], s, pending_cache)
        BY DEF ScanInv
      <4>3. VecOf(Append(open_vec[s], u), s, open_cache')
        BY <2>2, <2>3, <3>1, <4>1, <4>2, VecFollows
      <4> QED BY <2>1, <4>1, <4>2, <4>3, PushVec
    <3>2. CASE s # t
      <4>1. open_vec'[s] = open_vec[s] /\ open_vec[s] \in Seq(Uuids)
        BY <2>1, <2>3, <3>2 DEF ScanInv
      <4> QED BY <2>1, <2>2, <3>2, <4>1, VecFollows DEF ScanInv
    <3> QED BY <3>1, <3>2
  <2>5. open_vec' = [s \in Slots |-> open_vec'[s]]
    BY <2>3 DEF ScanInv
  <2> HIDE DEF t
  <2>6. Vecs
    BY <2>1, <2>4, <2>5 DEF ScanInv
  <2> QED BY <1>1, <2>6 DEF ScanInv
<1> QED BY <1>2, <1>3, <1>4, <1>5 DEF Handle

(***************************************************************************)
(* The entry at the index of a loop is a cached position of the symbol.    *)
(***************************************************************************)
LEMMA EntryCached ==
    ASSUME IInv, ScanInv, Running, ticking # None
    PROVE  /\ ticking \in Slots /\ index \in Nat /\ index >= 1
           /\ scanning = "pending" /\ Inside(pending_vec[ticking]) =>
                 /\ index \in DOMAIN pending_vec[ticking]
                 /\ pending_vec[ticking][index] \in Of(pending_cache, ticking) \cap Uuids
           /\ scanning = "open" /\ Inside(open_vec[ticking]) =>
                 /\ index \in DOMAIN open_vec[ticking]
                 /\ open_vec[ticking][index] \in Of(open_cache, ticking) \cap Uuids
<1>1. ticking \in Slots
  BY DEF ScanInv
<1>2. /\ pending_vec[ticking] \in Seq(Uuids) /\ VecOf(pending_vec[ticking], ticking, pending_cache)
      /\ open_vec[ticking] \in Seq(Uuids) /\ VecOf(open_vec[ticking], ticking, open_cache)
  BY <1>1 DEF ScanInv
<1>3. index \in Nat /\ index >= 1
  BY <1>2 DEF ScanInv
<1>4. ASSUME NEW vec \in Seq(Uuids), NEW map, VecOf(vec, ticking, map), Inside(vec)
      PROVE  index \in DOMAIN vec /\ vec[index] \in Of(map, ticking) \cap Uuids
  <2>1. index \in DOMAIN vec /\ vec[index] \in Uuids
    BY <1>3, <1>4 DEF Inside
  <2> QED BY <1>4, <2>1 DEF VecOf, Held, Of
<1> QED BY <1>1, <1>2, <1>3, <1>4

(***************************************************************************)
(* A fill: the order is one the price fills; the index stays in front of   *)
(* what moved up, and what it has passed stays unfilled.                   *)
(***************************************************************************)
LEMMA FillScan ==
    ASSUME IInv, ScanInv, FillNext
    PROVE  ScanInv' /\ TickPositions
<1> DEFINE u == pending_vec[ticking][index]
           vec == pending_vec[ticking]
           pos == Executed(pending_positions[u],
                           IsOpenSatisfied(pending_cache[u], price[ticking]))
<1>1. /\ Running /\ ticking # None /\ scanning = "pending" /\ Inside(pending_vec[ticking])
      /\ IsOpenSatisfied(pending_cache[u], price[ticking]) # None /\ FillOrder(u)
      /\ scanning' = scanning
  BY DEF FillNext, Scanning
<1>2. /\ ticking \in Slots /\ index \in Nat /\ index >= 1 /\ index \in DOMAIN vec
      /\ u \in Of(pending_cache, ticking) /\ u \in Uuids
  BY <1>1, EntryCached
<1>3. u \in Fillable
  BY <1>1, <1>2 DEF Fillable, Of
<1>4. OpenPending(u)
  BY <1>1, <1>3 DEF OpenPending
<1>5. /\ u \in DOMAIN pending_positions /\ pending_positions[u] = pending_cache[u]
      /\ pending_positions[u] \in Positions
      /\ u \notin DOMAIN open_cache
  BY <1>2, LookupType DEF Of, IInv, PendingCacheCoherent, StagesDisjoint, TypeOK
<1>6. /\ pending_cache' = Remove(pending_cache, u)
      /\ open_cache' = Put(open_cache, u, pos)
      /\ UNCHANGED <<price, ticking, panic>>
  BY <1>1, <1>5 DEF FillOrder
<1>7. pos.symbol = ticking
  BY <1>2, <1>5 DEF Executed, Positions, Of
<1>8. /\ pending_vec' = TakeOut(pending_vec, ticking, index)
      /\ open_vec' = Push(open_vec, ticking, u) /\ index' = index
  BY <1>1, <1>2, <1>6 DEF FillNext, StepPast, StepBack, Running
<1> HIDE DEF u, pos, vec
<1>9. ASSUME NEW s \in Slots
      PROVE  /\ Of(pending_cache', s) = IF s = ticking THEN Of(pending_cache, s) \ {u}
                                                       ELSE Of(pending_cache, s)
             /\ Of(open_cache', s) = IF s = ticking THEN Of(open_cache, s) \cup {u}
                                                    ELSE Of(open_cache, s)
  <2>1. /\ DOMAIN pending_cache' = DOMAIN pending_cache \ {u}
        /\ \A k \in DOMAIN pending_cache' : pending_cache'[k] = pending_cache[k]
    BY <1>6 DEF Remove, Restrict
  <2>2. /\ DOMAIN open_cache' = DOMAIN open_cache \cup {u} /\ open_cache'[u] = pos
        /\ \A k \in DOMAIN open_cache : open_cache'[k] = open_cache[k]
    BY <1>5, <1>6 DEF Put
  <2> QED BY <1>2, <1>5, <1>7, <2>1, <2>2 DEF Of
<1>10. /\ vec \in Seq(Uuids) /\ VecOf(vec, ticking, pending_cache)
       /\ open_vec[ticking] \in Seq(Uuids) /\ VecOf(open_vec[ticking], ticking, open_cache)
       /\ vec[index] = u /\ vec = pending_vec[ticking]
  BY <1>2 DEF ScanInv, u, vec
<1>11. /\ CutOut(vec, index) \in Seq(Uuids) /\ Len(CutOut(vec, index)) = Len(vec) - 1
       /\ \A j \in 1..(index - 1) : CutOut(vec, index)[j] = vec[j]
       /\ VecOf(CutOut(vec, index), ticking, pending_cache')
  <2>1. /\ CutOut(vec, index) \in Seq(Uuids) /\ Len(CutOut(vec, index)) = Len(vec) - 1
        /\ \A j \in 1..(index - 1) : CutOut(vec, index)[j] = vec[j]
    <3>1. EachOnce(vec)
      BY <1>10 DEF VecOf
    <3> QED BY <1>2, <1>10, <3>1, CutVec
  <2>2. VecOf(CutOut(vec, index), ticking, pending_cache')
    BY <1>2, <1>9, <1>10, VecFollows
  <2> QED BY <2>1, <2>2
<1>12. /\ Append(open_vec[ticking], u) \in Seq(Uuids)
       /\ VecOf(Append(open_vec[ticking], u), ticking, open_cache')
  <2>1. u \notin Of(open_cache, ticking)
    BY <1>5 DEF Of
  <2>2. Append(open_vec[ticking], u) \in Seq(Uuids)
    BY <1>2, <1>10, PushVec
  <2> QED BY <1>2, <1>9, <1>10, <2>1, <2>2, VecFollows
<1>13. /\ pending_vec' = [pending_vec EXCEPT ![ticking] = CutOut(vec, index)]
       /\ open_vec' = [open_vec EXCEPT ![ticking] = Append(open_vec[ticking], u)]
  BY <1>8, <1>10 DEF TakeOut, Push
<1>14. ASSUME NEW s \in Slots
       PROVE  /\ pending_vec'[s] \in Seq(Uuids) /\ VecOf(pending_vec'[s], s, pending_cache')
              /\ open_vec'[s] \in Seq(Uuids) /\ VecOf(open_vec'[s], s, open_cache')
  <2>1. CASE s = ticking
    <3>1. pending_vec'[s] = CutOut(vec, index) /\ open_vec'[s] = Append(open_vec[ticking], u)
      BY <1>13, <2>1 DEF ScanInv
    <3> QED BY <1>11, <1>12, <2>1, <3>1
  <2>2. CASE s # ticking
    <3>1. /\ pending_vec'[s] = pending_vec[s] /\ pending_vec[s] \in Seq(Uuids)
          /\ open_vec'[s] = open_vec[s] /\ open_vec[s] \in Seq(Uuids)
          /\ VecOf(pending_vec[s], s, pending_cache) /\ VecOf(open_vec[s], s, open_cache)
      BY <1>13, <2>2 DEF ScanInv
    <3> QED BY <1>9, <2>2, <3>1, VecFollows
  <2> QED BY <2>1, <2>2
<1>15. /\ pending_vec' \in [Slots -> Seq(Uuids)] /\ open_vec' \in [Slots -> Seq(Uuids)]
  <2>1. /\ pending_vec' = [s \in Slots |-> pending_vec'[s]]
        /\ open_vec' = [s \in Slots |-> open_vec'[s]]
    BY <1>13 DEF ScanInv
  <2> QED BY <1>14, <2>1
<1>16. Fillable' \subseteq Fillable
  <2>1. /\ DOMAIN pending_cache' = DOMAIN pending_cache \ {u}
        /\ \A k \in DOMAIN pending_cache' : pending_cache'[k] = pending_cache[k]
    BY <1>6 DEF Remove, Restrict
  <2> QED BY <1>6, <2>1 DEF Fillable
<1>17. /\ index' \in 1..(Len(pending_vec'[ticking']) + 1)
       /\ \A k \in 1..(index' - 1) : pending_vec'[ticking'][k] \notin Fillable'
  <2>1. pending_vec'[ticking'] = CutOut(vec, index)
    BY <1>2, <1>6, <1>13 DEF ScanInv
  <2>2. \A k \in 1..(index - 1) : vec[k] \notin Fillable
    BY <1>1, <1>10 DEF ScanInv
  <2>3. index \in 1..Len(vec) /\ Len(vec) \in Nat
    BY <1>2, <1>10
  <2> QED BY <1>8, <1>11, <1>16, <2>1, <2>2, <2>3
<1>18. ScanInv'
  BY <1>1, <1>2, <1>6, <1>14, <1>15, <1>17 DEF ScanInv
<1> QED BY <1>2, <1>4, <1>18 DEF TickPositions

(***************************************************************************)
(* An entry that is not satisfied is passed: the caches stay, one more is  *)
(* known not to be satisfied.                                              *)
(***************************************************************************)
LEMMA PassScan ==
    ASSUME IInv, ScanInv, PassPending \/ PassOpen
    PROVE  ScanInv' /\ UNCHANGED vars
<1>1. UNCHANGED <<vars, pending_vec, open_vec, scanning>> /\ Running /\ ticking # None
      /\ index' = index + 1
  BY DEF PassPending, PassOpen, LoopOnly, Scanning, StepPast
<1>2. UNCHANGED <<price, pending_cache, open_cache, ticking, panic>>
  BY <1>1 DEF vars, cache
<1>3. ticking \in Slots /\ index \in Nat /\ index >= 1
  BY <1>1, EntryCached
<1>4. CASE PassPending
  <2>1. /\ scanning = "pending" /\ index \in DOMAIN pending_vec[ticking]
        /\ pending_vec[ticking][index] \notin Fillable /\ pending_vec[ticking] \in Seq(Uuids)
    BY <1>1, <1>3, <1>4, EntryCached DEF PassPending, Scanning, Fillable, ScanInv
  <2>2. Fillable' = Fillable
    BY <1>2 DEF Fillable
  <2>3. \A k \in 1..(index - 1) : pending_vec[ticking][k] \notin Fillable
    BY <1>1, <2>1 DEF ScanInv
  <2>4. \A k \in 1..(index' - 1) : k \in 1..(index - 1) \/ k = index
    BY <1>1, <1>3
  <2>5. index' \in 1..(Len(pending_vec[ticking]) + 1)
    BY <1>1, <1>3, <2>1
  <2> QED BY <1>1, <1>2, <2>1, <2>2, <2>3, <2>4, <2>5 DEF ScanInv
<1>5. CASE PassOpen
  <2>1. /\ scanning = "open" /\ index \in DOMAIN open_vec[ticking]
        /\ open_vec[ticking][index] \notin Closable /\ open_vec[ticking] \in Seq(Uuids)
    BY <1>1, <1>3, <1>5, EntryCached DEF PassOpen, Scanning, Closable, ScanInv
  <2>2. Closable' = Closable /\ Fillable' = Fillable
    BY <1>2 DEF Closable, Fillable
  <2>3. /\ \A k \in 1..(index - 1) : open_vec[ticking][k] \notin Closable
        /\ Fillable = {}
    BY <1>1, <2>1 DEF ScanInv
  <2>4. \A k \in 1..(index' - 1) : k \in 1..(index - 1) \/ k = index
    BY <1>1, <1>3
  <2>5. index' \in 1..(Len(open_vec[ticking]) + 1)
    BY <1>1, <1>3, <2>1
  <2> QED BY <1>1, <1>2, <2>1, <2>2, <2>3, <2>4, <2>5 DEF ScanInv
<1> QED BY <1>1, <1>4, <1>5

(***************************************************************************)
(* An index past the end of its Vec has passed every entry.                *)
(***************************************************************************)
LEMMA AllPassed ==
    ASSUME IInv, ScanInv, Running, ticking # None
    PROVE  /\ scanning = "pending" /\ ~Inside(pending_vec[ticking]) => Fillable = {}
           /\ scanning = "open" /\ ~Inside(open_vec[ticking]) => Fillable = {} /\ Closable = {}
<1>1. /\ ticking \in Slots /\ index \in Nat
      /\ pending_vec[ticking] \in Seq(Uuids) /\ VecOf(pending_vec[ticking], ticking, pending_cache)
      /\ open_vec[ticking] \in Seq(Uuids) /\ VecOf(open_vec[ticking], ticking, open_cache)
  BY EntryCached DEF ScanInv
<1>2. ASSUME scanning = "pending", ~Inside(pending_vec[ticking]) PROVE Fillable = {}
  <2>1. \A k \in DOMAIN pending_vec[ticking] : pending_vec[ticking][k] \notin Fillable
    <3>1. \A k \in 1..(index - 1) : pending_vec[ticking][k] \notin Fillable
      BY <1>2 DEF ScanInv
    <3> QED BY <1>1, <1>2, <3>1 DEF Inside
  <2>2. \A u \in Fillable : u \in Held(pending_vec[ticking])
    BY <1>1 DEF Fillable, VecOf
  <2> QED BY <2>1, <2>2 DEF Held
<1>3. ASSUME scanning = "open", ~Inside(open_vec[ticking]) PROVE Fillable = {} /\ Closable = {}
  <2>1. \A k \in DOMAIN open_vec[ticking] : open_vec[ticking][k] \notin Closable
    <3>1. \A k \in 1..(index - 1) : open_vec[ticking][k] \notin Closable
      BY <1>3 DEF ScanInv
    <3> QED BY <1>1, <1>3, <3>1 DEF Inside
  <2>2. \A u \in Closable : u \in Held(open_vec[ticking])
    BY <1>1 DEF Closable, VecOf
  <2>3. Fillable = {}
    BY <1>3 DEF ScanInv
  <2> QED BY <2>1, <2>2, <2>3 DEF Held
<1> QED BY <1>2, <1>3

(***************************************************************************)
(* A closure: nothing is left to fill, the position is one the price       *)
(* closes, and what the index has passed stays unsatisfied.                *)
(***************************************************************************)
LEMMA CloseScan ==
    ASSUME IInv, ScanInv, CloseNext
    PROVE  ScanInv' /\ TickPositions
<1> DEFINE u == open_vec[ticking][index]
           vec == open_vec[ticking]
<1>1. /\ Running /\ ticking # None /\ scanning = "open" /\ Inside(open_vec[ticking])
      /\ IsCloseSatisfied(open_cache[u], price[ticking]) /\ ClosePosition(u)
      /\ UNCHANGED <<pending_vec, scanning>>
  BY DEF CloseNext, Scanning
<1>2. /\ ticking \in Slots /\ index \in Nat /\ index >= 1 /\ index \in DOMAIN vec
      /\ u \in Of(open_cache, ticking) /\ u \in Uuids
  BY <1>1, EntryCached
<1>3. u \in Closable /\ Fillable = {}
  BY <1>1, <1>2 DEF Closable, Of, ScanInv
<1>4. CloseOpen(u)
  BY <1>1, <1>3 DEF CloseOpen
<1>5. CASE panic' # "none"
  <2>1. UNCHANGED <<open_vec, index>>
    BY <1>1, <1>5 DEF CloseNext
  <2>2. UNCHANGED <<pending_cache, open_cache, ticking>>
    BY <1>1, <1>5 DEF ClosePosition, Crash, cache, Running
  <2>3. ~Running'
    BY <1>5 DEF Running
  <2> QED BY <1>1, <1>2, <1>4, <2>1, <2>2, <2>3 DEF ScanInv, TickPositions
<1>6. CASE panic' = "none"
  <2>1. /\ open_cache' = Remove(open_cache, u)
        /\ UNCHANGED <<price, ticking, pending_cache, panic>>
    BY <1>1, <1>6 DEF ClosePosition, Crash
  <2>2. open_vec' = TakeOut(open_vec, ticking, index) /\ index' = index
    BY <1>1, <1>2, <1>6 DEF CloseNext, StepPast, StepBack
  <2> HIDE DEF u, vec
  <2>3. /\ DOMAIN open_cache' = DOMAIN open_cache \ {u}
        /\ \A k \in DOMAIN open_cache' : open_cache'[k] = open_cache[k]
    BY <2>1 DEF Remove, Restrict
  <2>4. ASSUME NEW s \in Slots
        PROVE  Of(open_cache', s) = IF s = ticking THEN Of(open_cache, s) \ {u}
                                                   ELSE Of(open_cache, s)
    BY <1>2, <2>3 DEF Of
  <2>5. /\ vec \in Seq(Uuids) /\ VecOf(vec, ticking, open_cache)
        /\ vec[index] = u /\ vec = open_vec[ticking]
    BY <1>2 DEF ScanInv, u, vec
  <2>6. /\ CutOut(vec, index) \in Seq(Uuids) /\ Len(CutOut(vec, index)) = Len(vec) - 1
        /\ \A j \in 1..(index - 1) : CutOut(vec, index)[j] = vec[j]
    <3>1. EachOnce(vec)
      BY <2>5 DEF VecOf
    <3> QED BY <1>2, <2>5, <3>1, CutVec
  <2>7. VecOf(CutOut(vec, index), ticking, open_cache')
    BY <1>2, <2>4, <2>5, VecFollows
  <2>8. open_vec' = [open_vec EXCEPT ![ticking] = CutOut(vec, index)]
    BY <2>2, <2>5 DEF TakeOut
  <2>9. ASSUME NEW s \in Slots
        PROVE  open_vec'[s] \in Seq(Uuids) /\ VecOf(open_vec'[s], s, open_cache')
    <3>1. CASE s = ticking
      <4>1. open_vec'[s] = CutOut(vec, index)
        BY <2>8, <3>1 DEF ScanInv
      <4> QED BY <2>6, <2>7, <3>1, <4>1
    <3>2. CASE s # ticking
      <4>1. /\ open_vec'[s] = open_vec[s] /\ open_vec[s] \in Seq(Uuids)
            /\ VecOf(open_vec[s], s, open_cache)
        BY <2>8, <3>2 DEF ScanInv
      <4> QED BY <2>4, <3>2, <4>1, VecFollows
    <3> QED BY <3>1, <3>2
  <2>10. open_vec' \in [Slots -> Seq(Uuids)]
    <3>1. open_vec' = [s \in Slots |-> open_vec'[s]]
      BY <2>8 DEF ScanInv
    <3> QED BY <2>9, <3>1
  <2>11. Closable' \subseteq Closable /\ Fillable' = {}
    BY <1>3, <2>1, <2>3 DEF Closable, Fillable
  <2>12. /\ index' \in 1..(Len(open_vec'[ticking']) + 1)
         /\ \A k \in 1..(index' - 1) : open_vec'[ticking'][k] \notin Closable'
    <3>1. open_vec'[ticking'] = CutOut(vec, index)
      BY <1>2, <2>1, <2>8 DEF ScanInv
    <3>2. \A k \in 1..(index - 1) : vec[k] \notin Closable
      BY <1>1, <2>5 DEF ScanInv
    <3>3. index \in 1..Len(vec) /\ Len(vec) \in Nat
      BY <1>2, <2>5
    <3> QED BY <2>2, <2>6, <2>11, <3>1, <3>2, <3>3
  <2>13. ScanInv'
    BY <1>1, <1>2, <2>1, <2>9, <2>10, <2>11, <2>12 DEF ScanInv
  <2> QED BY <1>2, <1>4, <2>13 DEF TickPositions
<1> QED BY <1>5, <1>6

(***************************************************************************)
(* Where a loop starts it has passed nothing yet; where the second ends,   *)
(* nothing fillable or closable is left, and tick_positions returns.       *)
(***************************************************************************)
LEMMA BoundaryScan ==
    ASSUME IInv, ScanInv, StartScan \/ StartOpen \/ EndScan
    PROVE  /\ ScanInv'
           /\ StartScan => Next /\ ticking = None
           /\ StartOpen => UNCHANGED vars
           /\ EndScan => TickPositions
<1>1. CASE StartScan
  <2>1. PICK s \in Slots, quote \in Ticks : NewTick(s, quote)
    BY <1>1 DEF StartScan
  <2>2. /\ ticking = None /\ ticking' = s /\ UNCHANGED <<pending_cache, open_cache>>
    BY <2>1 DEF NewTick, Idle, cache
  <2>3. /\ scanning' = "pending" /\ index' = 1 /\ UNCHANGED <<pending_vec, open_vec>>
    BY <1>1 DEF StartScan
  <2>4. pending_vec[s] \in Seq(Uuids)
    BY DEF ScanInv
  <2>5. ScanInv'
    BY <2>2, <2>3, <2>4 DEF ScanInv
  <2>6. Next
    BY <2>1 DEF Next, Slots
  <2>7. ~StartOpen /\ ~EndScan
    BY <2>2 DEF StartOpen, EndScan, Scanning
  <2> QED BY <2>2, <2>5, <2>6, <2>7
<1>2. CASE StartOpen
  <2>1. /\ Running /\ ticking # None /\ scanning = "pending" /\ ~Inside(pending_vec[ticking])
        /\ scanning' = "open" /\ index' = 1 /\ UNCHANGED <<vars, pending_vec, open_vec>>
    BY <1>2 DEF StartOpen, Scanning, LoopOnly
  <2>2. UNCHANGED <<price, pending_cache, open_cache, ticking, panic>>
    BY <2>1 DEF vars, cache
  <2>3. Fillable' = {}
    BY <2>1, <2>2, AllPassed DEF Fillable
  <2>4. open_vec[ticking] \in Seq(Uuids)
    BY <2>1 DEF ScanInv
  <2>5. ScanInv'
    BY <2>1, <2>2, <2>3, <2>4 DEF ScanInv
  <2>6. ~StartScan /\ ~EndScan
    BY <2>1 DEF StartScan, NewTick, Idle, EndScan, Scanning
  <2> QED BY <2>1, <2>5, <2>6
<1>3. CASE EndScan
  <2>1. /\ Running /\ ticking # None /\ scanning = "open" /\ ~Inside(open_vec[ticking])
        /\ EndTick /\ scanning' = "pending" /\ UNCHANGED <<pending_vec, open_vec>>
    BY <1>3 DEF EndScan, Scanning
  <2>2. Fillable = {} /\ Closable = {}
    BY <2>1, AllPassed
  <2>3. TickPositions
    BY <2>1, <2>2 DEF TickPositions, TickDone
  <2>4. ticking' = None /\ UNCHANGED <<pending_cache, open_cache>>
    BY <2>1 DEF EndTick, cache
  <2>5. ScanInv'
    BY <2>1, <2>4 DEF ScanInv
  <2>6. ~StartScan /\ ~StartOpen
    BY <2>1 DEF StartScan, NewTick, Idle, StartOpen, Scanning
  <2> QED BY <2>3, <2>5, <2>6
<1> QED BY <1>1, <1>2, <1>3

(***************************************************************************)
(* Every step of the broker with its Vecs is one of the broker or none of  *)
(* it, keeps the loops sound, and is a step of the tick while there is one.*)
(***************************************************************************)
LEMMA ScanStepSound ==
    ASSUME IInv, ScanInv, [ScanNext]_scanVars
    PROVE  ScanInv' /\ [Next]_vars /\ [ticking # None => TickPositions]_vars
<1>1. CASE UNCHANGED scanVars
  <2>1. UNCHANGED <<vars, pending_vec, open_vec, scanning, index>>
    BY <1>1 DEF scanVars
  <2>2. UNCHANGED <<price, pending_cache, open_cache, ticking, panic>>
    BY <2>1 DEF vars, cache
  <2>3. Fillable' = Fillable /\ Closable' = Closable /\ Running' = Running
    BY <2>2 DEF Fillable, Closable, Running
  <2>4. ScanInv'
    BY <2>1, <2>2, <2>3 DEF ScanInv
  <2> QED BY <2>1, <2>4
<1>2. CASE Handle
  <2>1. ExecAction \/ \E s \in Symbols, quote \in Ticks : OneshotPriceSet(s, quote)
    BY <1>2 DEF Handle
  <2>2. Next /\ ticking = None
    BY <2>1, ExecMoves DEF Next, Idle
  <2> QED BY <1>2, <2>2, HandleScan
<1>3. CASE StartScan \/ StartOpen \/ EndScan
  BY <1>3, BoundaryScan DEF Next
<1>4. CASE FillNext
  BY <1>4, FillScan DEF Next
<1>5. CASE CloseNext
  BY <1>5, CloseScan DEF Next
<1>6. CASE PassPending \/ PassOpen
  BY <1>6, PassScan
<1> QED BY <1>1, <1>2, <1>3, <1>4, <1>5, <1>6 DEF ScanNext, ScanStep

(***************************************************************************)
(* SimBroker::new starts with empty Vecs.                                  *)
(***************************************************************************)
LEMMA ScanStarts ==
    ASSUME ScanInit
    PROVE  IInv /\ ScanInv
<1>1. /\ pending_cache = EmptyMap /\ open_cache = EmptyMap /\ ticking = None
      /\ DOMAIN EmptyMap = {}
  BY DEF ScanInit, Init, EmptyMap
<1>2. <<>> \in Seq(Uuids) /\ \A s \in Slots : VecOf(<<>>, s, EmptyMap)
  BY <1>1 DEF VecOf, Held, EachOnce
<1> QED BY <1>1, <1>2, InitInv DEF ScanInit, ScanInv

(***************************************************************************)
(* The broker as it runs, with its Vecs, its indices and its removals,     *)
(* keeps the books and the loops sound for every set of symbols, uuids and *)
(* quotes.                                                                 *)
(***************************************************************************)
THEOREM LoopsSound == ScanSpec => []ScanSound
<1>1. ScanInit => ScanSound
  BY ScanStarts DEF ScanSound
<1>2. ScanSound /\ [ScanNext]_scanVars => ScanSound'
  BY ScanStepSound, NextInv DEF ScanSound
<1> QED BY <1>1, <1>2, PTL DEF ScanSpec

(***************************************************************************)
(* It implements the broker whose tick is over when nothing is left to     *)
(* fill or to close: what is proved of that one holds of it.               *)
(***************************************************************************)
THEOREM ScanImplementsBroker == ScanSpec => Spec
<1>1. ScanInit => Init
  BY DEF ScanInit
<1>2. ScanSound /\ [ScanNext]_scanVars => [Next]_vars
  BY ScanStepSound DEF ScanSound
<1> QED BY <1>1, <1>2, LoopsSound, PTL DEF ScanSpec, Spec

(***************************************************************************)
(* However many orders one price fills and positions it closes, wherever   *)
(* they are in the Vecs, the loops pass none of them by.                   *)
(***************************************************************************)
THEOREM NoneSkipped == ScanSpec => NothingSkipped
<1>1. ScanSound /\ [ScanNext]_scanVars => [ticking # None => TickPositions]_vars
  BY ScanStepSound DEF ScanSound
<1> QED BY <1>1, LoopsSound, PTL DEF ScanSpec, NothingSkipped

=============================================================================
