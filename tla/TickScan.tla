------------------------------ MODULE TickScan ------------------------------
(***************************************************************************)
(* The SimBroker with the Vecs its cached positions are kept in            *)
(* (Accounts.positions, broker_shims/simbroker/src/helpers.rs) and with    *)
(* the two loops of tick_positions (lib.rs) as they run: one Vec after the *)
(* other, an index that is stepped by hand because entries are removed     *)
(* from under it.                                                          *)
(*                                                                         *)
(* A Vec holds the uuids of its cached positions, in order; their terms    *)
(* are those of pending_cache and open_cache.  Nothing here asks whether   *)
(* something is left to fill or to close: a loop ends when its index has   *)
(* run past its Vec.  That SimBroker is implemented says that nothing was  *)
(* skipped by then.  Indices start at 1.                                   *)
(***************************************************************************)
EXTENDS SimBroker

VARIABLES
    pending_vec,    \* Positions.pending of every symbol with a cache slot
    open_vec,       \* Positions.open
    scanning,       \* the Vec the loop under way walks: "pending" or "open"
    index           \* its i

scanVars == <<vars, pending_vec, open_vec, scanning, index>>

Slots == Symbols \ OneshotSymbols

-----------------------------------------------------------------------------
(* Vecs *)

\* Vec::push, in the slot of s
Push(vecs, s, u) == [vecs EXCEPT ![s] = Append(@, u)]

\* Vec::remove of the k-th: what comes after it moves up
CutOut(vec, k) == [j \in 1..(Len(vec) - 1) |-> IF j < k THEN vec[j] ELSE vec[j + 1]]

TakeOut(vecs, s, k) == [vecs EXCEPT ![s] = CutOut(@, k)]

\* The step leaves the same positions in the cache.
SameCached ==
    /\ DOMAIN pending_cache' = DOMAIN pending_cache
    /\ DOMAIN open_cache' = DOMAIN open_cache

-----------------------------------------------------------------------------
(* The handlers: what they do to the cache they do to its Vecs *)

\* Terms may change, entries do not come or go.
VecsStay == SameCached /\ UNCHANGED <<pending_vec, open_vec>>

\* order_placed
OrderPushed(u) ==
    /\ u \in DOMAIN pending_cache' \ DOMAIN pending_cache
    /\ pending_vec' = Push(pending_vec, pending_cache'[u].symbol, u)
    /\ UNCHANGED open_vec

\* order_cancelled: the first entry with the uuid
OrderRemoved(u) ==
    /\ u \in DOMAIN pending_cache \ DOMAIN pending_cache'
    /\ LET s == pending_cache[u].symbol
       IN  \E k \in DOMAIN pending_vec[s] :
              /\ pending_vec[s][k] = u
              /\ \A j \in 1..(k - 1) : pending_vec[s][j] # u
              /\ pending_vec' = TakeOut(pending_vec, s, k)
    /\ UNCHANGED open_vec

\* position_opened_immediate
PositionPushed(u) ==
    /\ u \in DOMAIN open_cache' \ DOMAIN open_cache
    /\ open_vec' = Push(open_vec, open_cache'[u].symbol, u)
    /\ UNCHANGED pending_vec

Handle ==
    /\ ExecAction \/ \E s \in Symbols, quote \in Ticks : OneshotPriceSet(s, quote)
    /\ VecsStay \/ \E u \in Uuids : OrderPushed(u) \/ OrderRemoved(u) \/ PositionPushed(u)
    /\ UNCHANGED <<scanning, index>>

\* A tick arrives: the first loop starts at the first pending order.
StartScan ==
    /\ \E s \in Slots, quote \in Ticks : NewTick(s, quote)
    /\ scanning' = "pending" /\ index' = 1
    /\ UNCHANGED <<pending_vec, open_vec>>

-----------------------------------------------------------------------------
(* The loops of tick_positions *)

Scanning(which) == Running /\ ticking # None /\ scanning = which

\* the loop's condition: the index is in the Vec
Inside(vec) == index <= Len(vec)

\* Mutant: the index steps over the entry that moved up.
StepBackNot(k) == k

\* `i += 1` once an entry was looked at, and `i -= 1` once it was removed
StepPast(k) == k + 1
StepBack(k) == k - 1

\* Nothing but the loops' own state changes.
LoopOnly == UNCHANGED <<vars, pending_vec, open_vec>>

\* The order at the index is filled: it leaves this Vec and joins the other.
FillNext ==
    /\ Scanning("pending") /\ Inside(pending_vec[ticking])
    /\ LET u    == pending_vec[ticking][index]
           next == StepPast(index)
       IN  /\ IsOpenSatisfied(pending_cache[u], price[ticking]) # None
           /\ FillOrder(u)
           /\ IF panic' # "none" THEN UNCHANGED <<pending_vec, open_vec, index>>
              ELSE /\ pending_vec' = TakeOut(pending_vec, ticking, next - 1)
                   /\ open_vec' = Push(open_vec, ticking, u)
                   /\ index' = StepBack(next)
    /\ UNCHANGED scanning

\* Mutant: the index stays at an order that is not filled.
PassPendingNot ==
    /\ Scanning("pending") /\ Inside(pending_vec[ticking])
    /\ IsOpenSatisfied(pending_cache[pending_vec[ticking][index]], price[ticking]) = None
    /\ LoopOnly /\ UNCHANGED <<scanning, index>>

\* The order at the index is not filled.
PassPending ==
    /\ Scanning("pending") /\ Inside(pending_vec[ticking])
    /\ IsOpenSatisfied(pending_cache[pending_vec[ticking][index]], price[ticking]) = None
    /\ index' = StepPast(index)
    /\ LoopOnly /\ UNCHANGED scanning

\* The first loop is over, the second starts at the first open position.
StartOpen ==
    /\ Scanning("pending") /\ ~Inside(pending_vec[ticking])
    /\ scanning' = "open" /\ index' = 1
    /\ LoopOnly

\* The position at the index is closed.
CloseNext ==
    /\ Scanning("open") /\ Inside(open_vec[ticking])
    /\ LET u    == open_vec[ticking][index]
           next == StepPast(index)
       IN  /\ IsCloseSatisfied(open_cache[u], price[ticking])
           /\ ClosePosition(u)
           /\ IF panic' # "none" THEN UNCHANGED <<open_vec, index>>
              ELSE /\ open_vec' = TakeOut(open_vec, ticking, next - 1)
                   /\ index' = StepBack(next)
    /\ UNCHANGED <<pending_vec, scanning>>

\* The position at the index stays open.
PassOpen ==
    /\ Scanning("open") /\ Inside(open_vec[ticking])
    /\ ~IsCloseSatisfied(open_cache[open_vec[ticking][index]], price[ticking])
    /\ index' = StepPast(index)
    /\ LoopOnly /\ UNCHANGED scanning

\* The second loop is over.
EndScan ==
    /\ Scanning("open") /\ ~Inside(open_vec[ticking])
    /\ EndTick
    /\ scanning' = "pending" /\ index' = 1
    /\ UNCHANGED <<pending_vec, open_vec>>

ScanStep == FillNext \/ PassPending \/ StartOpen \/ CloseNext \/ PassOpen \/ EndScan

ScanInit ==
    /\ Init
    /\ pending_vec = [s \in Slots |-> <<>>]
    /\ open_vec = [s \in Slots |-> <<>>]
    /\ scanning = "pending"
    /\ index = 1

ScanNext == Handle \/ StartScan \/ ScanStep

ScanSpec == ScanInit /\ [][ScanNext]_scanVars

\* Once tick_positions has started it runs on: the code does nothing else.
FairScanSpec == ScanSpec /\ WF_scanVars(ScanStep)

-----------------------------------------------------------------------------
(* Properties *)

\* what a Vec holds
Held(vec) == {vec[k] : k \in DOMAIN vec}

EachOnce(vec) == \A j, k \in DOMAIN vec : vec[j] = vec[k] => j = k

\* The Vec of a symbol holds its cached positions, each once.
VecOf(vec, s, map) ==
    /\ Held(vec) = {u \in DOMAIN map : map[u].symbol = s}
    /\ EachOnce(vec)

(***************************************************************************)
(* What the loops rely on: the Vecs hold what the cache holds, each entry  *)
(* once and in the Vec of its own symbol, the entries the index has passed *)
(* are not satisfied, and the second loop runs only when no order of the   *)
(* symbol is (the fills it has made pushed onto the Vec it walks).         *)
(***************************************************************************)
ScanInv ==
    /\ pending_vec \in [Slots -> Seq(Uuids)] /\ open_vec \in [Slots -> Seq(Uuids)]
    /\ scanning \in {"pending", "open"}
    /\ ticking \in Slots \cup {None}
    /\ \A s \in Slots :
          /\ VecOf(pending_vec[s], s, pending_cache)
          /\ VecOf(open_vec[s], s, open_cache)
    /\ ticking # None /\ Running =>
          LET vec == IF scanning = "pending" THEN pending_vec[ticking] ELSE open_vec[ticking]
          IN  /\ index \in 1..(Len(vec) + 1)
              /\ \A k \in 1..(index - 1) :
                    vec[k] \notin IF scanning = "pending" THEN Fillable ELSE Closable
              /\ scanning = "open" => Fillable = {}

(***************************************************************************)
(* The state is sound: the broker's own invariant and that of the loops.   *)
(***************************************************************************)
ScanSound == IInv /\ ScanInv

(***************************************************************************)
(* The loops of tick_positions (lib.rs:756-856) implement the tick of      *)
(* SimBroker: they fill only what the price fills, close only what it      *)
(* closes once nothing is left to fill, the orders filled by the same tick *)
(* included, and return only when nothing is left at all.  An index        *)
(* stepped past the entry that moved up after a removal would leave a      *)
(* satisfied order or stop untouched until the next tick.                  *)
(***************************************************************************)
NothingSkipped == [][ticking # None => TickPositions]_vars

(***************************************************************************)
(* A price update is finished: the two loops, whose Vecs shrink and grow   *)
(* under them, terminate or panic.                                         *)
(***************************************************************************)
TickTerminates == (ticking # None) ~> (ticking = None \/ panic # "none")

=============================================================================
