--------------------------- MODULE SimLoop_proofs ---------------------------
(***************************************************************************)
(* Proofs about SimLoop for any number of symbols, any streams with        *)
(* increasing timestamps, any delays, sizes and number of actions.         *)
(*                                                                         *)
(* QueueOrder is inductive once the types it needs are added.  Its heart   *)
(* is QueueAhead: a tick leaves the queue only in PopNewTick, and before   *)
(* the loop is ready again FinishTick has put the earliest tick of all     *)
(* streams into it.  So whatever is popped is no later than anything that  *)
(* is still inside a stream, and the clock never has to go back.           *)
(*                                                                         *)
(* Three more invariants stand on it: RoadInv follows the ticks of each    *)
(* symbol from the stream to the strategy, AccountInv follows the actions  *)
(* from the strategy to their answer, and LimitsInv holds the sizes and    *)
(* what is true when the simulation has ended.                             *)
(***************************************************************************)
EXTENDS SimLoop, SimBroker_proofs, QueueLemmas

\* QueueOrder with the types its proof needs
LoopInv ==
    /\ timestamp \in Nat
    /\ cursor \in [Symbols -> Nat \ {0}]
    /\ \A item \in pq : item.time \in Nat
    /\ QueueOrder

-----------------------------------------------------------------------------
(* Streams *)

(***************************************************************************)
(* The ticks of a stream are ticks.                                        *)
(***************************************************************************)
LEMMA TickType ==
    ASSUME NEW s \in Symbols, NEW i \in 1..Len(TickStreams[s])
    PROVE  TickAt(s, i).timestamp \in Nat /\ TickAt(s, i).quote \in Ticks
<1>1. TickStreams[s] \in Seq([timestamp : Nat, quote : Ticks])
  BY StreamAssumption
<1> DEFINE T == [timestamp : Nat, quote : Ticks]
<1>2. ASSUME NEW S, NEW q \in Seq(S), NEW j \in 1..Len(q)
      PROVE  q[j] \in S
  OBVIOUS
<1>3. TickStreams[s][i] \in T
  <2> HIDE DEF T
  <2> QED BY <1>1, <1>2 DEF T
<1> QED BY <1>3 DEF TickAt

(***************************************************************************)
(* A stream's next tick is no earlier than the one before.                 *)
(***************************************************************************)
LEMMA TickOrder ==
    ASSUME NEW s \in Symbols, NEW i \in Nat \ {0}, i + 1 <= Len(TickStreams[s])
    PROVE  TickAt(s, i + 1).timestamp >= TickAt(s, i).timestamp
<1>1. TickStreams[s] \in Seq([timestamp : Nat, quote : Ticks])
  BY StreamAssumption
<1>2. i + 1 \in 2..Len(TickStreams[s]) /\ (i + 1) - 1 = i
  BY <1>1
<1> QED BY <1>2, StreamAssumption DEF TickAt

(***************************************************************************)
(* The next tick of a symbol that has one is a tick of its stream.         *)
(***************************************************************************)
LEMMA CursorType ==
    ASSUME cursor \in [Symbols -> Nat \ {0}], NEW s \in WithTicks(cursor)
    PROVE  /\ s \in Symbols
           /\ cursor[s] \in 1..Len(TickStreams[s])
           /\ TickAt(s, cursor[s]).timestamp \in Nat
<1>1. s \in Symbols /\ cursor[s] <= Len(TickStreams[s])
  BY DEF WithTicks
<1>2. Len(TickStreams[s]) \in Nat
  BY <1>1, StreamAssumption
<1>3. cursor[s] \in 1..Len(TickStreams[s])
  BY <1>1, <1>2
<1> QED BY <1>1, <1>3, TickType

-----------------------------------------------------------------------------
(* The queue *)

(***************************************************************************)
(* push_next_tick keeps the queue ahead of the streams.                    *)
(***************************************************************************)
LEMMA PushInv ==
    ASSUME LoopInv, PushNextTick(pq), timestamp' = timestamp
    PROVE  LoopInv'
<1>1. CASE WithTicks(cursor) = {}
  <2>1. pq' = pq /\ cursor' = cursor
    BY <1>1 DEF PushNextTick
  <2>2. WithTicks(cursor') = {}
    BY <1>1, <2>1
  <2> QED
    BY <2>1, <2>2 DEF LoopInv, QueueOrder, TickUnitsValid, NothingOverdue, QueueAhead
<1>2. CASE WithTicks(cursor) # {}
  <2>1. PICK s \in WithTicks(cursor) :
            /\ \A t \in WithTicks(cursor) : Before(cursor, s, t)
            /\ pq' = pq \cup {NewTickUnit(s, cursor[s])}
            /\ cursor' = [cursor EXCEPT ![s] = @ + 1]
    BY <1>2 DEF PushNextTick
  <2> DEFINE T(t) == TickAt(t, cursor[t]).timestamp
             new  == NewTickUnit(s, cursor[s])
  <2>2. cursor \in [Symbols -> Nat \ {0}]
    BY DEF LoopInv
  <2>3. /\ s \in Symbols
        /\ cursor[s] \in 1..Len(TickStreams[s])
        /\ T(s) \in Nat
    BY <2>2, CursorType
  <2>4. /\ new.time = T(s) /\ new.unit = "NewTick" /\ new.symbol = s
        /\ new.index = cursor[s]
    BY DEF NewTickUnit
  <2>5. /\ cursor' \in [Symbols -> Nat \ {0}]
        /\ cursor'[s] = cursor[s] + 1
        /\ \A t \in Symbols \ {s} : cursor'[t] = cursor[t]
    BY <2>1, <2>2, <2>3
  <2>6. ASSUME NEW t \in WithTicks(cursor')
        PROVE  /\ t \in WithTicks(cursor)
               /\ TickAt(t, cursor'[t]).timestamp >= T(t)
               /\ TickAt(t, cursor'[t]).timestamp \in Nat
    <3>1. t \in Symbols /\ cursor'[t] <= Len(TickStreams[t])
      BY DEF WithTicks
    <3>2. Len(TickStreams[t]) \in Nat
      BY <3>1, StreamAssumption
    <3>3. t \in WithTicks(cursor)
      BY <2>1, <2>3, <2>5, <3>1, <3>2 DEF WithTicks
    <3>4. T(t) \in Nat /\ cursor[t] \in Nat \ {0}
      BY <2>2, <3>1, <3>3, CursorType
    <3>5. cursor'[t] \in 1..Len(TickStreams[t])
      BY <2>5, <3>1, <3>2
    <3>6. TickAt(t, cursor'[t]).timestamp \in Nat
      BY <3>1, <3>5, TickType
    <3>7. CASE t = s
      <4>1. TickAt(s, cursor[s] + 1).timestamp >= T(s)
        BY <2>3, <2>5, <3>1, <3>4, <3>7, TickOrder
      <4> QED BY <2>5, <3>3, <3>4, <3>6, <3>7, <4>1
    <3>8. CASE t # s
      BY <2>5, <3>1, <3>3, <3>4, <3>8
    <3> QED BY <3>7, <3>8
  <2>7. \A t \in WithTicks(cursor) : T(s) <= T(t)
    <3> SUFFICES ASSUME NEW t \in WithTicks(cursor)
                 PROVE  T(s) <= T(t)
      OBVIOUS
    <3>1. T(t) \in Nat
      BY <2>2, CursorType
    <3>2. Before(cursor, s, t)
      BY <2>1
    <3> QED BY <2>3, <3>1, <3>2 DEF Before
  <2>8. \A t \in WithTicks(cursor) : T(t) \in Nat /\ T(t) >= timestamp
    BY <2>2, CursorType DEF LoopInv, QueueOrder, NothingOverdue
  <2>9. \A item \in pq : item.unit = "NewTick" => \A t \in WithTicks(cursor) : item.time <= T(t)
    BY DEF LoopInv, QueueOrder, QueueAhead
  <2>10. \A item \in pq : item.time \in Nat /\ item.time >= timestamp
    BY DEF LoopInv, QueueOrder, NothingOverdue
  <2>11. timestamp \in Nat /\ pq' = pq \cup {new}
    BY <2>1 DEF LoopInv
  <2>12. TickUnitsValid'
    BY <2>3, <2>4, <2>11 DEF LoopInv, QueueOrder, TickUnitsValid
  <2> HIDE DEF T, new
  <2>13. NothingOverdue'
    <3>1. \A item \in pq' : item.time >= timestamp'
      BY <2>1, <2>4, <2>8, <2>10, <2>11
    <3>2. \A t \in WithTicks(cursor') : TickAt(t, cursor'[t]).timestamp >= timestamp'
      BY <2>6, <2>8, <2>11
    <3> QED BY <3>1, <3>2 DEF NothingOverdue
  <2>14. QueueAhead'
    <3>1. ASSUME NEW item \in pq', item.unit = "NewTick", NEW t \in WithTicks(cursor')
          PROVE  item.time <= TickAt(t, cursor'[t]).timestamp
      <4>1. item.time \in Nat /\ item.time <= T(t)
        BY <2>3, <2>4, <2>6, <2>7, <2>9, <2>10, <2>11, <3>1
      <4> QED BY <2>6, <2>8, <4>1
    <3>2. new \in pq' /\ new.unit = "NewTick"
      BY <2>4, <2>11
    <3> QED BY <3>1, <3>2 DEF QueueAhead
  <2>15. \A item \in pq' : item.time \in Nat
    BY <2>3, <2>4, <2>10, <2>11
  <2> QED BY <2>5, <2>11, <2>12, <2>13, <2>14, <2>15 DEF LoopInv, QueueOrder
<1> QED BY <1>1, <1>2

(***************************************************************************)
(* What tick_sim_loop pops is not in the past and no later than any tick   *)
(* still inside a stream; a popped tick comes from the queue.              *)
(***************************************************************************)
LEMMA PopFacts ==
    ASSUME LoopInv, NEW item, Pop(item)
    PROVE  /\ item.time \in Nat /\ item.time >= timestamp
           /\ \A s \in WithTicks(cursor) : item.time <= TickAt(s, cursor[s]).timestamp
           /\ item.unit = "NewTick" => item \in pq
           /\ \A other \in Queue : other.time \in Nat /\ item.time <= other.time
           /\ \A other \in Queue : other.unit = "NewTick" => other \in pq
<1>1. \A i : ActionUnit(i, timestamp).time = timestamp + ExecutionDelay
             /\ ActionUnit(i, timestamp).unit = "ActionComplete"
  BY DEF ActionUnit
<1>2. \A other \in Queue : other.time \in Nat /\ other.time >= timestamp
  BY <1>1, LoopAssumption DEF Queue, LoopInv, QueueOrder, NothingOverdue
<1>3. \A other \in Queue : other.unit = "NewTick" => other \in pq
  BY <1>1 DEF Queue
<1>4. item \in Queue /\ \A other \in Queue : item.time <= other.time
  BY DEF Pop
<1>5. ASSUME NEW s \in WithTicks(cursor)
      PROVE  item.time <= TickAt(s, cursor[s]).timestamp
  <2>1. PICK tick \in pq : tick.unit = "NewTick"
    BY DEF LoopInv, QueueOrder, QueueAhead, Pop, LoopReady
  <2>2. tick.time <= TickAt(s, cursor[s]).timestamp /\ tick.time \in Nat
    BY <2>1 DEF LoopInv, QueueOrder, QueueAhead
  <2>3. item.time <= tick.time
    BY <1>4 DEF Queue
  <2>4. TickAt(s, cursor[s]).timestamp \in Nat
    BY CursorType DEF LoopInv
  <2> QED BY <1>2, <1>4, <2>2, <2>3, <2>4
<1> QED BY <1>2, <1>3, <1>4, <1>5

(***************************************************************************)
(* Popping a unit and queueing what follows from it, no tick and nothing   *)
(* in the past, preserves the invariant.                                   *)
(***************************************************************************)
LEMMA PopInv ==
    ASSUME LoopInv, NEW item, Pop(item), NEW new,
           pq' = (Queue \ {item}) \cup new,
           \A n \in new : n.unit # "NewTick" /\ n.time \in Nat /\ n.time >= item.time,
           item.unit = "NewTick" => ticking' # None,
           cursor' = cursor, in_loop' = in_loop
    PROVE  LoopInv'
<1>1. timestamp' = item.time /\ ticking = None
  BY DEF Pop, LoopReady
<1>2. \A n \in pq' : n.time \in Nat /\ n.time >= item.time
  BY PopFacts
<1>3. \A n \in pq' : n.unit = "NewTick" => n \in pq
  BY PopFacts
<1>4. NothingOverdue'
  <2>1. ASSUME NEW s \in WithTicks(cursor')
        PROVE  TickAt(s, cursor'[s]).timestamp >= timestamp'
    <3>1. s \in WithTicks(cursor)
      OBVIOUS
    <3>2. item.time <= TickAt(s, cursor[s]).timestamp /\ item.time \in Nat
      BY <3>1, PopFacts
    <3>3. TickAt(s, cursor[s]).timestamp \in Nat
      BY <3>1, CursorType DEF LoopInv
    <3> QED BY <1>1, <3>2, <3>3
  <2> QED BY <1>1, <1>2, <2>1 DEF NothingOverdue
<1>5. TickUnitsValid'
  BY <1>3 DEF LoopInv, QueueOrder, TickUnitsValid
<1>6. QueueAhead'
  <2>1. ASSUME NEW n \in pq', n.unit = "NewTick", NEW s \in WithTicks(cursor')
        PROVE  n.time <= TickAt(s, cursor'[s]).timestamp
    BY <1>3, <2>1 DEF LoopInv, QueueOrder, QueueAhead
  <2>2. ASSUME in_loop', ticking' = None, WithTicks(cursor') # {}
        PROVE  \E n \in pq' : n.unit = "NewTick"
    <3>1. PICK n \in pq : n.unit = "NewTick"
      BY <1>1, <2>2 DEF LoopInv, QueueOrder, QueueAhead
    <3>2. n # item /\ n \in Queue
      BY <2>2, <3>1 DEF Queue
    <3> QED BY <3>1, <3>2
  <2> QED BY <2>1, <2>2 DEF QueueAhead
<1>7. timestamp' \in Nat
  BY <1>1, PopFacts
<1> QED BY <1>2, <1>4, <1>5, <1>6, <1>7 DEF LoopInv, QueueOrder

(***************************************************************************)
(* A step that leaves queue, streams and clock alone preserves the         *)
(* invariant, if it does not make the loop ready.                          *)
(***************************************************************************)
LEMMA QueueUntouched ==
    ASSUME LoopInv, UNCHANGED <<timestamp, pq, cursor, in_loop>>,
           ticking' = ticking \/ ticking' # None
    PROVE  LoopInv'
BY DEF LoopInv, QueueOrder, TickUnitsValid, NothingOverdue, QueueAhead

-----------------------------------------------------------------------------
(* The steps of the loop *)

(***************************************************************************)
(* The notifications an action leaves behind are due a ping later.         *)
(***************************************************************************)
LEMMA NotifiedFacts ==
    ASSUME NEW id, NEW t \in Nat, NEW n \in Notified(id, t)
    PROVE  n.unit # "NewTick" /\ n.time \in Nat /\ n.time >= t
BY LoopAssumption DEF Notified, NotificationUnit

(***************************************************************************)
(* The broker's part of tick_positions keeps working on the same symbol.   *)
(***************************************************************************)
LEMMA TickStepFacts ==
    ASSUME NEW u \in Uuids, TickStep(u)
    PROVE  /\ TickPositions
           /\ ticking' = ticking
           /\ UNCHANGED <<timestamp, pq, cursor, in_loop>>
BY DEF TickStep, OpenPending, FillOrder, CloseOpen, ClosePosition, Crash, TickPositions

(***************************************************************************)
(* One step of tick_sim_loop: it keeps the queue in order, is a step of    *)
(* the broker, and does not turn the clock back.                           *)
(***************************************************************************)
LEMMA TickSimLoopStep ==
    ASSUME LoopInv, TickSimLoop
    PROVE  LoopInv' /\ [Next]_vars /\ timestamp' >= timestamp
<1>0. timestamp \in Nat
  BY DEF LoopInv
<1>1. ASSUME NEW item \in Queue, PopNewTick(item)
      PROVE  LoopInv' /\ [Next]_vars /\ timestamp' >= timestamp
  <2> DEFINE s == item.symbol
             unit == ClientTickUnit(s, item.index)
             new == {unit}
  <2>1. Pop(item) /\ item.unit = "NewTick"
    BY <1>1 DEF PopNewTick
  <2>2. item \in pq /\ item.time \in Nat /\ item.time >= timestamp
    BY <2>1, PopFacts
  <2>3. /\ s \in Symbols
        /\ item.index \in 1..Len(TickStreams[s])
        /\ item.time = TickAt(s, item.index).timestamp
    BY <2>1, <2>2 DEF LoopInv, QueueOrder, TickUnitsValid
  <2>4. TickAt(s, item.index).quote \in Ticks
    BY <2>3, TickType
  <2>5. NewTick(s, TickAt(s, item.index).quote)
    BY <1>1 DEF PopNewTick
  <2>6. Next
    BY <2>3, <2>4, <2>5, LoopAssumption DEF Next
  <2>7. ticking' # None
    BY <2>3, <2>5, SymbolAssumption DEF NewTick
  <2>8. \A n \in new : n.unit # "NewTick" /\ n.time \in Nat /\ n.time >= item.time
    BY <2>2, <2>3, LoopAssumption DEF ClientTickUnit
  <2>9. pq' = (Queue \ {item}) \cup new /\ cursor' = cursor /\ in_loop' = in_loop
    BY <1>1 DEF PopNewTick
  <2> HIDE DEF new
  <2>10. LoopInv'
    BY <2>1, <2>7, <2>8, <2>9, PopInv
  <2>11. timestamp' >= timestamp
    BY <2>1, <2>2 DEF Pop
  <2> QED BY <2>6, <2>10, <2>11
<1>2. ASSUME NEW item \in Queue,
             PopClientTick(item) \/ PopResponse(item) \/ PopNotification(item)
      PROVE  LoopInv' /\ [Next]_vars /\ timestamp' >= timestamp
  <2> DEFINE new == {}
  <2>1. /\ Pop(item) /\ item.unit # "NewTick"
        /\ pq' = (Queue \ {item}) \cup new
        /\ cursor' = cursor /\ in_loop' = in_loop
        /\ UNCHANGED vars
    BY <1>2 DEF PopClientTick, PopResponse, PopNotification
  <2>2. \A n \in new : n.unit # "NewTick" /\ n.time \in Nat /\ n.time >= item.time
    OBVIOUS
  <2> HIDE DEF new
  <2>3. LoopInv'
    BY <2>1, <2>2, PopInv
  <2>4. timestamp' >= timestamp
    BY <2>1, PopFacts DEF Pop
  <2> QED BY <2>1, <2>3, <2>4
<1>3. ASSUME NEW item \in Queue, PopAction(item)
      PROVE  LoopInv' /\ [Next]_vars /\ timestamp' >= timestamp
  <2> DEFINE answer == IF Running' THEN {ResponseUnit(item.id, timestamp', reply')} ELSE {}
             new == Notified(item.id, timestamp') \cup answer
  <2>1. /\ Pop(item) /\ item.unit # "NewTick"
        /\ pq' = (Queue \ {item}) \cup new
        /\ cursor' = cursor /\ in_loop' = in_loop
        /\ ExecAction
    BY <1>3 DEF PopAction
  <2>2. item.time \in Nat /\ item.time >= timestamp /\ timestamp' = item.time
    BY <2>1, PopFacts DEF Pop
  <2>3. \A n \in answer : n.unit # "NewTick" /\ n.time \in Nat /\ n.time >= item.time
    BY <2>2, LoopAssumption DEF ResponseUnit
  <2>4. \A n \in Notified(item.id, timestamp') :
           n.unit # "NewTick" /\ n.time \in Nat /\ n.time >= item.time
    BY <2>2, NotifiedFacts
  <2>5. \A n \in new : n.unit # "NewTick" /\ n.time \in Nat /\ n.time >= item.time
    BY <2>3, <2>4
  <2> HIDE DEF new
  <2>6. LoopInv'
    BY <2>1, <2>5, PopInv
  <2> QED BY <2>1, <2>2, <2>6 DEF Next
<1>4. CASE PopNothing \/ TickOverflow
  <2>1. UNCHANGED <<vars, timestamp, pq, cursor, in_loop>>
    BY <1>4 DEF PopNothing, TickOverflow, Halt
  <2>2. ticking' = ticking
    BY <2>1 DEF vars
  <2> QED BY <1>0, <2>1, <2>2, QueueUntouched
<1>5. ASSUME NEW u \in Uuids, TickStep(u)
      PROVE  LoopInv' /\ [Next]_vars /\ timestamp' >= timestamp
  BY <1>0, <1>5, TickStepFacts, QueueUntouched DEF Next
<1>6. CASE FinishTick
  <2>1. PushNextTick(pq) /\ timestamp' = timestamp /\ TickDone
    BY <1>6 DEF FinishTick
  <2>2. LoopInv'
    BY <2>1, PushInv
  <2> QED BY <1>0, <2>1, <2>2 DEF Next, TickPositions
<1> QED BY <1>1, <1>2, <1>3, <1>4, <1>5, <1>6 DEF TickSimLoop

(***************************************************************************)
(* So is every other step: actions before the loop, filling the queue, and *)
(* what the driver and the strategy do.                                    *)
(***************************************************************************)
LEMMA LoopNextStep ==
    ASSUME LoopInv, [LoopNext]_<<vars, loop>>
    PROVE  LoopInv' /\ [Next]_vars /\ timestamp' >= timestamp
<1>0. timestamp \in Nat
  BY DEF LoopInv
<1>1. CASE ExecuteBeforeLoop
  <2> DEFINE id == Cardinality(DOMAIN sent_at) + 1
  <2>1. /\ pq' = pq \cup Notified(id, timestamp)
        /\ UNCHANGED <<timestamp, cursor, in_loop>> /\ ~in_loop
        /\ ExecAction
    BY <1>1 DEF ExecuteBeforeLoop
  <2> HIDE DEF id
  <2>2. \A n \in Notified(id, timestamp) :
           n.unit # "NewTick" /\ n.time \in Nat /\ n.time >= timestamp
    BY <1>0, NotifiedFacts
  <2>3. LoopInv'
    BY <2>1, <2>2 DEF LoopInv, QueueOrder, TickUnitsValid, NothingOverdue, QueueAhead
  <2> QED BY <1>0, <2>1, <2>3 DEF Next
<1>2. CASE PrimeQueue
  <2>1. CASE WithTicks(cursor) = {}
    <3>1. UNCHANGED <<vars, timestamp, pq, cursor, in_loop>>
      BY <1>2, <2>1 DEF PrimeQueue, Halt
    <3>2. ticking' = ticking
      BY <3>1 DEF vars
    <3> QED BY <1>0, <3>1, <3>2, QueueUntouched
  <2>2. CASE WithTicks(cursor) # {}
    <3>1. PushNextTick(pq) /\ timestamp' = timestamp /\ UNCHANGED vars
      BY <1>2, <2>2 DEF PrimeQueue
    <3> QED BY <1>0, <3>1, PushInv
  <2> QED BY <2>1, <2>2
<1>3. CASE TickSimLoop
  BY <1>3, TickSimLoopStep
<1>4. CASE Ignore \/ Submit \/ UNCHANGED <<vars, loop>>
  <2>1. UNCHANGED <<vars, timestamp, pq, cursor, in_loop>>
    BY <1>4 DEF Ignore, Submit, loop
  <2>2. ticking' = ticking
    BY <2>1 DEF vars
  <2> QED BY <1>0, <2>1, <2>2, QueueUntouched
<1> QED BY <1>1, <1>2, <1>3, <1>4 DEF LoopNext

(***************************************************************************)
(* Before the loop starts the queue is empty and each stream stands at its *)
(* second tick.                                                            *)
(***************************************************************************)
LEMMA LoopInitInv ==
    ASSUME LoopInit
    PROVE  LoopInv
<1>1. timestamp = 0 /\ pq = {} /\ cursor = [s \in Symbols |-> 2] /\ in_loop = FALSE
  BY DEF LoopInit
<1>2. cursor \in [Symbols -> Nat \ {0}]
  BY <1>1
<1>3. \A s \in WithTicks(cursor) : TickAt(s, cursor[s]).timestamp \in Nat
  BY <1>2, CursorType
<1>4. \A s \in WithTicks(cursor) : TickAt(s, cursor[s]).timestamp >= timestamp
  <2>1. timestamp = 0
    BY <1>1
  <2> QED BY <1>3, <2>1
<1> QED
  BY <1>1, <1>2, <1>4 DEF LoopInv, QueueOrder, TickUnitsValid, NothingOverdue, QueueAhead

-----------------------------------------------------------------------------
(* The queue and the clock *)

(***************************************************************************)
(* In every simulation the queue holds the earliest tick still to come and *)
(* nothing overdue.                                                        *)
(***************************************************************************)
THEOREM QueueInOrder == LoopSpec => []QueueOrder
<1>1. LoopInit => LoopInv
  BY LoopInitInv
<1>2. LoopInv /\ [LoopNext]_<<vars, loop>> => LoopInv'
  BY LoopNextStep
<1>3. LoopInv => QueueOrder
  BY DEF LoopInv
<1> QED BY <1>1, <1>2, <1>3, PTL DEF LoopSpec

(***************************************************************************)
(* The clock of the simulation never goes back.                            *)
(***************************************************************************)
THEOREM ClockNeverGoesBack == LoopSpec => ClockMonotone
<1>1. LoopInit => LoopInv
  BY LoopInitInv
<1>2. LoopInv /\ [LoopNext]_<<vars, loop>> => LoopInv'
  BY LoopNextStep
<1>3. LoopInv /\ [LoopNext]_<<vars, loop>> => [timestamp' >= timestamp]_<<vars, loop>>
  BY LoopNextStep
<1> QED BY <1>1, <1>2, <1>3, PTL DEF LoopSpec, ClockMonotone

(***************************************************************************)
(* The broker inside the loop is the broker: the loop implements SimBroker.*)
(***************************************************************************)
THEOREM LoopImplementsBroker == LoopSpec => RefinesBroker
<1>1. LoopInit => LoopInv /\ Init
  BY LoopInitInv DEF LoopInit
<1>2. LoopInv /\ [LoopNext]_<<vars, loop>> => LoopInv' /\ [Next]_vars
  BY LoopNextStep
<1> QED BY <1>1, <1>2, PTL DEF LoopSpec, RefinesBroker, Spec

(***************************************************************************)
(* Hence ledger and cache stay coherent throughout a simulation, whatever  *)
(* the interleaving of ticks and delayed actions.                          *)
(***************************************************************************)
THEOREM LoopBooksCoherent == LoopSpec => []IInv
BY LoopImplementsBroker, BooksCoherent, PTL DEF RefinesBroker

-----------------------------------------------------------------------------
(* The way of the ticks                                                    *)
(*                                                                         *)
(* Every tick of a symbol that has left its stream stands somewhere on its *)
(* way: the strategy has received it (1), it is in the output buffer (2),  *)
(* it travels to the client (3) or waits for the broker (4), and an        *)
(* earlier tick is never behind a later one.  The broker trades at the     *)
(* last tick that passed it, and none that passed it is later than that    *)
(* one.  The tick that moves on is the earliest of its stage, because the  *)
(* queue hands out the earliest unit; ticks of the same time go in any     *)
(* order.                                                                  *)

\* tick i of symbol s is in the output buffer
Buffered(s, i) == \E j \in DOMAIN buffer : buffer[j] = TickOutput(s, i)

\* units of the queue that carry a tick
TickUnits(q) == {item \in q : item.unit \in {"NewTick", "ClientTick"}}

\* the ticks of s that have left its stream
Departed(s) == 2..(cursor[s] - 1)

Sooner(s, i, j) == TickAt(s, i).timestamp < TickAt(s, j).timestamp

InStep(s, at) == \A i, j \in Departed(s) : Sooner(s, i, j) => at[i] <= at[j]

\* at tells where each tick of s is, last is the last one that reached the broker
Road(s, at, last) ==
    /\ last \in 1..(cursor[s] - 1)
    /\ \A i \in Departed(s) :
          /\ i \in seen[s] <=> at[i] = 1
          /\ Buffered(s, i) <=> at[i] = 2
          /\ ClientTickUnit(s, i) \in pq <=> at[i] = 3
          /\ NewTickUnit(s, i) \in pq <=> at[i] = 4
          /\ at[i] # 4 => last # 1 /\ ~ Sooner(s, last, i)
    /\ InStep(s, at)
    /\ price[s] = IF last = 1 THEN ZeroQuote ELSE TickAt(s, last).quote

TicksOnRoad == \A s \in Symbols : \E at \in [Nat -> 1..4] : \E last \in Nat : Road(s, at, last)

UnitsShaped ==
    \A item \in pq :
        /\ item.unit \in UnitKinds
        /\ item.unit \in {"NewTick", "ClientTick"} =>
              /\ item.symbol \in Symbols
              /\ item.index \in Departed(item.symbol)
        /\ item.unit = "NewTick" => item = NewTickUnit(item.symbol, item.index)
        /\ item.unit = "ClientTick" => item = ClientTickUnit(item.symbol, item.index)

IsSequence(q) == Len(q) \in Nat /\ q \in Seq({q[i] : i \in DOMAIN q})

\* a tick is alone in the buffer, and the broker is not at work then
BufferShaped ==
    \/ \E s \in Symbols : \E i \in Departed(s) : buffer = <<TickOutput(s, i)>> /\ ticking = None
    \/ IsSequence(buffer) /\ \A j \in DOMAIN buffer : buffer[j].out = "Pushstream"

RoadTypes ==
    /\ cursor \in [Symbols -> Nat]
    /\ seen \in [Symbols -> SUBSET Nat]
    /\ price \in [Symbols -> Quotes]
    /\ \A s \in Symbols : /\ cursor[s] >= 2 /\ cursor[s] <= Len(TickStreams[s]) + 1
                          /\ seen[s] \subseteq Departed(s)

RoadInv == RoadTypes /\ UnitsShaped /\ BufferShaped /\ TicksOnRoad

(***************************************************************************)
(* The timestamps of a stream never go back, also over more than one tick. *)
(***************************************************************************)
LEMMA TickSooner ==
    ASSUME NEW s \in Symbols, NEW i \in 1..Len(TickStreams[s]),
           NEW j \in 1..Len(TickStreams[s]), i < j
    PROVE  ~ Sooner(s, j, i)
<1> DEFINE T(k) == TickAt(s, k).timestamp
           back == {k \in 1..Len(TickStreams[s]) : i < k /\ ~ (T(i) <= T(k))}
<1>1. Len(TickStreams[s]) \in Nat
  BY StreamAssumption
<1>2. \A k \in 1..Len(TickStreams[s]) : T(k) \in Nat
  BY TickType
<1>3. back = {}
  <2> SUFFICES ASSUME back # {} PROVE FALSE
    OBVIOUS
  <2>1. back \subseteq Nat
    BY <1>1
  <2>2. PICK k \in back : \A m \in back : k <= m
    BY <2>1, FirstPlace
  <2>3. k \in 2..Len(TickStreams[s]) /\ i < k /\ ~ (T(i) <= T(k)) /\ k - 1 \in Nat \ {0}
    BY <1>1
  <2>4. T(k - 1) <= T(k)
    <3>1. (k - 1) + 1 = k
      BY <2>3
    <3> QED BY <1>1, <2>3, <3>1, TickOrder
  <2>5. k - 1 \notin back /\ k - 1 \in 1..Len(TickStreams[s])
    BY <1>1, <2>1, <2>2, <2>3
  <2>6. T(k - 1) \in Nat /\ T(k) \in Nat /\ T(i) \in Nat
    BY <1>2, <2>3, <2>5
  <2>7. k - 1 = i \/ T(i) <= T(k - 1)
    BY <2>3, <2>5
  <2> QED BY <2>3, <2>4, <2>6, <2>7
<1>4. T(i) \in Nat /\ T(j) \in Nat
  BY <1>2
<1> HIDE DEF T
<1>5. i < j /\ j \notin back => T(i) <= T(j)
  OBVIOUS
<1>6. ~ (T(j) < T(i))
  BY <1>3, <1>4, <1>5
<1> QED BY <1>6 DEF T, Sooner

(***************************************************************************)
(* The ticks that have left a stream are ticks of it.                      *)
(***************************************************************************)
LEMMA DepartedTicks ==
    ASSUME RoadTypes, NEW s \in Symbols, NEW i \in Departed(s)
    PROVE  /\ i \in Nat /\ i # 1 /\ i < cursor[s] /\ i \in 1..Len(TickStreams[s])
           /\ TickAt(s, i).timestamp \in Nat
<1>1. cursor[s] \in Nat /\ cursor[s] <= Len(TickStreams[s]) + 1 /\ Len(TickStreams[s]) \in Nat
  BY StreamAssumption DEF RoadTypes
<1>2. i \in Nat /\ i # 1 /\ i < cursor[s] /\ i \in 1..Len(TickStreams[s])
  BY <1>1 DEF Departed
<1> QED BY <1>2, TickType

(***************************************************************************)
(* No request of the client changes a price or starts a price update.      *)
(***************************************************************************)
LEMMA ExecActionPrices ==
    ASSUME ExecAction
    PROVE  price' = price /\ ticking' = ticking
<1> DEFINE Kept == price' = price /\ ticking' = ticking
<1>1. \A cause : Crash(cause) => Kept
  BY DEF Crash
<1>2. \A res : Answer(res) => Kept
  BY DEF Answer
<1>3. \A e : Reject(e) => Kept
  BY <1>2, Zenon DEF Reject
<1>4. ASSUME NEW acct, NEW s, NEW long, NEW size, NEW stop, NEW tp,
             MarketOpen(acct, s, long, size, stop, tp)
      PROVE  Kept
  <2> HIDE DEF Kept
  <2>1. Reject(CheckSanity([symbol |-> s, size |-> size,
                            price |-> IF long THEN price[s].ask ELSE price[s].bid,
                            long |-> long, stop |-> stop, take_profit |-> tp,
                            execution_price |-> IF long THEN price[s].ask ELSE price[s].bid]))
        => Kept
    BY <1>3
  <2>2. UNCHANGED <<price, pending_positions, closed_positions, pending_cache, ticking, panic>>
        => Kept
    BY DEF Kept
  <2> QED BY <1>1, <1>3, <1>4, <2>1, <2>2, Zenon DEF MarketOpen
<1>5. ASSUME NEW acct, NEW u, NEW stop, NEW tp, SetExits(acct, u, stop, tp)
      PROVE  Kept
  BY <1>1, <1>3, <1>5 DEF SetExits
<1>6. ASSUME NEW acct, NEW s, NEW long, NEW size, NEW stop, NEW tp, NEW limit_price,
             LimitOrder(acct, s, long, size, stop, tp, limit_price)
      PROVE  Kept
  <2> HIDE DEF Kept
  <2>1. UNCHANGED <<price, open_positions, closed_positions, open_cache, ticking, panic>>
        => Kept
    BY DEF Kept
  <2> QED BY <1>1, <1>3, <1>4, <1>6, <2>1, Zenon DEF LimitOrder
<1>7. ASSUME NEW acct, NEW u, NEW size, MarketClose(acct, u, size)
      PROVE  Kept
  BY <1>1, <1>3, <1>7 DEF MarketClose
<1>8. ASSUME NEW acct, NEW u, NEW size, NEW entry_price, NEW stop, NEW tp,
             ModifyOrder(acct, u, size, entry_price, stop, tp)
      PROVE  Kept
  BY <1>1, <1>3, <1>8 DEF ModifyOrder
<1>9. ASSUME NEW acct, NEW u, CancelOrder(acct, u)
      PROVE  Kept
  BY <1>1, <1>3, <1>9 DEF CancelOrder
<1>10. ASSUME NEW acct, GetLedger(acct)
       PROVE  Kept
  BY <1>2, <1>3, <1>10 DEF GetLedger
<1>11. ASSUME OrderUnknownSymbol \/ Ping \/ ListAccounts \/ Disconnect
       PROVE  Kept
  BY <1>1, <1>2, <1>3, <1>11 DEF OrderUnknownSymbol, Ping, ListAccounts, Disconnect
<1> HIDE DEF Kept
<1>12. Kept
  BY <1>4, <1>5, <1>6, <1>7, <1>8, <1>9, <1>10, <1>11
     DEF ExecAction, MarketOrder, ModifyPosition, LimitClose
<1> QED BY <1>12 DEF Kept

(***************************************************************************)
(* A unit that carries a tick is in the queue if it is among those that do.*)
(***************************************************************************)
LEMMA TickUnitIn ==
    ASSUME NEW q, NEW s, NEW i
    PROVE  /\ NewTickUnit(s, i) \in q <=> NewTickUnit(s, i) \in TickUnits(q)
           /\ ClientTickUnit(s, i) \in q <=> ClientTickUnit(s, i) \in TickUnits(q)
BY DEF TickUnits, NewTickUnit, ClientTickUnit

(***************************************************************************)
(* A step that moves no tick and changes no price leaves the road as it is.*)
(***************************************************************************)
LEMMA RoadSame ==
    ASSUME RoadInv, UNCHANGED <<seen, cursor, price>>,
           TickUnits(pq') = TickUnits(pq), \A item \in pq' : item.unit \in UnitKinds,
           BufferShaped',
           \A s \in Symbols, i \in Nat : Buffered(s, i)' <=> Buffered(s, i)
    PROVE  RoadInv'
<1>1. RoadTypes'
  BY DEF RoadInv, RoadTypes, Departed
<1>2. UnitsShaped'
  <2>1. \A item \in pq' : item.unit \in {"NewTick", "ClientTick"} => item \in pq
    BY DEF TickUnits
  <2> QED BY <2>1 DEF RoadInv, UnitsShaped, Departed
<1>3. TicksOnRoad'
  <2> SUFFICES ASSUME NEW s \in Symbols
               PROVE  \E at \in [Nat -> 1..4] : \E last \in Nat : Road(s, at, last)'
    BY DEF TicksOnRoad
  <2>1. PICK at \in [Nat -> 1..4], last \in Nat : Road(s, at, last)
    BY DEF RoadInv, TicksOnRoad
  <2>2. ASSUME NEW i \in Departed(s)
        PROVE  /\ ClientTickUnit(s, i) \in pq' <=> ClientTickUnit(s, i) \in pq
               /\ NewTickUnit(s, i) \in pq' <=> NewTickUnit(s, i) \in pq
               /\ Buffered(s, i)' <=> Buffered(s, i)
    <3>1. i \in Nat
      BY DepartedTicks DEF RoadInv
    <3> QED BY <3>1, TickUnitIn, Zenon
  <2>3. Departed(s)' = Departed(s) /\ InStep(s, at)'
    BY <2>1 DEF Departed, Road, InStep
  <2>4. Road(s, at, last)'
    BY <2>1, <2>2, <2>3 DEF Road
  <2> QED BY <2>4
<1> QED BY <1>1, <1>2, <1>3 DEF RoadInv

(***************************************************************************)
(* A tick moves from one stage of its way to the next: the order is kept   *)
(* if it was the earliest there and no other stands in between.            *)
(***************************************************************************)
LEMMA MovesInStep ==
    ASSUME RoadTypes, NEW s \in Symbols, NEW at \in [Nat -> 1..4], InStep(s, at),
           NEW i \in Departed(s), NEW k \in 1..3, at[i] = k + 1,
           \A j \in Departed(s) : at[j] = at[i] => ~ Sooner(s, j, i)
    PROVE  /\ InStep(s, [at EXCEPT ![i] = k]) /\ [at EXCEPT ![i] = k] \in [Nat -> 1..4]
           /\ \A j \in Nat : [at EXCEPT ![i] = k][j] = IF j = i THEN k ELSE at[j]
<1> DEFINE moved == [at EXCEPT ![i] = k]
<1>1. \A j \in Departed(s) : j \in Nat /\ TickAt(s, j).timestamp \in Nat
  BY DepartedTicks
<1>2. moved \in [Nat -> 1..4] /\ \A j \in Nat : moved[j] = IF j = i THEN k ELSE at[j]
  BY <1>1
<1> HIDE DEF moved
<1>3. ASSUME NEW j \in Departed(s), NEW l \in Departed(s), Sooner(s, j, l)
      PROVE  moved[j] <= moved[l]
  <2>1. at[j] <= at[l] /\ at[j] \in 1..4 /\ at[l] \in 1..4
    BY <1>1, <1>3 DEF InStep
  <2>2. j # l
    BY <1>1, <1>3 DEF Sooner
  <2>3. moved[j] = (IF j = i THEN k ELSE at[j]) /\ moved[l] = (IF l = i THEN k ELSE at[l])
    BY <1>1, <1>2
  <2>4. l = i => at[j] # at[i]
    BY <1>3
  <2> QED BY <2>1, <2>2, <2>3, <2>4
<1>4. InStep(s, moved)
  BY <1>3 DEF InStep
<1> QED BY <1>2, <1>4 DEF moved

(***************************************************************************)
(* A tick in the buffer and messages of the broker.                        *)
(***************************************************************************)
LEMMA BufferedFacts ==
    /\ \A s, i : TickOutput(s, i).out = "Tick"
    /\ \A s, i, t, j : TickOutput(s, i) = TickOutput(t, j) <=> s = t /\ i = j
    /\ \A res, t : Pushstream(res, t).out = "Pushstream"
BY DEF TickOutput, Pushstream

(***************************************************************************)
(* When the buffer holds nothing but messages of the broker, or just one   *)
(* tick, it is clear what is in it.                                        *)
(***************************************************************************)
LEMMA NoneBuffered ==
    ASSUME \A j \in DOMAIN buffer : buffer[j].out = "Pushstream"
    PROVE  \A s, i : ~ Buffered(s, i)
BY BufferedFacts DEF Buffered

LEMMA OneBuffered ==
    ASSUME NEW s, NEW i, buffer = <<TickOutput(s, i)>>
    PROVE  \A t, j : Buffered(t, j) <=> t = s /\ j = i
<1>1. DOMAIN buffer = {1} /\ buffer[1] = TickOutput(s, i)
  OBVIOUS
<1>2. \A t, j : Buffered(t, j) <=> TickOutput(s, i) = TickOutput(t, j)
  BY <1>1 DEF Buffered
<1> QED BY <1>2, BufferedFacts

(***************************************************************************)
(* push_next_tick: one symbol's cursor moves on, its tick waits in the     *)
(* queue behind the earlier ones.                                          *)
(***************************************************************************)
LEMMA PushRoad ==
    ASSUME RoadInv, LoopInv, PushNextTick(pq), UNCHANGED <<seen, price, buffer>>,
           ticking' \in {ticking, None}
    PROVE  RoadInv'
<1>1. CASE WithTicks(cursor) = {}
  <2>1. pq' = pq /\ cursor' = cursor
    BY <1>1 DEF PushNextTick
  <2>2. RoadTypes' /\ UnitsShaped' /\ BufferShaped'
    BY <2>1 DEF RoadInv, RoadTypes, UnitsShaped, BufferShaped, Departed
  <2>3. TicksOnRoad'
    BY <2>1 DEF RoadInv, TicksOnRoad, Road, InStep, Departed, Buffered
  <2> QED BY <2>2, <2>3 DEF RoadInv
<1>2. CASE WithTicks(cursor) # {}
  <2>1. PICK s \in WithTicks(cursor) :
            /\ pq' = pq \cup {NewTickUnit(s, cursor[s])}
            /\ cursor' = [cursor EXCEPT ![s] = @ + 1]
    BY <1>2 DEF PushNextTick
  <2>2. PICK c : c = cursor[s]
    OBVIOUS
  <2> DEFINE new == NewTickUnit(s, c)
  <2>3. s \in Symbols /\ c <= Len(TickStreams[s]) /\ Len(TickStreams[s]) \in Nat
    BY <2>1, <2>2, StreamAssumption DEF WithTicks
  <2>4. /\ cursor \in [Symbols -> Nat]
        /\ cursor' \in [Symbols -> Nat] /\ cursor'[s] = c + 1
        /\ \A t \in Symbols \ {s} : cursor'[t] = cursor[t]
    BY <2>1, <2>3, <2>2 DEF RoadInv, RoadTypes
  <2>5. c \in Nat /\ c >= 2 /\ c \in 1..Len(TickStreams[s])
    BY <2>3, <2>4, <2>2 DEF RoadInv, RoadTypes
  <2>6. /\ Departed(s)' = Departed(s) \cup {c} /\ c \notin Departed(s)
        /\ \A t \in Symbols \ {s} : Departed(t)' = Departed(t)
    BY <2>4, <2>5, <2>2 DEF Departed
  <2>7. \A t \in Symbols : Departed(t) \subseteq Departed(t)'
    BY <2>6
  <2>8. RoadTypes'
    <3>1. ASSUME NEW t \in Symbols
          PROVE  /\ cursor'[t] >= 2 /\ cursor'[t] <= Len(TickStreams[t]) + 1
                 /\ seen'[t] \subseteq Departed(t)'
      <4>1. seen'[t] \subseteq Departed(t)'
        BY <2>7 DEF RoadInv, RoadTypes
      <4>2. CASE t = s
        BY <2>3, <2>4, <2>5, <4>1, <4>2
      <4>3. CASE t # s
        BY <2>4, <4>1, <4>3 DEF RoadInv, RoadTypes
      <4> QED BY <4>2, <4>3
    <3>2. seen' \in [Symbols -> SUBSET Nat] /\ price' \in [Symbols -> Quotes]
      BY DEF RoadInv, RoadTypes
    <3> QED BY <2>4, <3>1, <3>2 DEF RoadTypes
  <2>9. /\ new.unit = "NewTick" /\ new.symbol = s /\ new.index = c
        /\ new.unit \in UnitKinds /\ new = NewTickUnit(new.symbol, new.index)
    BY DEF NewTickUnit, UnitKinds
  <2>10. pq' = pq \cup {new}
    BY <2>1, <2>2
  <2>11. \A i \in Departed(s) : i # c
    BY <2>6
  <2>12. UnitsShaped'
    <3>1. ASSUME NEW item \in pq
          PROVE  /\ item.unit \in UnitKinds
                 /\ item.unit \in {"NewTick", "ClientTick"} =>
                       item.symbol \in Symbols /\ item.index \in Departed(item.symbol)'
                 /\ item.unit = "NewTick" => item = NewTickUnit(item.symbol, item.index)
                 /\ item.unit = "ClientTick" => item = ClientTickUnit(item.symbol, item.index)
      BY <2>7 DEF RoadInv, UnitsShaped
    <3>2. new.symbol \in Symbols /\ new.index \in Departed(new.symbol)'
      BY <2>3, <2>6, <2>9
    <3> HIDE DEF new
    <3> QED BY <2>9, <2>10, <3>1, <3>2 DEF UnitsShaped
  <2>13. BufferShaped'
    BY <2>7 DEF RoadInv, BufferShaped
  <2>14. ~ Buffered(s, c) /\ ClientTickUnit(s, c) \notin pq /\ c \notin seen[s]
    <3>1. ClientTickUnit(s, c) \notin pq
      BY <2>11 DEF RoadInv, UnitsShaped, ClientTickUnit
    <3>2. c \notin seen[s]
      BY <2>3, <2>11 DEF RoadInv, RoadTypes
    <3>3. ASSUME NEW r \in Symbols, NEW i \in Departed(r), buffer = <<TickOutput(r, i)>>
          PROVE  ~ Buffered(s, c)
      BY <2>11, <3>3, OneBuffered
    <3>4. ASSUME \A j \in DOMAIN buffer : buffer[j].out = "Pushstream"
          PROVE  ~ Buffered(s, c)
      BY <3>4, NoneBuffered
    <3> QED BY <3>1, <3>2, <3>3, <3>4 DEF RoadInv, BufferShaped
  <2>15. ASSUME NEW t \in Symbols
         PROVE  \E at \in [Nat -> 1..4] : \E last \in Nat : Road(t, at, last)'
    <3>1. PICK at \in [Nat -> 1..4], last \in Nat : Road(t, at, last)
      BY DEF RoadInv, TicksOnRoad
    <3>2. \A i : ClientTickUnit(t, i) \in pq' <=> ClientTickUnit(t, i) \in pq
      BY <2>10 DEF ClientTickUnit, NewTickUnit
    <3>3. \A i : NewTickUnit(t, i) \in pq' <=> NewTickUnit(t, i) \in pq \/ (t = s /\ i = c)
      BY <2>10 DEF NewTickUnit
    <3>4. \A i : Buffered(t, i)' <=> Buffered(t, i)
      BY DEF Buffered
    <3>5. CASE t # s
      <4>1. Departed(t)' = Departed(t) /\ cursor'[t] = cursor[t]
        BY <2>4, <2>6, <3>5
      <4>2. InStep(t, at)'
        BY <3>1, <4>1 DEF Road, InStep
      <4>3. Road(t, at, last)'
        BY <3>1, <3>2, <3>3, <3>4, <3>5, <4>1, <4>2 DEF Road
      <4> QED BY <4>3
    <3>6. CASE t = s
      <4> DEFINE more == [at EXCEPT ![c] = 4]
      <4>1. more \in [Nat -> 1..4] /\ more[c] = 4 /\ \A i \in Nat : i # c => more[i] = at[i]
        BY <2>5
      <4>2. \A i \in Departed(s) : i \in Nat /\ i # c /\ more[i] = at[i]
        BY <2>3, <2>11, <4>1, DepartedTicks DEF RoadInv
      <4> HIDE DEF more
      <4>3. ASSUME NEW i \in Departed(s)'
            PROVE  /\ i \in seen[s] <=> more[i] = 1
                   /\ Buffered(s, i)' <=> more[i] = 2
                   /\ ClientTickUnit(s, i) \in pq' <=> more[i] = 3
                   /\ NewTickUnit(s, i) \in pq' <=> more[i] = 4
                   /\ more[i] # 4 => last # 1 /\ ~ Sooner(s, last, i)
        <5>1. CASE i = c
          BY <2>14, <3>2, <3>3, <3>4, <3>6, <4>1, <5>1
        <5>2. CASE i # c
          <6>1. i \in Departed(s)
            BY <2>6, <5>2
          <6> QED BY <3>1, <3>2, <3>3, <3>4, <3>6, <4>2, <5>2, <6>1 DEF Road
        <5> QED BY <5>1, <5>2
      <4>4. InStep(s, more)'
        <5>1. ASSUME NEW i \in Departed(s)', NEW j \in Departed(s)', Sooner(s, i, j)
              PROVE  more[i] <= more[j]
          <6>1. CASE j = c
            <7>1. i \in Nat
              BY <2>5, <2>6, <4>2
            <7> QED BY <4>1, <6>1, <7>1
          <6>2. CASE j # c /\ i = c
            <7>1. j \in Departed(s)
              BY <2>6, <6>2
            <7>2. j \in 1..Len(TickStreams[s]) /\ j < c
              BY <2>3, <7>1, <2>2, DepartedTicks DEF RoadInv
            <7>3. ~ Sooner(s, c, j)
              BY <2>3, <2>5, <7>2, TickSooner
            <7> QED BY <5>1, <6>2, <7>3
          <6>3. CASE j # c /\ i # c
            <7>1. i \in Departed(s) /\ j \in Departed(s)
              BY <2>6, <6>3
            <7> QED BY <3>1, <3>6, <4>2, <5>1, <7>1 DEF Road, InStep
          <6> QED BY <6>1, <6>2, <6>3
        <5> QED BY <5>1 DEF InStep, Sooner
      <4>5. last \in 1..(cursor'[s] - 1)
        <5>1. last \in 1..(c - 1)
          BY <2>2, <3>1, <3>6 DEF Road
        <5>2. cursor'[s] = c + 1
          BY <2>4
        <5> QED BY <2>5, <5>1, <5>2
      <4>6. Road(s, more, last)'
        BY <3>1, <3>6, <4>3, <4>4, <4>5 DEF Road, Sooner
      <4> QED BY <3>6, <4>1, <4>6
    <3> QED BY <3>5, <3>6
  <2>16. TicksOnRoad'
    BY <2>15 DEF TicksOnRoad
  <2> QED BY <2>8, <2>12, <2>13, <2>16 DEF RoadInv
<1> QED BY <1>1, <1>2

(***************************************************************************)
(* What the strategy submitted adds no tick to the queue; while the loop   *)
(* is ready no tick is in the buffer.                                      *)
(***************************************************************************)
LEMMA QueueFacts ==
    ASSUME RoadInv
    PROVE  /\ TickUnits(Queue) = TickUnits(pq)
           /\ \A item \in Queue : item.unit \in UnitKinds
<1>1. \A i : ActionUnit(i, timestamp).unit = "ActionComplete"
  BY DEF ActionUnit
<1>2. \A item \in pq : item.unit \in UnitKinds
  BY DEF RoadInv, UnitsShaped
<1> QED BY <1>1, <1>2 DEF Queue, TickUnits, UnitKinds

LEMMA EmptyBuffer ==
    ASSUME buffer = <<>>
    PROVE  BufferShaped /\ \A s, i : ~ Buffered(s, i)
<1>1. DOMAIN buffer = {} /\ Len(buffer) = 0 /\ \A S : buffer \in Seq(S)
  OBVIOUS
<1> QED BY <1>1 DEF BufferShaped, IsSequence, Buffered

(***************************************************************************)
(* The tick that is popped is the earliest of its symbol in its stage.     *)
(***************************************************************************)
LEMMA NextToEnter ==
    ASSUME RoadInv, LoopInv, NEW item, Pop(item), item.unit = "NewTick"
    PROVE  /\ item \in pq /\ item = NewTickUnit(item.symbol, item.index)
           /\ item.symbol \in Symbols /\ item.index \in Departed(item.symbol)
           /\ \A j \in Departed(item.symbol) :
                 NewTickUnit(item.symbol, j) \in pq => ~ Sooner(item.symbol, j, item.index)
<1> DEFINE s == item.symbol
           i == item.index
<1>1. item \in pq
  BY PopFacts
<1>2. item = NewTickUnit(s, i) /\ s \in Symbols /\ i \in Departed(s)
  BY <1>1 DEF RoadInv, UnitsShaped
<1> HIDE DEF s, i
<1>3. ASSUME NEW j \in Departed(s), NewTickUnit(s, j) \in pq
      PROVE  ~ Sooner(s, j, i)
  <2>1. item.time <= NewTickUnit(s, j).time
    BY <1>3 DEF Pop, Queue
  <2>2. item.time = TickAt(s, i).timestamp /\ NewTickUnit(s, j).time = TickAt(s, j).timestamp
    BY <1>2 DEF NewTickUnit
  <2>3. TickAt(s, i).timestamp \in Nat /\ TickAt(s, j).timestamp \in Nat
    BY <1>2, DepartedTicks DEF RoadInv
  <2> QED BY <2>1, <2>2, <2>3 DEF Sooner
<1> QED BY <1>1, <1>2, <1>3 DEF s, i

LEMMA NextToArrive ==
    ASSUME RoadInv, LoopInv, NEW item, Pop(item), item.unit = "ClientTick"
    PROVE  /\ item \in pq /\ item = ClientTickUnit(item.symbol, item.index)
           /\ item.symbol \in Symbols /\ item.index \in Departed(item.symbol)
           /\ \A j \in Departed(item.symbol) :
                 ClientTickUnit(item.symbol, j) \in pq => ~ Sooner(item.symbol, j, item.index)
<1> DEFINE s == item.symbol
           i == item.index
<1>1. item \in pq
  <2>1. \A k : ActionUnit(k, timestamp).unit = "ActionComplete"
    BY DEF ActionUnit
  <2> QED BY <2>1 DEF Pop, Queue
<1>2. item = ClientTickUnit(s, i) /\ s \in Symbols /\ i \in Departed(s)
  BY <1>1 DEF RoadInv, UnitsShaped
<1> HIDE DEF s, i
<1>3. ASSUME NEW j \in Departed(s), ClientTickUnit(s, j) \in pq
      PROVE  ~ Sooner(s, j, i)
  <2>1. item.time <= ClientTickUnit(s, j).time
    BY <1>3 DEF Pop, Queue
  <2>2. item.time = TickAt(s, i).timestamp + PingNs
    BY <1>2 DEF ClientTickUnit
  <2>3. ClientTickUnit(s, j).time = TickAt(s, j).timestamp + PingNs
    BY DEF ClientTickUnit
  <2>4. TickAt(s, i).timestamp \in Nat /\ TickAt(s, j).timestamp \in Nat
    BY <1>2, DepartedTicks DEF RoadInv
  <2> QED BY <2>1, <2>2, <2>3, <2>4, LoopAssumption DEF Sooner
<1> QED BY <1>1, <1>2, <1>3 DEF s, i

(***************************************************************************)
(* A tick enters the broker: it sets the price, and goes on to the client. *)
(***************************************************************************)
LEMMA PopNewTickRoad ==
    ASSUME RoadInv, LoopInv, NEW item, PopNewTick(item)
    PROVE  RoadInv'
<1> DEFINE s == item.symbol
           i == item.index
           new == ClientTickUnit(s, i)
<1>1. Pop(item) /\ item.unit = "NewTick"
  BY DEF PopNewTick
<1>2. /\ pq' = (Queue \ {item}) \cup {new}
      /\ UNCHANGED <<cursor, seen, buffer>> /\ buffer = <<>>
      /\ price' = [price EXCEPT ![s] = TickAt(s, i).quote]
  BY <1>1 DEF PopNewTick, NewTick, Pop, LoopReady
<1>3. /\ item \in pq /\ item = NewTickUnit(s, i)
      /\ s \in Symbols /\ i \in Departed(s)
      /\ \A j \in Departed(s) : NewTickUnit(s, j) \in pq => ~ Sooner(s, j, i)
  BY <1>1, NextToEnter
<1>4. /\ i \in Nat /\ i # 1 /\ i < cursor[s] /\ i \in 1..Len(TickStreams[s])
      /\ cursor[s] \in Nat /\ price \in [Symbols -> Quotes]
  BY <1>3, DepartedTicks DEF RoadInv, RoadTypes
<1>5. TickAt(s, i).quote \in Quotes
  BY <1>3, <1>4, TickType, InputAssumption
<1>6. new.unit = "ClientTick" /\ new.symbol = s /\ new.index = i
  BY DEF ClientTickUnit
<1>7. new = ClientTickUnit(new.symbol, new.index)
  BY <1>6, Zenon
<1> HIDE DEF s, i
<1>8. RoadTypes' /\ \A t \in Symbols : Departed(t)' = Departed(t)
  BY <1>2, <1>3, <1>4, <1>5 DEF RoadInv, RoadTypes, Departed
<1>9. UnitsShaped'
  <2>1. \A other \in Queue : other.unit \in {"NewTick", "ClientTick"} => other \in pq
    BY QueueFacts DEF TickUnits
  <2>2. \A other \in Queue : other.unit \in UnitKinds
    BY QueueFacts
  <2>3. "ClientTick" \in UnitKinds
    BY DEF UnitKinds
  <2> HIDE DEF new
  <2>4. \A other \in pq' : other = new \/ other \in Queue
    BY <1>2
  <2> QED BY <1>3, <1>6, <1>7, <1>8, <2>1, <2>2, <2>3, <2>4 DEF RoadInv, UnitsShaped
<1>10. BufferShaped'
  <2>1. buffer' = <<>>
    BY <1>2
  <2>2. DOMAIN buffer' = {} /\ Len(buffer') = 0 /\ \A S : buffer' \in Seq(S)
    BY <2>1
  <2> QED BY <2>2 DEF BufferShaped, IsSequence
<1>11. ASSUME NEW t \in Symbols
       PROVE  \E at \in [Nat -> 1..4] : \E last \in Nat : Road(t, at, last)'
  <2>1. PICK at \in [Nat -> 1..4], last \in Nat : Road(t, at, last)
    BY DEF RoadInv, TicksOnRoad
  <2>2. \A k : ClientTickUnit(t, k) \in pq' <=> ClientTickUnit(t, k) \in pq \/ (t = s /\ k = i)
    <3>1. \A k : ClientTickUnit(t, k) \in Queue <=> ClientTickUnit(t, k) \in pq
      BY QueueFacts, TickUnitIn
    <3>2. \A k : ClientTickUnit(t, k) # item /\ (ClientTickUnit(t, k) = new <=> t = s /\ k = i)
      BY <1>1 DEF ClientTickUnit
    <3> QED BY <1>2, <3>1, <3>2
  <2>3. \A k : NewTickUnit(t, k) \in pq' <=> NewTickUnit(t, k) \in pq /\ ~ (t = s /\ k = i)
    <3>1. \A k : NewTickUnit(t, k) \in Queue <=> NewTickUnit(t, k) \in pq
      BY QueueFacts, TickUnitIn
    <3>2. \A k : NewTickUnit(t, k) # new /\ (NewTickUnit(t, k) = item <=> t = s /\ k = i)
      BY <1>3 DEF ClientTickUnit, NewTickUnit
    <3> QED BY <1>2, <3>1, <3>2
  <2>4. \A k : Buffered(t, k)' <=> Buffered(t, k)
    BY <1>2 DEF Buffered
  <2>5. CASE t # s
    <3>1. price'[t] = price[t]
      BY <1>2, <1>3, <1>4, <2>5
    <3>2. InStep(t, at)'
      BY <1>8, <2>1 DEF Road, InStep
    <3>3. Road(t, at, last)'
      BY <1>2, <1>8, <2>1, <2>2, <2>3, <2>4, <2>5, <3>1, <3>2 DEF Road
    <3> QED BY <3>3
  <2>6. CASE t = s
    <3> DEFINE moved == [at EXCEPT ![i] = 3]
    <3>1. /\ Road(s, at, last) /\ InStep(s, at) /\ at[i] = 4
          /\ \A j \in Departed(s) : at[j] = at[i] => ~ Sooner(s, j, i)
      BY <1>3, <2>1, <2>6 DEF Road
    <3>2. /\ InStep(s, moved) /\ moved \in [Nat -> 1..4]
          /\ \A j \in Nat : moved[j] = IF j = i THEN 3 ELSE at[j]
      <4>1. 3 \in 1..3 /\ at[i] = 3 + 1 /\ RoadTypes
        BY <3>1 DEF RoadInv
      <4> QED BY <1>3, <3>1, <4>1, MovesInStep
    <3> HIDE DEF moved
    <3>3. price'[s] = TickAt(s, i).quote
      BY <1>2, <1>3, <1>4
    <3>4. ASSUME NEW k \in Departed(s)
          PROVE  /\ k \in seen[s] <=> moved[k] = 1
                 /\ Buffered(s, k)' <=> moved[k] = 2
                 /\ ClientTickUnit(s, k) \in pq' <=> moved[k] = 3
                 /\ NewTickUnit(s, k) \in pq' <=> moved[k] = 4
                 /\ moved[k] # 4 => i # 1 /\ ~ Sooner(s, i, k)
      <4>1. k \in Nat /\ TickAt(s, k).timestamp \in Nat
        BY <1>3, DepartedTicks DEF RoadInv
      <4>2. moved[k] = IF k = i THEN 3 ELSE at[k]
        BY <3>2, <4>1
      <4>3. /\ k \in seen[s] <=> at[k] = 1
            /\ Buffered(s, k) <=> at[k] = 2
            /\ ClientTickUnit(s, k) \in pq <=> at[k] = 3
            /\ NewTickUnit(s, k) \in pq <=> at[k] = 4
        BY <3>1 DEF Road
      <4>4. moved[k] # 4 => ~ Sooner(s, i, k)
        <5>1. ASSUME moved[k] # 4, Sooner(s, i, k)
              PROVE  FALSE
          <6>1. k # i
            BY <4>1, <5>1 DEF Sooner
          <6>2. at[i] <= at[k] /\ at[k] \in 1..4
            BY <1>3, <3>1, <4>1, <5>1 DEF InStep
          <6> QED BY <3>1, <4>2, <5>1, <6>1, <6>2
        <5> QED BY <5>1
      <4>5. CASE k = i
        BY <1>4, <2>2, <2>3, <2>4, <2>6, <3>1, <4>2, <4>3, <4>4, <4>5
      <4>6. CASE k # i
        BY <1>4, <2>2, <2>3, <2>4, <2>6, <4>2, <4>3, <4>4, <4>6
      <4> QED BY <4>5, <4>6
    <3>5. i \in 1..(cursor[s] - 1)
      BY <1>4
    <3>6. InStep(s, moved)'
      BY <1>3, <1>8, <3>2 DEF InStep
    <3>7. Road(s, moved, i)'
      BY <1>2, <1>3, <1>4, <1>8, <3>3, <3>4, <3>5, <3>6 DEF Road
    <3> QED BY <1>4, <2>6, <3>2, <3>7
  <2> QED BY <2>5, <2>6
<1>12. TicksOnRoad'
  BY <1>11 DEF TicksOnRoad
<1> QED BY <1>8, <1>9, <1>10, <1>12 DEF RoadInv

(***************************************************************************)
(* A tick arrives at the client: it is alone in the buffer.                *)
(***************************************************************************)
LEMMA PopClientTickRoad ==
    ASSUME RoadInv, LoopInv, NEW item, PopClientTick(item)
    PROVE  RoadInv'
<1> DEFINE s == item.symbol
           i == item.index
<1>1. Pop(item) /\ item.unit = "ClientTick" /\ LoopReady
  BY DEF PopClientTick, Pop
<1>2. /\ pq' = Queue \ {item}
      /\ UNCHANGED <<cursor, seen, price, ticking>> /\ buffer = <<>> /\ ticking = None
      /\ buffer' = <<TickOutput(s, i)>>
  BY <1>1 DEF PopClientTick, LoopReady, vars
<1>3. /\ item \in pq /\ item = ClientTickUnit(s, i)
      /\ s \in Symbols /\ i \in Departed(s)
      /\ \A j \in Departed(s) : ClientTickUnit(s, j) \in pq => ~ Sooner(s, j, i)
  BY <1>1, NextToArrive
<1> HIDE DEF s, i
<1>4. RoadTypes' /\ \A t \in Symbols : Departed(t)' = Departed(t)
  BY <1>2 DEF RoadInv, RoadTypes, Departed
<1>5. UnitsShaped'
  <2>1. \A other \in pq' : other.unit \in {"NewTick", "ClientTick"} => other \in pq
    BY <1>2, QueueFacts DEF TickUnits
  <2>2. \A other \in pq' : other.unit \in UnitKinds
    BY <1>2, QueueFacts
  <2> QED BY <1>4, <2>1, <2>2 DEF RoadInv, UnitsShaped
<1>6. BufferShaped'
  BY <1>2, <1>3, <1>4 DEF BufferShaped
<1>7. ASSUME NEW t \in Symbols
      PROVE  \E at \in [Nat -> 1..4] : \E last \in Nat : Road(t, at, last)'
  <2>1. PICK at \in [Nat -> 1..4], last \in Nat : Road(t, at, last)
    BY DEF RoadInv, TicksOnRoad
  <2>2. \A k : ClientTickUnit(t, k) \in pq' <=> ClientTickUnit(t, k) \in pq /\ ~ (t = s /\ k = i)
    <3>1. \A k : ClientTickUnit(t, k) \in Queue <=> ClientTickUnit(t, k) \in pq
      BY QueueFacts, TickUnitIn
    <3>2. \A k : ClientTickUnit(t, k) = item <=> t = s /\ k = i
      BY <1>3 DEF ClientTickUnit
    <3> QED BY <1>2, <3>1, <3>2
  <2>3. \A k : NewTickUnit(t, k) \in pq' <=> NewTickUnit(t, k) \in pq
    <3>1. \A k : NewTickUnit(t, k) \in Queue <=> NewTickUnit(t, k) \in pq
      BY QueueFacts, TickUnitIn
    <3>2. \A k : NewTickUnit(t, k) # item
      BY <1>1 DEF NewTickUnit
    <3> QED BY <1>2, <3>1, <3>2
  <2>4. \A k : Buffered(t, k)' <=> t = s /\ k = i
    <3>1. DOMAIN buffer' = {1} /\ buffer'[1] = TickOutput(s, i)
      BY <1>2
    <3>2. \A k : Buffered(t, k)' <=> TickOutput(s, i) = TickOutput(t, k)
      BY <3>1 DEF Buffered
    <3> QED BY <3>2, BufferedFacts
  <2>5. \A k : ~ Buffered(t, k)
    BY <1>2, EmptyBuffer
  <2>6. CASE t # s
    <3>1. InStep(t, at)'
      BY <1>4, <2>1 DEF Road, InStep
    <3>2. Road(t, at, last)'
      BY <1>2, <1>4, <2>1, <2>2, <2>3, <2>4, <2>5, <2>6, <3>1 DEF Road
    <3> QED BY <3>2
  <2>7. CASE t = s
    <3> DEFINE moved == [at EXCEPT ![i] = 2]
    <3>1. /\ Road(s, at, last) /\ InStep(s, at) /\ at[i] = 3
          /\ \A j \in Departed(s) : at[j] = at[i] => ~ Sooner(s, j, i)
      BY <1>3, <2>1, <2>7 DEF Road
    <3>2. /\ InStep(s, moved) /\ moved \in [Nat -> 1..4]
          /\ \A j \in Nat : moved[j] = IF j = i THEN 2 ELSE at[j]
      <4>1. 2 \in 1..3 /\ at[i] = 2 + 1 /\ RoadTypes
        BY <3>1 DEF RoadInv
      <4> QED BY <1>3, <3>1, <4>1, MovesInStep
    <3> HIDE DEF moved
    <3>3. ASSUME NEW k \in Departed(s)
          PROVE  /\ k \in seen[s] <=> moved[k] = 1
                 /\ Buffered(s, k)' <=> moved[k] = 2
                 /\ ClientTickUnit(s, k) \in pq' <=> moved[k] = 3
                 /\ NewTickUnit(s, k) \in pq' <=> moved[k] = 4
                 /\ moved[k] # 4 => last # 1 /\ ~ Sooner(s, last, k)
      <4>1. k \in Nat
        BY <1>3, DepartedTicks DEF RoadInv
      <4>2. moved[k] = IF k = i THEN 2 ELSE at[k]
        BY <3>2, <4>1
      <4>3. /\ k \in seen[s] <=> at[k] = 1
            /\ Buffered(s, k) <=> at[k] = 2
            /\ ClientTickUnit(s, k) \in pq <=> at[k] = 3
            /\ NewTickUnit(s, k) \in pq <=> at[k] = 4
            /\ at[k] # 4 => last # 1 /\ ~ Sooner(s, last, k)
        BY <3>1 DEF Road
      <4>4. CASE k = i
        BY <2>2, <2>3, <2>4, <2>5, <2>7, <3>1, <4>2, <4>3, <4>4
      <4>5. CASE k # i
        BY <2>2, <2>3, <2>4, <2>5, <2>7, <4>2, <4>3, <4>5
      <4> QED BY <4>4, <4>5
    <3>4. InStep(s, moved)'
      BY <1>3, <1>4, <3>2 DEF InStep
    <3>5. Road(s, moved, last)'
      BY <1>2, <1>3, <1>4, <3>1, <3>3, <3>4 DEF Road
    <3> QED BY <2>7, <3>2, <3>5
  <2> QED BY <2>6, <2>7
<1>8. TicksOnRoad'
  BY <1>7 DEF TicksOnRoad
<1> QED BY <1>4, <1>5, <1>6, <1>8 DEF RoadInv

(***************************************************************************)
(* A response or a notification reaches the client.                        *)
(***************************************************************************)
LEMMA PopMessageRoad ==
    ASSUME RoadInv, NEW item, PopResponse(item) \/ PopNotification(item)
    PROVE  RoadInv'
<1>1. /\ LoopReady /\ item.unit \in {"Response", "Notification"}
      /\ pq' = Queue \ {item} /\ buffer' = <<Pushstream(item.res, item.made)>>
      /\ UNCHANGED <<seen, cursor, price>>
  BY DEF PopResponse, PopNotification, Pop, vars
<1>2. TickUnits(pq') = TickUnits(pq)
  BY <1>1, QueueFacts DEF TickUnits
<1>3. DOMAIN buffer' = {1} /\ Len(buffer') = 1
      /\ buffer'[1] = Pushstream(item.res, item.made)
  BY <1>1
<1>4. \A j \in DOMAIN buffer' : buffer'[j].out = "Pushstream"
  BY <1>3, BufferedFacts
<1>5. BufferShaped'
  <2>1. buffer' \in Seq({buffer'[j] : j \in DOMAIN buffer'})
    BY <1>1, <1>3
  <2> QED BY <1>3, <1>4, <2>1 DEF BufferShaped, IsSequence
<1>6. \A s, i : ~ Buffered(s, i)'
  BY <1>4, BufferedFacts DEF Buffered
<1>7. \A s, i : ~ Buffered(s, i)
  BY <1>1, EmptyBuffer DEF LoopReady
<1>8. \A other \in pq' : other.unit \in UnitKinds
  BY <1>1, QueueFacts
<1> QED BY <1>1, <1>2, <1>5, <1>6, <1>7, <1>8, RoadSame

(***************************************************************************)
(* An action queues no tick, whether it was delayed or not.                *)
(***************************************************************************)
LEMMA NotifiedUnits ==
    ASSUME NEW id, NEW t, NEW n \in Notified(id, t)
    PROVE  n.unit = "Notification" /\ n.unit \in UnitKinds
BY DEF Notified, NotificationUnit, UnitKinds

LEMMA PopActionRoad ==
    ASSUME RoadInv, NEW item, PopAction(item)
    PROVE  RoadInv'
<1> DEFINE answer == IF Running' THEN {ResponseUnit(item.id, timestamp', reply')} ELSE {}
           new == Notified(item.id, timestamp') \cup answer
<1>1. /\ item.unit = "ActionComplete" /\ buffer = <<>>
      /\ pq' = (Queue \ {item}) \cup new
      /\ UNCHANGED <<seen, cursor, buffer>>
      /\ price' = price
  BY ExecActionPrices DEF PopAction, Pop, LoopReady
<1>2. \A n \in answer : n.unit = "Response" /\ n.unit \in UnitKinds
  BY DEF ResponseUnit, UnitKinds
<1>3. \A n \in new : n.unit \in {"Response", "Notification"} /\ n.unit \in UnitKinds
  BY <1>2, NotifiedUnits
<1> HIDE DEF new
<1>4. TickUnits(pq') = TickUnits(pq)
  BY <1>1, <1>3, QueueFacts DEF TickUnits
<1>5. \A n \in pq' : n.unit \in UnitKinds
  BY <1>1, <1>3, QueueFacts
<1>6. BufferShaped'
  <2>1. buffer' = <<>>
    BY <1>1
  <2>2. DOMAIN buffer' = {} /\ Len(buffer') = 0 /\ \A S : buffer' \in Seq(S)
    BY <2>1
  <2> QED BY <2>2 DEF BufferShaped, IsSequence
<1>7. \A s, i : Buffered(s, i)' <=> Buffered(s, i)
  BY <1>1 DEF Buffered
<1> QED BY <1>1, <1>4, <1>5, <1>6, <1>7, RoadSame

LEMMA ExecuteBeforeLoopRoad ==
    ASSUME RoadInv, ExecuteBeforeLoop
    PROVE  RoadInv'
<1> DEFINE id == Cardinality(DOMAIN sent_at) + 1
<1>1. /\ pq' = pq \cup Notified(id, timestamp)
      /\ UNCHANGED <<seen, cursor, buffer>>
      /\ price' = price /\ ticking' = ticking
  BY ExecActionPrices DEF ExecuteBeforeLoop
<1> HIDE DEF id
<1>2. TickUnits(pq') = TickUnits(pq)
  BY <1>1, NotifiedUnits DEF TickUnits
<1>3. \A n \in pq' : n.unit \in UnitKinds
  BY <1>1, NotifiedUnits DEF RoadInv, UnitsShaped
<1>4. BufferShaped'
  BY <1>1 DEF RoadInv, BufferShaped, Departed
<1>5. \A s, i : Buffered(s, i)' <=> Buffered(s, i)
  BY <1>1 DEF Buffered
<1> QED BY <1>1, <1>2, <1>3, <1>4, <1>5, RoadSame

(***************************************************************************)
(* The rest of a buffer of messages is one.                                *)
(***************************************************************************)
LEMMA TailMessages ==
    ASSUME NEW q, IsSequence(q), q # <<>>
    PROVE  /\ IsSequence(Tail(q)) /\ Len(Tail(q)) = Len(q) - 1
           /\ Head(q) = q[1] /\ 1 \in DOMAIN q
           /\ \A j \in DOMAIN Tail(q) : j + 1 \in DOMAIN q /\ Tail(q)[j] = q[j + 1]
<1> DEFINE S == {q[i] : i \in DOMAIN q}
           r == Tail(q)
<1>1. q \in Seq(S)
  BY DEF IsSequence
<1> HIDE DEF S
<1>2. /\ r \in Seq(S) /\ Len(r) = Len(q) - 1 /\ \A j \in 1..Len(r) : r[j] = q[j + 1]
  BY <1>1, HeadTailProperties
<1>3. Len(q) \in Nat \ {0} /\ DOMAIN q = 1..Len(q) /\ Head(q) = q[1]
  BY <1>1, LenProperties, EmptySeq
<1>4. r \in [1..Len(r) -> S] /\ Len(r) \in Nat /\ DOMAIN r = 1..Len(r)
  BY <1>2, LenProperties
<1> HIDE DEF r
<1>5. r \in Seq({r[i] : i \in DOMAIN r})
  <2> DEFINE R == {r[i] : i \in DOMAIN r}
  <2>1. r \in [1..Len(r) -> R]
    BY <1>4
  <2> HIDE DEF R
  <2>2. r \in Seq(R)
    BY <1>4, <2>1
  <2> QED BY <2>2 DEF R
<1>6. \A j \in DOMAIN r : j + 1 \in DOMAIN q /\ r[j] = q[j + 1]
  BY <1>2, <1>3, <1>4
<1> QED BY <1>2, <1>3, <1>4, <1>5, <1>6 DEF IsSequence, r

(***************************************************************************)
(* The strategy receives a message: a tick has come to the end of its way. *)
(***************************************************************************)
LEMMA ReceiveRoad ==
    ASSUME RoadInv, Receive, UNCHANGED <<pq, cursor, price, ticking>>
    PROVE  RoadInv'
<1>1. buffer # <<>> /\ buffer' = Tail(buffer) /\ ticking = None
  BY DEF Receive
<1>2. \A item \in pq' : item.unit \in UnitKinds
  BY DEF RoadInv, UnitsShaped
<1>3. CASE \A j \in DOMAIN buffer : buffer[j].out = "Pushstream"
  <2>1. IsSequence(buffer)
    <3>1. ASSUME NEW s \in Symbols, NEW i \in Departed(s), buffer = <<TickOutput(s, i)>>
          PROVE  FALSE
      <4>1. 1 \in DOMAIN buffer /\ buffer[1] = TickOutput(s, i)
        BY <3>1
      <4> QED BY <1>3, <4>1, BufferedFacts
    <3> QED BY <3>1 DEF RoadInv, BufferShaped
  <2>2. /\ IsSequence(Tail(buffer)) /\ Head(buffer) = buffer[1] /\ 1 \in DOMAIN buffer
        /\ \A j \in DOMAIN Tail(buffer) : j + 1 \in DOMAIN buffer /\ Tail(buffer)[j] = buffer[j + 1]
    BY <1>1, <2>1, TailMessages
  <2>3. \A j \in DOMAIN buffer' : buffer'[j].out = "Pushstream"
    BY <1>1, <1>3, <2>2
  <2>4. BufferShaped'
    BY <1>1, <2>2, <2>3 DEF BufferShaped
  <2>5. \A s, i : Buffered(s, i)' <=> Buffered(s, i)
    BY <1>3, <2>3, BufferedFacts DEF Buffered
  <2>6. seen' = seen
    BY <1>3, <2>2 DEF Receive
  <2> QED BY <1>2, <2>4, <2>5, <2>6, RoadSame
<1>4. CASE ~ (\A j \in DOMAIN buffer : buffer[j].out = "Pushstream")
  <2>1. PICK s \in Symbols : \E i \in Departed(s) : buffer = <<TickOutput(s, i)>>
    BY <1>4 DEF RoadInv, BufferShaped
  <2>2. PICK i \in Departed(s) : buffer = <<TickOutput(s, i)>>
    BY <2>1
  <2>3. Head(buffer) = TickOutput(s, i) /\ buffer' = <<>>
    BY <1>1, <2>2
  <2>4. seen' = [seen EXCEPT ![s] = @ \cup {i}]
    <3>1. /\ TickOutput(s, i).out = "Tick" /\ TickOutput(s, i).symbol = s
          /\ TickOutput(s, i).index = i
      BY DEF TickOutput
    <3>2. Head(buffer).out = "Tick" /\ Head(buffer).symbol = s /\ Head(buffer).index = i
      BY <2>3, <3>1
    <3> QED BY <3>2 DEF Receive
  <2>5. /\ seen \in [Symbols -> SUBSET Nat] /\ i \in Nat
        /\ \A t \in Symbols : seen[t] \subseteq Departed(t) /\ Departed(t)' = Departed(t)
    BY <2>2, DepartedTicks DEF RoadInv, RoadTypes, Departed
  <2>6. /\ seen' \in [Symbols -> SUBSET Nat] /\ seen'[s] = seen[s] \cup {i}
        /\ \A t \in Symbols \ {s} : seen'[t] = seen[t]
    BY <2>4, <2>5
  <2>7. RoadTypes'
    BY <2>5, <2>6 DEF RoadInv, RoadTypes
  <2>8. UnitsShaped'
    BY <2>5 DEF RoadInv, UnitsShaped
  <2>9. DOMAIN buffer' = {} /\ Len(buffer') = 0 /\ \A S : buffer' \in Seq(S)
    BY <2>3
  <2>10. BufferShaped' /\ \A t, k : ~ Buffered(t, k)'
    BY <2>9 DEF BufferShaped, IsSequence, Buffered
  <2>11. \A t, k : Buffered(t, k) <=> t = s /\ k = i
    BY <2>2, OneBuffered
  <2>12. ASSUME NEW t \in Symbols
         PROVE  \E at \in [Nat -> 1..4] : \E last \in Nat : Road(t, at, last)'
    <3>1. PICK at \in [Nat -> 1..4], last \in Nat : Road(t, at, last)
      BY DEF RoadInv, TicksOnRoad
    <3>2. CASE t # s
      <4>1. InStep(t, at)'
        BY <2>5, <3>1 DEF Road, InStep
      <4>2. Road(t, at, last)'
        BY <2>5, <2>6, <2>10, <2>11, <3>1, <3>2, <4>1 DEF Road
      <4> QED BY <4>2
    <3>3. CASE t = s
      <4> DEFINE moved == [at EXCEPT ![i] = 1]
      <4>1. /\ Road(s, at, last) /\ InStep(s, at) /\ at[i] = 2
            /\ \A k \in Departed(s) : at[k] = at[i] => k = i
        BY <2>2, <2>11, <3>1, <3>3 DEF Road
      <4>2. /\ InStep(s, moved) /\ moved \in [Nat -> 1..4]
            /\ \A k \in Nat : moved[k] = IF k = i THEN 1 ELSE at[k]
        <5>1. 1 \in 1..3 /\ at[i] = 1 + 1 /\ RoadTypes
          BY <4>1 DEF RoadInv
        <5>2. ~ Sooner(s, i, i)
          BY <2>2, <5>1, DepartedTicks DEF Sooner
        <5>3. \A k \in Departed(s) : at[k] = at[i] => ~ Sooner(s, k, i)
          BY <4>1, <5>2
        <5> QED BY <2>2, <4>1, <5>1, <5>3, MovesInStep
      <4> HIDE DEF moved
      <4>3. ASSUME NEW k \in Departed(s)
            PROVE  /\ k \in seen'[s] <=> moved[k] = 1
                   /\ Buffered(s, k)' <=> moved[k] = 2
                   /\ ClientTickUnit(s, k) \in pq <=> moved[k] = 3
                   /\ NewTickUnit(s, k) \in pq <=> moved[k] = 4
                   /\ moved[k] # 4 => last # 1 /\ ~ Sooner(s, last, k)
        <5>1. k \in Nat
          BY DepartedTicks DEF RoadInv
        <5>2. moved[k] = IF k = i THEN 1 ELSE at[k]
          BY <4>2, <5>1
        <5>3. /\ k \in seen[s] <=> at[k] = 1
              /\ Buffered(s, k) <=> at[k] = 2
              /\ ClientTickUnit(s, k) \in pq <=> at[k] = 3
              /\ NewTickUnit(s, k) \in pq <=> at[k] = 4
              /\ at[k] # 4 => last # 1 /\ ~ Sooner(s, last, k)
          BY <4>1 DEF Road
        <5>4. CASE k = i
          BY <2>6, <2>10, <4>1, <5>2, <5>3, <5>4
        <5>5. CASE k # i
          BY <2>6, <2>10, <2>11, <5>2, <5>3, <5>5
        <5> QED BY <5>4, <5>5
      <4>4. InStep(s, moved)'
        BY <2>5, <4>2 DEF InStep
      <4>5. Road(s, moved, last)'
        BY <2>5, <4>1, <4>3, <4>4 DEF Road
      <4> QED BY <3>3, <4>2, <4>5
    <3> QED BY <3>2, <3>3
  <2>13. TicksOnRoad'
    BY <2>12 DEF TicksOnRoad
  <2> QED BY <2>7, <2>8, <2>10, <2>13 DEF RoadInv
<1> QED BY <1>3, <1>4

(***************************************************************************)
(* A step of tick_positions writes one message or two, and only if there   *)
(* is room for them.                                                       *)
(***************************************************************************)
LEMMA NotesWritten ==
    ASSUME NEW u, TickStep(u), Running'
    PROVE  \E n \in {1, 2} : /\ DOMAIN notes' = 1..n /\ Len(buffer) + n <= BufferSize
                             /\ buffer' = buffer \o [i \in 1..n |-> Pushstream(notes'[i], timestamp)]
<1>1. buffer' = buffer \o [i \in DOMAIN notes' |-> Pushstream(notes'[i], timestamp)]
  BY DEF TickStep
<1>2. CASE Room(1) /\ OpenPending(u)
  <2>1. u \in DOMAIN pending_positions
    BY <1>2 DEF OpenPending, FillOrder, Crash, Running
  <2>2. PICK m : notes' = <<m>>
    BY <1>2, <2>1 DEF OpenPending, FillOrder
  <2>3. DOMAIN notes' = 1..1
    BY <2>2
  <2> QED BY <1>1, <1>2, <2>3 DEF Room
<1>3. CASE (Room(2) \/ u \notin DOMAIN open_positions) /\ CloseOpen(u)
  <2>1. HasBaseRate(open_cache[u].symbol) /\ u \in DOMAIN open_positions
    BY <1>3 DEF CloseOpen, ClosePosition, Crash, Running
  <2>2. PICK m, n : notes' = <<m, n>>
    BY <1>3, <2>1 DEF CloseOpen, ClosePosition
  <2>3. DOMAIN notes' = 1..2
    BY <2>2
  <2> QED BY <1>1, <1>3, <2>1, <2>3 DEF Room
<1> QED BY <1>2, <1>3 DEF TickStep

LEMMA TickStepBuffer ==
    ASSUME RoadInv, NEW u \in Uuids, TickStep(u)
    PROVE  /\ BufferShaped' /\ \A s, i : Buffered(s, i)' <=> Buffered(s, i)
           /\ Len(buffer) <= BufferSize => Len(buffer') <= BufferSize
<1>1. IsSequence(buffer) /\ \A j \in DOMAIN buffer : buffer[j].out = "Pushstream"
  <2>1. ticking # None
    BY DEF TickStep, OpenPending, FillOrder, CloseOpen, ClosePosition
  <2> QED BY <2>1 DEF RoadInv, BufferShaped
<1>2. CASE Running'
  <2>1. PICK n \in {1, 2} :
            /\ DOMAIN notes' = 1..n /\ Len(buffer) + n <= BufferSize
            /\ buffer' = buffer \o [i \in 1..n |-> Pushstream(notes'[i], timestamp)]
    BY <1>2, NotesWritten
  <2> DEFINE S == {buffer[i] : i \in DOMAIN buffer} \cup {Pushstream(notes'[i], timestamp) : i \in 1..n}
             new == [i \in 1..n |-> Pushstream(notes'[i], timestamp)]
  <2>2. n \in Nat
    OBVIOUS
  <2>3. new \in [1..n -> S] /\ DOMAIN new = 1..n
    OBVIOUS
  <2>4. \A i \in 1..n : new[i].out = "Pushstream"
    BY BufferedFacts
  <2>5. buffer \in Seq({buffer[i] : i \in DOMAIN buffer})
    BY <1>1 DEF IsSequence
  <2>6. /\ Len(buffer) \in Nat /\ DOMAIN buffer = 1..Len(buffer)
        /\ \A i \in 1..Len(buffer) : buffer[i] \in S
    BY <2>5, LenProperties
  <2>7. buffer \in [1..Len(buffer) -> S]
    BY <2>5, <2>6, LenProperties
  <2> HIDE DEF S, new
  <2>8. buffer \in Seq(S) /\ new \in Seq(S) /\ Len(new) = n
    BY <2>2, <2>3, <2>6, <2>7
  <2>9. /\ buffer \o new \in Seq(S) /\ Len(buffer \o new) = Len(buffer) + n
        /\ \A i \in 1..(Len(buffer) + n) :
              (buffer \o new)[i] = IF i <= Len(buffer) THEN buffer[i] ELSE new[i - Len(buffer)]
    BY <2>8, ConcatProperties
  <2>10. buffer' = buffer \o new
    BY <2>1 DEF new
  <2> DEFINE longer == buffer \o new
  <2>11. longer \in [1..(Len(buffer) + n) -> S] /\ DOMAIN longer = 1..(Len(buffer) + n)
    BY <2>9, LenProperties
  <2>12. \A i \in DOMAIN longer : longer[i].out = "Pushstream"
    <3> SUFFICES ASSUME NEW i \in DOMAIN longer PROVE longer[i].out = "Pushstream"
      OBVIOUS
    <3>1. i \in 1..(Len(buffer) + n)
      BY <2>11
    <3>2. CASE i <= Len(buffer)
      <4>1. longer[i] = buffer[i] /\ i \in DOMAIN buffer
        BY <2>6, <2>9, <3>1, <3>2
      <4> QED BY <1>1, <4>1
    <3>3. CASE ~ (i <= Len(buffer))
      <4>1. longer[i] = new[i - Len(buffer)] /\ i - Len(buffer) \in 1..n
        BY <2>6, <2>9, <3>1, <3>3
      <4> QED BY <2>4, <4>1
    <3> QED BY <3>2, <3>3
  <2>13. IsSequence(longer)
    <3> DEFINE R == {longer[i] : i \in DOMAIN longer}
    <3>1. Len(buffer) + n \in Nat /\ Len(longer) \in Nat
      BY <2>6, <2>9
    <3> HIDE DEF longer
    <3>2. longer \in [1..(Len(buffer) + n) -> R]
      BY <2>11
    <3> HIDE DEF R
    <3>3. longer \in Seq(R)
      BY <3>1, <3>2
    <3> QED BY <3>1, <3>3 DEF IsSequence, R
  <2>14. buffer' = longer /\ Len(longer) <= BufferSize
    BY <2>1, <2>9, <2>10
  <2> HIDE DEF longer
  <2>15. BufferShaped'
    BY <2>12, <2>13, <2>14 DEF BufferShaped
  <2>16. \A s, i : ~ Buffered(s, i) /\ ~ Buffered(s, i)'
    BY <1>1, <2>12, <2>14, BufferedFacts DEF Buffered
  <2> QED BY <2>14, <2>15, <2>16
<1>3. CASE ~ Running'
  <2>1. buffer' = buffer
    BY <1>3 DEF TickStep
  <2> QED BY <1>1, <2>1 DEF BufferShaped, Buffered
<1> QED BY <1>2, <1>3

LEMMA TickStepRoad ==
    ASSUME RoadInv, NEW u \in Uuids, TickStep(u)
    PROVE  RoadInv'
<1>1. BufferShaped' /\ \A s, i : Buffered(s, i)' <=> Buffered(s, i)
  BY TickStepBuffer
<1>2. UNCHANGED <<seen, cursor, pq>>
  BY DEF TickStep
<1>3. price' = price
  BY DEF TickStep, OpenPending, FillOrder, CloseOpen, ClosePosition, Crash
<1>4. \A item \in pq' : item.unit \in UnitKinds
  BY <1>2 DEF RoadInv, UnitsShaped
<1> QED BY <1>1, <1>2, <1>3, <1>4, RoadSame

(***************************************************************************)
(* Every step of the loop keeps the ticks on their road.                   *)
(***************************************************************************)
LEMMA RoadUntouched ==
    ASSUME RoadInv, UNCHANGED <<seen, cursor, pq, buffer, price, ticking>>
    PROVE  RoadInv'
<1>1. TickUnits(pq') = TickUnits(pq) /\ \A item \in pq' : item.unit \in UnitKinds
  BY DEF RoadInv, UnitsShaped
<1>2. BufferShaped'
  BY DEF RoadInv, BufferShaped, Departed
<1>3. \A s \in Symbols, i \in Nat : Buffered(s, i)' <=> Buffered(s, i)
  BY DEF Buffered
<1> QED BY <1>1, <1>2, <1>3, RoadSame

LEMMA RoadStep ==
    ASSUME RoadInv, LoopInv, [LoopNext]_<<vars, loop>>
    PROVE  RoadInv'
<1>1. CASE ExecuteBeforeLoop
  BY <1>1, ExecuteBeforeLoopRoad
<1>2. CASE PrimeQueue
  <2>1. CASE WithTicks(cursor) = {}
    BY <1>2, <2>1, RoadUntouched DEF PrimeQueue, Halt, vars
  <2>2. CASE WithTicks(cursor) # {}
    BY <1>2, <2>2, PushRoad DEF PrimeQueue, vars
  <2> QED BY <2>1, <2>2
<1>3. ASSUME NEW item \in Queue,
             \/ PopNewTick(item) \/ PopClientTick(item) \/ PopAction(item)
             \/ PopResponse(item) \/ PopNotification(item)
      PROVE  RoadInv'
  BY <1>3, PopNewTickRoad, PopClientTickRoad, PopActionRoad, PopMessageRoad
<1>4. ASSUME NEW u \in Uuids, TickStep(u)
      PROVE  RoadInv'
  BY <1>4, TickStepRoad
<1>5. CASE FinishTick
  BY <1>5, PushRoad DEF FinishTick, TickDone, EndTick
<1>6. CASE PopNothing \/ TickOverflow \/ UNCHANGED <<vars, loop>>
  BY <1>6, RoadUntouched DEF PopNothing, TickOverflow, Halt, vars, loop
<1>7. CASE Ignore \/ Submit
  BY <1>7, ReceiveRoad DEF Ignore, Submit, vars
<1> QED BY <1>1, <1>2, <1>3, <1>4, <1>5, <1>6, <1>7 DEF LoopNext, TickSimLoop

LEMMA RoadInitInv ==
    ASSUME LoopInit
    PROVE  RoadInv
<1>1. /\ price \in [Symbols -> Ticks \cup {ZeroQuote}] /\ \A s \in Symbols : price[s] = ZeroQuote
      /\ pq = {} /\ buffer = <<>>
      /\ cursor = [s \in Symbols |-> 2] /\ seen = [s \in Symbols |-> {}]
  BY LoopAssumption DEF LoopInit, Init
<1>2. ZeroQuote \in Quotes /\ Ticks \subseteq Quotes
  BY InputAssumption DEF ZeroQuote, Quotes
<1>3. \A s \in Symbols : Len(TickStreams[s]) \in Nat /\ Len(TickStreams[s]) >= 2
  <2>1. \A s \in Symbols : TickStreams[s] \in Seq([timestamp : Nat, quote : Ticks])
    BY StreamAssumption
  <2>2. \A s \in Symbols : Len(TickStreams[s]) >= 2
    BY StreamAssumption
  <2> QED BY <2>1, <2>2, LenProperties
<1>4. RoadTypes
  BY <1>1, <1>2, <1>3 DEF RoadTypes
<1>5. UnitsShaped
  BY <1>1 DEF UnitsShaped
<1>6. BufferShaped
  BY <1>1, EmptyBuffer
<1>7. ASSUME NEW s \in Symbols
      PROVE  \E at \in [Nat -> 1..4] : \E last \in Nat : Road(s, at, last)
  <2>1. cursor[s] = 2 /\ price[s] = ZeroQuote /\ Departed(s) = {}
    BY <1>1 DEF Departed
  <2>2. InStep(s, [i \in Nat |-> 4])
    BY <2>1 DEF InStep
  <2>3. Road(s, [i \in Nat |-> 4], 1)
    BY <2>1, <2>2 DEF Road
  <2> QED BY <2>3
<1>8. TicksOnRoad
  BY <1>7 DEF TicksOnRoad
<1> QED BY <1>4, <1>5, <1>6, <1>8 DEF RoadInv

(***************************************************************************)
(* A tick on the road is in exactly one stage, and a later tick is in no   *)
(* later stage than an earlier one.                                        *)
(***************************************************************************)
LEMMA StagesOnRoad ==
    ASSUME NEW s \in Symbols, NEW at \in [Nat -> 1..4], NEW last \in Nat, RoadTypes,
           Road(s, at, last), NEW i \in Departed(s)
    PROVE  TickStages(s, i) = {at[i]}
<1>1. at[i] \in 1..4
  BY DepartedTicks
<1>2. /\ i \in seen[s] <=> at[i] = 1
      /\ Buffered(s, i) <=> at[i] = 2
      /\ ClientTickUnit(s, i) \in pq <=> at[i] = 3
      /\ NewTickUnit(s, i) \in pq <=> at[i] = 4
  BY DEF Road
<1>3. TickStages(s, i) \subseteq 1..4
  BY DEF TickStages
<1>4. /\ 1 \in TickStages(s, i) <=> i \in seen[s]
      /\ 2 \in TickStages(s, i) <=> Buffered(s, i)
      /\ 3 \in TickStages(s, i) <=> ClientTickUnit(s, i) \in pq
      /\ 4 \in TickStages(s, i) <=> NewTickUnit(s, i) \in pq
  BY DEF TickStages, Buffered
<1>5. \A k \in 1..4 : k \in TickStages(s, i) <=> k = at[i]
  <2>1. \A k \in 1..4 : k = 1 \/ k = 2 \/ k = 3 \/ k = 4
    OBVIOUS
  <2> QED BY <1>2, <1>4, <2>1
<1> QED BY <1>1, <1>3, <1>5

LEMMA RoadInOrder ==
    ASSUME RoadInv
    PROVE  TicksInOrder
<1> SUFFICES ASSUME NEW s \in Symbols, NEW i \in 2..(cursor[s] - 1), NEW j \in 2..(cursor[s] - 1)
             PROVE  /\ Cardinality(TickStages(s, i)) = 1
                    /\ TickAt(s, i).timestamp < TickAt(s, j).timestamp =>
                          \A k \in TickStages(s, i), l \in TickStages(s, j) : k <= l
  BY DEF TicksInOrder
<1>1. PICK at \in [Nat -> 1..4], last \in Nat : Road(s, at, last)
  BY DEF RoadInv, TicksOnRoad
<1>2. i \in Departed(s) /\ j \in Departed(s)
  BY DEF Departed
<1>3. TickStages(s, i) = {at[i]} /\ TickStages(s, j) = {at[j]}
  BY <1>1, <1>2, StagesOnRoad DEF RoadInv
<1>4. Cardinality({at[i]}) = 1
  BY FS_Singleton
<1>5. Sooner(s, i, j) => at[i] <= at[j]
  BY <1>1, <1>2 DEF Road, InStep
<1> QED BY <1>3, <1>4, <1>5 DEF Sooner

(***************************************************************************)
(* The last tick that entered gave a symbol its price; every later one is  *)
(* due when the unit that is popped is, or after it.                       *)
(***************************************************************************)
LEMMA PricesFromRoad ==
    ASSUME RoadInv, LoopInv, NEW s \in Symbols, NEW t \in Nat,
           \A item \in pq : item.time >= t,
           \A r \in WithTicks(cursor) : TickAt(r, cursor[r]).timestamp >= t
    PROVE  \E i \in 1..(cursor[s] - 1) : PriceUpTo(s, i, price[s], t)
<1>1. PICK at \in [Nat -> 1..4], last \in Nat : Road(s, at, last)
  BY DEF RoadInv, TicksOnRoad
<1>2. /\ cursor[s] \in Nat /\ cursor[s] >= 2
      /\ cursor[s] <= Len(TickStreams[s]) + 1 /\ Len(TickStreams[s]) \in Nat
  BY StreamAssumption DEF RoadInv, RoadTypes
<1>3. /\ last \in 1..(cursor[s] - 1)
      /\ price[s] = IF last = 1 THEN ZeroQuote ELSE TickAt(s, last).quote
  BY <1>1 DEF Road
<1>4. ASSUME NEW j \in 2..Len(TickStreams[s]),
             last = 1 \/ TickAt(s, j).timestamp > TickAt(s, last).timestamp
      PROVE  TickAt(s, j).timestamp >= t
  <2>1. j \in 1..Len(TickStreams[s]) /\ j \in Nat /\ last \in 1..Len(TickStreams[s])
    BY <1>2, <1>3
  <2>2. TickAt(s, j).timestamp \in Nat /\ TickAt(s, last).timestamp \in Nat
    BY <2>1, TickType
  <2>3. CASE j < cursor[s]
    <3>1. j \in Departed(s)
      BY <1>2, <2>1, <2>3 DEF Departed
    <3>2. at[j] = 4
      BY <1>1, <1>4, <2>2, <3>1 DEF Road, Sooner
    <3>3. NewTickUnit(s, j) \in pq
      BY <1>1, <3>1, <3>2 DEF Road
    <3>4. NewTickUnit(s, j).time = TickAt(s, j).timestamp
      BY DEF NewTickUnit
    <3> QED BY <3>3, <3>4
  <2>4. CASE ~ (j < cursor[s])
    <3>1. s \in WithTicks(cursor) /\ cursor[s] \in 1..Len(TickStreams[s])
      BY <1>2, <2>1, <2>4 DEF WithTicks
    <3>2. TickAt(s, cursor[s]).timestamp >= t /\ TickAt(s, cursor[s]).timestamp \in Nat
      BY <3>1, TickType
    <3>3. CASE j = cursor[s]
      BY <3>2, <3>3
    <3>4. CASE j # cursor[s]
      <4>1. cursor[s] < j
        BY <1>2, <2>1, <2>4, <3>4
      <4>2. ~ Sooner(s, j, cursor[s])
        BY <2>1, <3>1, <4>1, TickSooner
      <4> QED BY <2>2, <3>2, <4>2 DEF Sooner
    <3> QED BY <3>3, <3>4
  <2> QED BY <2>3, <2>4
<1>5. PriceUpTo(s, last, price[s], t)
  BY <1>3, <1>4 DEF PriceUpTo
<1> QED BY <1>3, <1>5

LEMMA PricesStep ==
    ASSUME RoadInv, LoopInv, [LoopNext]_<<vars, loop>>, executed' # executed, NEW s \in Symbols
    PROVE  \E i \in 1..(cursor[s] - 1) : PriceUpTo(s, i, price[s], timestamp')
<1>1. CASE ExecuteBeforeLoop
  <2>1. timestamp' = timestamp /\ timestamp \in Nat
    BY <1>1 DEF ExecuteBeforeLoop, LoopInv
  <2>2. /\ \A item \in pq : item.time >= timestamp
        /\ \A r \in WithTicks(cursor) : TickAt(r, cursor[r]).timestamp >= timestamp
    BY DEF LoopInv, QueueOrder, NothingOverdue
  <2> QED BY <2>1, <2>2, PricesFromRoad
<1>2. ASSUME NEW item \in Queue, PopAction(item)
      PROVE  \E i \in 1..(cursor[s] - 1) : PriceUpTo(s, i, price[s], timestamp')
  <2>1. Pop(item) /\ timestamp' = item.time
    BY <1>2 DEF PopAction, Pop
  <2>2. /\ item.time \in Nat
        /\ \A r \in WithTicks(cursor) : item.time <= TickAt(r, cursor[r]).timestamp
        /\ \A other \in Queue : other.time \in Nat /\ item.time <= other.time
    BY <2>1, PopFacts
  <2>3. \A other \in pq : other.time >= item.time
    BY <2>2 DEF Queue
  <2>4. \A r \in WithTicks(cursor) : TickAt(r, cursor[r]).timestamp >= item.time
    BY <2>2, CursorType DEF LoopInv
  <2> QED BY <2>1, <2>2, <2>3, <2>4, PricesFromRoad
<1>3. CASE PrimeQueue
  BY <1>3 DEF PrimeQueue, Halt
<1>4. CASE TickSimLoop
  <2>1. \/ \E item \in Queue : PopAction(item)
        \/ executed' = executed
    BY <1>4 DEF TickSimLoop, PopNewTick, PopClientTick, PopResponse, PopNotification, PopNothing,
                TickStep, TickOverflow, FinishTick, Halt
  <2> QED BY <1>2, <2>1
<1>5. CASE Ignore \/ Submit \/ UNCHANGED <<vars, loop>>
  BY <1>5 DEF Ignore, Submit, loop
<1> QED BY <1>1, <1>3, <1>4, <1>5 DEF LoopNext

(***************************************************************************)
(* The strategy receives every tick of every symbol once, and never after  *)
(* a later one: none is lost, repeated or overtaken between the stream,    *)
(* the queue, the broker, the way back and the output buffer, except by    *)
(* one of the same time.                                                   *)
(***************************************************************************)
THEOREM TicksStayInOrder == LoopSpec => []TicksInOrder
<1>1. LoopInit => LoopInv /\ RoadInv
  BY LoopInitInv, RoadInitInv
<1>2. LoopInv /\ RoadInv /\ [LoopNext]_<<vars, loop>> => LoopInv' /\ RoadInv'
  BY LoopNextStep, RoadStep
<1>3. RoadInv => TicksInOrder
  BY RoadInOrder
<1> QED BY <1>1, <1>2, <1>3, PTL DEF LoopSpec

(***************************************************************************)
(* Every action is executed at the prices of its time: no tick that is     *)
(* older than the execution has still to reach the broker.                 *)
(***************************************************************************)
THEOREM PricesStayCurrent == LoopSpec => PricesCurrent
<1> DEFINE Current ==
        executed' # executed =>
          \A s \in Symbols : \E i \in 1..(cursor[s] - 1) :
              PriceUpTo(s, i, price[s], timestamp')
<1>1. LoopInit => LoopInv /\ RoadInv
  BY LoopInitInv, RoadInitInv
<1>2. LoopInv /\ RoadInv /\ [LoopNext]_<<vars, loop>> => LoopInv' /\ RoadInv'
  BY LoopNextStep, RoadStep
<1>3. LoopInv /\ RoadInv /\ [LoopNext]_<<vars, loop>> => Current
  BY PricesStep
<1>4. LoopSpec => [][Current]_<<vars, loop>>
  <2> HIDE DEF Current
  <2> QED BY <1>1, <1>2, <1>3, PTL DEF LoopSpec
<1> QED BY <1>4 DEF PricesCurrent

-----------------------------------------------------------------------------
(* The way of the actions                                                  *)
(*                                                                         *)
(* An action is in the channel, in the queue as itself or as its response, *)
(* or answered, and every unit of the queue still knows when its action    *)
(* was submitted.  It can, because the driver calls tick_sim_loop, and the *)
(* clock moves, only with an empty buffer: what is in the channel then was *)
(* submitted at the present time.                                          *)

ActionUnits(q) == {item \in q : item.unit \in {"ActionComplete", "Response"}}

UnitsOf(q, id) == {item \in ActionUnits(q) : item.id = id}

\* the places of action id in the client's channel
Channel(id) == {i \in DOMAIN inner_tx : inner_tx[i] = id}

InOnePlace(id) ==
    \/ /\ \E i \in DOMAIN inner_tx : Channel(id) = {i}
       /\ UnitsOf(pq, id) = {} /\ id \notin DOMAIN answered
    \/ /\ Channel(id) = {}
       /\ \E item \in pq : UnitsOf(pq, id) = {item}
       /\ id \notin DOMAIN answered
    \/ Channel(id) = {} /\ UnitsOf(pq, id) = {} /\ id \in DOMAIN answered

AccountTypes ==
    /\ \E n \in 0..MaxActions : DOMAIN sent_at = 1..n
    /\ DOMAIN answered \subseteq DOMAIN sent_at
    /\ inner_tx \in Seq(DOMAIN sent_at) /\ Len(inner_tx) <= ChannelSize

\* item carries an action of the strategy and is due when it should be
UnitOnTime(item) ==
    /\ item.id \in DOMAIN sent_at /\ sent_at[item.id] \in Nat
    /\ item.unit = "ActionComplete" => item.time = sent_at[item.id] + ExecutionDelay
    /\ item.unit = "Response" => item.time = sent_at[item.id] + ExecutionDelay + PingNs

OnTime ==
    /\ \A i \in DOMAIN inner_tx : sent_at[inner_tx[i]] = timestamp
    /\ \A item \in ActionUnits(pq) : UnitOnTime(item)
    /\ AnswerLatency

AccountInv ==
    /\ AccountTypes
    /\ OnTime
    /\ Running => \A id \in DOMAIN sent_at : InOnePlace(id)

(***************************************************************************)
(* A step that moves no action and does not touch the clock.               *)
(***************************************************************************)
LEMMA AccountsSame ==
    ASSUME AccountInv, UNCHANGED <<sent_at, inner_tx, timestamp, answered>>,
           ActionUnits(pq') = ActionUnits(pq), Running
    PROVE  AccountInv'
<1>1. \A id : UnitsOf(pq', id) = UnitsOf(pq, id)
  BY DEF UnitsOf
<1>2. \A item \in ActionUnits(pq) : item \in pq' /\ item \in pq
  BY DEF ActionUnits
<1>3. AccountTypes'
  BY DEF AccountInv, AccountTypes
<1>4. OnTime'
  BY DEF AccountInv, OnTime, UnitOnTime, AnswerLatency
<1>5. ASSUME NEW id \in DOMAIN sent_at PROVE InOnePlace(id)'
  <2>1. InOnePlace(id)
    BY DEF AccountInv
  <2>2. Channel(id)' = Channel(id)
    BY DEF Channel
  <2>3. ASSUME NEW item \in pq, UnitsOf(pq, id) = {item} PROVE item \in pq'
    BY <1>2, <2>3 DEF UnitsOf
  <2> QED BY <1>1, <2>1, <2>2, <2>3 DEF InOnePlace
<1> QED BY <1>3, <1>4, <1>5 DEF AccountInv

(***************************************************************************)
(* A new action gets the next number; no unit and no answer carries it.    *)
(***************************************************************************)
LEMMA NextAction ==
    ASSUME AccountInv, Cardinality(DOMAIN sent_at) + 1 \in Actions
    PROVE  \E n \in 0..MaxActions :
              /\ DOMAIN sent_at = 1..n /\ Cardinality(DOMAIN sent_at) + 1 = n + 1
              /\ n + 1 <= MaxActions /\ n + 1 \notin DOMAIN sent_at
              /\ n + 1 \notin DOMAIN answered /\ UnitsOf(pq, n + 1) = {} /\ Channel(n + 1) = {}
              /\ \A t : DOMAIN Put(sent_at, n + 1, t) = 1..(n + 1)
<1>1. PICK n \in 0..MaxActions : DOMAIN sent_at = 1..n
  BY DEF AccountInv, AccountTypes
<1>2. n \in Nat /\ Cardinality(1..n) = n
  <2>1. n \in Nat
    BY LoopAssumption
  <2> QED BY <2>1, FS_Interval
<1>3. n + 1 <= MaxActions /\ n + 1 \notin DOMAIN sent_at
  BY <1>1, <1>2, LoopAssumption DEF Actions
<1>4. n + 1 \notin DOMAIN answered
  BY <1>3 DEF AccountInv, AccountTypes
<1>5. UnitsOf(pq, n + 1) = {}
  BY <1>3 DEF UnitsOf, AccountInv, OnTime, UnitOnTime
<1>6. Channel(n + 1) = {}
  <2>1. inner_tx \in Seq(DOMAIN sent_at)
    BY DEF AccountInv, AccountTypes
  <2>2. \A i \in DOMAIN inner_tx : inner_tx[i] \in DOMAIN sent_at
    BY <2>1, LenProperties
  <2> QED BY <1>3, <2>2 DEF Channel
<1>7. \A t : DOMAIN Put(sent_at, n + 1, t) = 1..(n + 1)
  <2>1. (1..n) \cup {n + 1} = 1..(n + 1)
    BY <1>2
  <2> QED BY <1>1, <2>1 DEF Put
<1> QED BY <1>1, <1>2, <1>3, <1>4, <1>5, <1>6, <1>7

(***************************************************************************)
(* An action before the loop is answered on the spot.                      *)
(***************************************************************************)
LEMMA ExecuteBeforeLoopAccounts ==
    ASSUME AccountInv, ExecuteBeforeLoop
    PROVE  AccountInv'
<1>1. Cardinality(DOMAIN sent_at) + 1 \in Actions /\ Running
  BY DEF ExecuteBeforeLoop, Alive
<1>2. PICK n \in 0..MaxActions :
          /\ DOMAIN sent_at = 1..n /\ Cardinality(DOMAIN sent_at) + 1 = n + 1
          /\ n + 1 <= MaxActions /\ n + 1 \notin DOMAIN sent_at
          /\ n + 1 \notin DOMAIN answered /\ UnitsOf(pq, n + 1) = {} /\ Channel(n + 1) = {}
          /\ \A t : DOMAIN Put(sent_at, n + 1, t) = 1..(n + 1)
  BY <1>1, NextAction
<1> DEFINE id == n + 1
<1>3. /\ sent_at' = Put(sent_at, id, None) /\ answered' = Put(answered, id, timestamp)
      /\ pq' = pq \cup Notified(id, timestamp)
      /\ UNCHANGED <<timestamp, inner_tx>>
  BY <1>2 DEF ExecuteBeforeLoop
<1>4. n \in Nat
  BY LoopAssumption
<1>5. ActionUnits(pq') = ActionUnits(pq)
  BY <1>3, NotifiedUnits DEF ActionUnits
<1>6. n + 1 \in 0..MaxActions
  BY <1>2, <1>4, LoopAssumption
<1>7. /\ DOMAIN sent_at' = 1..(n + 1) /\ DOMAIN sent_at' = DOMAIN sent_at \cup {id}
      /\ sent_at'[id] = None /\ \A k \in DOMAIN sent_at : sent_at'[k] = sent_at[k]
      /\ DOMAIN answered' = DOMAIN answered \cup {id}
      /\ \A k \in DOMAIN answered : answered'[k] = answered[k]
  <2>1. id \notin DOMAIN sent_at /\ id \notin DOMAIN answered
    BY <1>2
  <2>2. DOMAIN sent_at' = 1..(n + 1)
    BY <1>2, <1>3
  <2> HIDE DEF id
  <2>3. /\ DOMAIN sent_at' = DOMAIN sent_at \cup {id}
        /\ sent_at'[id] = None /\ \A k \in DOMAIN sent_at : sent_at'[k] = sent_at[k]
    BY <1>3, <2>1 DEF Put
  <2>4. /\ DOMAIN answered' = DOMAIN answered \cup {id}
        /\ \A k \in DOMAIN answered : answered'[k] = answered[k]
    BY <1>3, <2>1 DEF Put
  <2> QED BY <2>2, <2>3, <2>4
<1> HIDE DEF id
<1>8. inner_tx \in Seq(DOMAIN sent_at) /\ DOMAIN answered \subseteq DOMAIN sent_at
      /\ Len(inner_tx) <= ChannelSize
  BY DEF AccountInv, AccountTypes
<1>9. inner_tx \in Seq(DOMAIN sent_at')
  BY <1>7, <1>8, SeqMonotonic
<1>10. \A i \in DOMAIN inner_tx : inner_tx[i] \in DOMAIN sent_at
  BY <1>8, LenProperties
<1>11. AccountTypes'
  BY <1>3, <1>6, <1>7, <1>8, <1>9 DEF AccountTypes
<1>12. AnswerLatency'
  <2> SUFFICES ASSUME NEW k \in DOMAIN answered', sent_at'[k] # None
               PROVE  answered'[k] = sent_at'[k] + ExecutionDelay + PingNs
    BY DEF AnswerLatency
  <2>1. k \in DOMAIN answered /\ k \in DOMAIN sent_at
    BY <1>7, <1>8
  <2> QED BY <1>7, <2>1 DEF AccountInv, OnTime, AnswerLatency
<1>13. OnTime'
  <2>1. \A item \in ActionUnits(pq) : UnitOnTime(item)'
    BY <1>7 DEF AccountInv, OnTime, UnitOnTime
  <2> QED BY <1>3, <1>5, <1>7, <1>10, <1>12, <2>1 DEF AccountInv, OnTime
<1>14. ASSUME NEW k \in DOMAIN sent_at' PROVE InOnePlace(k)'
  <2>1. UnitsOf(pq', k) = UnitsOf(pq, k) /\ Channel(k)' = Channel(k)
    BY <1>3, <1>5 DEF UnitsOf, Channel
  <2>2. CASE k = id
    BY <1>2, <1>7, <2>1, <2>2 DEF InOnePlace, id
  <2>3. CASE k # id
    <3>1. InOnePlace(k) /\ (k \in DOMAIN answered' <=> k \in DOMAIN answered)
      BY <1>1, <1>7, <2>3 DEF AccountInv
    <3>2. inner_tx' = inner_tx /\ pq \subseteq pq'
      BY <1>3
    <3> QED BY <2>1, <3>1, <3>2 DEF InOnePlace
  <2> QED BY <2>2, <2>3
<1> QED BY <1>11, <1>13, <1>14 DEF AccountInv

(***************************************************************************)
(* An action is submitted: it enters the channel at the present time, if   *)
(* the channel has room.                                                   *)
(***************************************************************************)
LEMMA SubmitAccounts ==
    ASSUME AccountInv, LoopInv, Submit
    PROVE  AccountInv'
<1>1. Cardinality(DOMAIN sent_at) + 1 \in Actions /\ Running
  BY DEF Submit, Receive, Alive
<1>2. /\ UNCHANGED <<timestamp, pq, answered>>
      /\ Running' = Running
  BY DEF Submit, Running, vars
<1>3. CASE Len(inner_tx) >= ChannelSize
  <2>1. UNCHANGED <<inner_tx, sent_at>>
    BY <1>3 DEF Submit
  <2> QED BY <1>1, <1>2, <2>1, AccountsSame
<1>4. CASE ~ (Len(inner_tx) >= ChannelSize)
  <2>1. PICK n \in 0..MaxActions :
            /\ DOMAIN sent_at = 1..n /\ Cardinality(DOMAIN sent_at) + 1 = n + 1
            /\ n + 1 <= MaxActions /\ n + 1 \notin DOMAIN sent_at
            /\ n + 1 \notin DOMAIN answered /\ UnitsOf(pq, n + 1) = {} /\ Channel(n + 1) = {}
            /\ \A t : DOMAIN Put(sent_at, n + 1, t) = 1..(n + 1)
    BY <1>1, NextAction
  <2> DEFINE id == n + 1
  <2>2. sent_at' = Put(sent_at, id, timestamp) /\ inner_tx' = Append(inner_tx, id)
    BY <1>4, <2>1 DEF Submit
  <2>3. n \in Nat /\ n + 1 \in 0..MaxActions
    BY <2>1, LoopAssumption
  <2>4. id \notin DOMAIN sent_at /\ DOMAIN sent_at' = 1..(n + 1)
    BY <2>1, <2>2
  <2> HIDE DEF id
  <2>5. /\ DOMAIN sent_at' = DOMAIN sent_at \cup {id}
        /\ sent_at'[id] = timestamp /\ \A k \in DOMAIN sent_at : sent_at'[k] = sent_at[k]
    BY <2>2, <2>4 DEF Put
  <2>6. /\ inner_tx \in Seq(DOMAIN sent_at) /\ DOMAIN answered \subseteq DOMAIN sent_at
        /\ Len(inner_tx) <= ChannelSize
    BY DEF AccountInv, AccountTypes
  <2>7. inner_tx \in Seq(DOMAIN sent_at') /\ id \in DOMAIN sent_at'
    BY <2>5, <2>6, SeqMonotonic
  <2>8. /\ inner_tx' \in Seq(DOMAIN sent_at') /\ Len(inner_tx') = Len(inner_tx) + 1
        /\ \A i \in 1..Len(inner_tx) : inner_tx'[i] = inner_tx[i]
        /\ inner_tx'[Len(inner_tx) + 1] = id
    BY <2>2, <2>7, AppendProperties
  <2>9. /\ Len(inner_tx) \in Nat /\ DOMAIN inner_tx = 1..Len(inner_tx)
        /\ DOMAIN inner_tx' = 1..(Len(inner_tx) + 1)
        /\ \A i \in DOMAIN inner_tx : inner_tx[i] \in DOMAIN sent_at
    BY <2>6, <2>8, LenProperties
  <2>10. Len(inner_tx') <= ChannelSize
    BY <1>4, <2>8, <2>9, LoopAssumption
  <2>11. AccountTypes'
    <3>1. DOMAIN answered' \subseteq DOMAIN sent_at'
      BY <1>2, <2>5, <2>6
    <3> QED BY <2>3, <2>4, <2>8, <2>10, <3>1 DEF AccountTypes
  <2>12. AnswerLatency'
    BY <1>2, <2>5, <2>6 DEF AccountInv, OnTime, AnswerLatency
  <2>13. \A i \in DOMAIN inner_tx' : sent_at'[inner_tx'[i]] = timestamp'
    <3> SUFFICES ASSUME NEW i \in DOMAIN inner_tx' PROVE sent_at'[inner_tx'[i]] = timestamp
      BY <1>2
    <3>1. CASE i \in DOMAIN inner_tx
      <4>1. inner_tx'[i] = inner_tx[i] /\ inner_tx[i] \in DOMAIN sent_at
        BY <2>8, <2>9, <3>1
      <4> QED BY <2>5, <3>1, <4>1 DEF AccountInv, OnTime
    <3>2. CASE i \notin DOMAIN inner_tx
      <4>1. i = Len(inner_tx) + 1
        BY <2>9, <3>2
      <4> QED BY <2>5, <2>8, <4>1
    <3> QED BY <3>1, <3>2
  <2>14. \A item \in ActionUnits(pq) : UnitOnTime(item)'
    BY <2>5 DEF AccountInv, OnTime, UnitOnTime
  <2>15. ASSUME NEW k \in DOMAIN sent_at' PROVE InOnePlace(k)'
    <3>1. UnitsOf(pq', k) = UnitsOf(pq, k) /\ DOMAIN answered' = DOMAIN answered /\ pq' = pq
      BY <1>2
    <3>2. CASE k = id
      <4>1. \A i \in DOMAIN inner_tx : inner_tx[i] # id
        BY <2>4, <2>9
      <4>2. Channel(k)' = {Len(inner_tx) + 1}
        BY <2>8, <2>9, <3>2, <4>1 DEF Channel
      <4>3. Len(inner_tx) + 1 \in DOMAIN inner_tx'
        BY <2>9
      <4>4. UnitsOf(pq, k) = {} /\ k \notin DOMAIN answered
        BY <2>1, <3>2 DEF id
      <4> QED BY <3>1, <4>2, <4>3, <4>4 DEF InOnePlace
    <3>3. CASE k # id
      <4>1. Channel(k)' = Channel(k)
        <5>1. \A i \in DOMAIN inner_tx' : inner_tx'[i] = k <=> i \in DOMAIN inner_tx /\ inner_tx[i] = k
          BY <2>8, <2>9, <3>3
        <5>2. DOMAIN inner_tx \subseteq DOMAIN inner_tx'
          BY <2>9
        <5> QED BY <5>1, <5>2 DEF Channel
      <4>2. InOnePlace(k)
        BY <1>1, <2>5, <3>3 DEF AccountInv
      <4>3. DOMAIN inner_tx \subseteq DOMAIN inner_tx'
        BY <2>9
      <4> QED BY <3>1, <4>1, <4>2, <4>3 DEF InOnePlace
    <3> QED BY <3>2, <3>3
  <2> QED BY <1>2, <2>11, <2>12, <2>13, <2>14, <2>15 DEF AccountInv, OnTime
<1> QED BY <1>3, <1>4

(***************************************************************************)
(* tick_sim_loop takes over what is in the channel: the queue it pops from *)
(* has a unit for each action that is not answered, due on time.           *)
(***************************************************************************)
LEMMA QueueAccounts ==
    ASSUME AccountInv, LoopInv
    PROVE  /\ \A item \in ActionUnits(Queue) : UnitOnTime(item)
           /\ Running => \A id \in DOMAIN sent_at :
                 \/ (\E item \in Queue : UnitsOf(Queue, id) = {item}) /\ id \notin DOMAIN answered
                 \/ UnitsOf(Queue, id) = {} /\ id \in DOMAIN answered
<1>1. \A i : /\ ActionUnit(i, timestamp).unit = "ActionComplete" /\ ActionUnit(i, timestamp).id = i
             /\ ActionUnit(i, timestamp).time = timestamp + ExecutionDelay
  BY DEF ActionUnit
<1>2. inner_tx \in Seq(DOMAIN sent_at)
  BY DEF AccountInv, AccountTypes
<1>3. \A i \in DOMAIN inner_tx : inner_tx[i] \in DOMAIN sent_at /\ sent_at[inner_tx[i]] = timestamp
  BY <1>2, LenProperties DEF AccountInv, OnTime
<1>4. timestamp \in Nat
  BY DEF LoopInv
<1>5. ASSUME NEW item \in ActionUnits(Queue)
      PROVE  UnitOnTime(item)
  <2>1. CASE item \in pq
    BY <2>1 DEF AccountInv, OnTime, ActionUnits
  <2>2. CASE item \notin pq
    <3>1. PICK i \in DOMAIN inner_tx : item = ActionUnit(inner_tx[i], timestamp)
      BY <2>2 DEF Queue, ActionUnits
    <3> QED BY <1>1, <1>3, <1>4, <3>1 DEF UnitOnTime
  <2> QED BY <2>1, <2>2
<1>6. ASSUME Running, NEW id \in DOMAIN sent_at
      PROVE  \/ (\E item \in Queue : UnitsOf(Queue, id) = {item}) /\ id \notin DOMAIN answered
             \/ UnitsOf(Queue, id) = {} /\ id \in DOMAIN answered
  <2> DEFINE here == {ActionUnit(inner_tx[i], timestamp) : i \in Channel(id)}
  <2>1. UnitsOf(Queue, id) = UnitsOf(pq, id) \cup here
    <3>1. ASSUME NEW x \in UnitsOf(Queue, id) PROVE x \in UnitsOf(pq, id) \cup here
      <4>1. CASE x \in pq
        BY <4>1 DEF UnitsOf, ActionUnits
      <4>2. CASE x \notin pq
        <5>1. PICK i \in DOMAIN inner_tx : x = ActionUnit(inner_tx[i], timestamp)
          BY <4>2 DEF Queue, UnitsOf, ActionUnits
        <5>2. inner_tx[i] = id
          BY <1>1, <5>1 DEF UnitsOf
        <5> QED BY <5>1, <5>2 DEF Channel
      <4> QED BY <4>1, <4>2
    <3>2. ASSUME NEW x \in UnitsOf(pq, id) PROVE x \in UnitsOf(Queue, id)
      BY DEF UnitsOf, ActionUnits, Queue
    <3>3. ASSUME NEW x \in here PROVE x \in UnitsOf(Queue, id)
      <4>1. PICK i \in Channel(id) : x = ActionUnit(inner_tx[i], timestamp)
        OBVIOUS
      <4>2. i \in DOMAIN inner_tx /\ inner_tx[i] = id
        BY DEF Channel
      <4>3. x \in Queue
        BY <4>1, <4>2 DEF Queue
      <4>4. x.unit = "ActionComplete" /\ x.id = id
        BY <1>1, <4>1, <4>2
      <4> QED BY <4>3, <4>4 DEF UnitsOf, ActionUnits
    <3> HIDE DEF here
    <3> QED BY <3>1, <3>2, <3>3
  <2>2. InOnePlace(id)
    BY <1>6 DEF AccountInv
  <2>3. CASE \E i \in DOMAIN inner_tx : Channel(id) = {i}
    <3>1. PICK i \in DOMAIN inner_tx : Channel(id) = {i}
      BY <2>3
    <3>2. here = {ActionUnit(inner_tx[i], timestamp)}
      BY <3>1
    <3>3. ActionUnit(inner_tx[i], timestamp) \in Queue
      BY DEF Queue
    <3>4. UnitsOf(pq, id) = {} /\ id \notin DOMAIN answered
      BY <2>2, <3>1 DEF InOnePlace
    <3> HIDE DEF here
    <3> QED BY <2>1, <3>2, <3>3, <3>4
  <2>4. CASE Channel(id) = {}
    <3>1. here = {}
      BY <2>4
    <3>2. pq \subseteq Queue
      BY DEF Queue
    <3> HIDE DEF here
    <3> QED BY <2>1, <2>2, <2>4, <3>1, <3>2 DEF InOnePlace
  <2> QED BY <2>2, <2>3, <2>4 DEF InOnePlace
<1> QED BY <1>5, <1>6

(***************************************************************************)
(* A unit is popped and others are queued: what is left of the actions.    *)
(***************************************************************************)
LEMMA PopUnits ==
    ASSUME AccountInv, NEW item, Pop(item), NEW new, pq' = (Queue \ {item}) \cup new
    PROVE  /\ \A id : Channel(id)' = {}
           /\ \A id : UnitsOf(pq', id) = (UnitsOf(Queue, id) \ {item}) \cup UnitsOf(new, id)
           /\ ActionUnits(pq') \subseteq ActionUnits(Queue) \cup ActionUnits(new)
           /\ inner_tx' = <<>> /\ DOMAIN inner_tx' = {} /\ Len(inner_tx') <= ChannelSize
           /\ \A S : inner_tx' \in Seq(S)
<1>1. inner_tx' = <<>>
  BY DEF Pop
<1>2. DOMAIN inner_tx' = {} /\ Len(inner_tx') = 0 /\ \A S : inner_tx' \in Seq(S)
  BY <1>1
<1>3. \A id : Channel(id)' = {}
  BY <1>2 DEF Channel
<1>4. \A id : UnitsOf(pq', id) = (UnitsOf(Queue, id) \ {item}) \cup UnitsOf(new, id)
  BY DEF UnitsOf, ActionUnits
<1>5. ActionUnits(pq') \subseteq ActionUnits(Queue) \cup ActionUnits(new)
  BY DEF ActionUnits
<1>6. Len(inner_tx') <= ChannelSize
  BY <1>2, LoopAssumption
<1> QED BY <1>1, <1>2, <1>3, <1>4, <1>5, <1>6, Zenon

(***************************************************************************)
(* A tick or a notification is popped.                                     *)
(***************************************************************************)
LEMMA PopOtherAccounts ==
    ASSUME AccountInv, LoopInv, NEW item, Pop(item), NEW new,
           pq' = (Queue \ {item}) \cup new, UNCHANGED <<sent_at, answered>>,
           item.unit \notin {"ActionComplete", "Response"},
           ActionUnits(new) = {}
    PROVE  AccountInv'
<1>1. /\ \A id : Channel(id)' = {}
      /\ \A id : UnitsOf(pq', id) = (UnitsOf(Queue, id) \ {item}) \cup UnitsOf(new, id)
      /\ ActionUnits(pq') \subseteq ActionUnits(Queue) \cup ActionUnits(new)
      /\ DOMAIN inner_tx' = {} /\ Len(inner_tx') <= ChannelSize
      /\ \A S : inner_tx' \in Seq(S)
  BY PopUnits
<1>2. \A id : UnitsOf(pq', id) = UnitsOf(Queue, id)
  BY <1>1 DEF UnitsOf, ActionUnits
<1>3. AccountTypes'
  BY <1>1 DEF AccountInv, AccountTypes
<1>4. OnTime'
  <2>1. \A other \in ActionUnits(pq') : UnitOnTime(other)'
    BY <1>1, QueueAccounts DEF UnitOnTime
  <2> QED BY <1>1, <2>1 DEF AccountInv, OnTime, AnswerLatency
<1>5. ASSUME NEW id \in DOMAIN sent_at PROVE InOnePlace(id)'
  <2>1. Running
    BY DEF Pop, LoopReady, Alive
  <2>2. \/ (\E other \in Queue : UnitsOf(Queue, id) = {other}) /\ id \notin DOMAIN answered
        \/ UnitsOf(Queue, id) = {} /\ id \in DOMAIN answered
    BY <2>1, QueueAccounts
  <2>3. \A other : UnitsOf(pq', id) = {other} => other \in pq'
    BY DEF UnitsOf, ActionUnits
  <2> QED BY <1>1, <1>2, <2>2, <2>3 DEF InOnePlace
<1> QED BY <1>3, <1>4, <1>5 DEF AccountInv

(***************************************************************************)
(* An action takes place: its response takes the place of its unit.        *)
(***************************************************************************)
LEMMA PopActionAccounts ==
    ASSUME AccountInv, LoopInv, NEW item, PopAction(item)
    PROVE  AccountInv'
<1> DEFINE r == ResponseUnit(item.id, timestamp', reply')
           answer == IF Running' THEN {r} ELSE {}
           new == Notified(item.id, timestamp') \cup answer
<1>1. /\ Pop(item) /\ item.unit = "ActionComplete" /\ timestamp' = item.time
      /\ pq' = (Queue \ {item}) \cup new
      /\ UNCHANGED <<sent_at, answered>>
  BY DEF PopAction, Pop
<1>2. /\ r.unit = "Response" /\ r.id = item.id /\ r.time = timestamp' + PingNs
  BY DEF ResponseUnit
<1>3. \A n \in Notified(item.id, timestamp') : n.unit = "Notification"
  BY NotifiedUnits
<1> HIDE DEF r
<1>4. /\ ActionUnits(new) \subseteq {r}
      /\ Running' => UnitsOf(new, item.id) = {r}
      /\ \A id : id # item.id => UnitsOf(new, id) = {}
  <2>1. ActionUnits(new) = answer
    BY <1>2, <1>3 DEF ActionUnits
  <2> QED BY <1>2, <2>1 DEF UnitsOf
<1> HIDE DEF new
<1>5. /\ \A id : Channel(id)' = {}
      /\ \A id : UnitsOf(pq', id) = (UnitsOf(Queue, id) \ {item}) \cup UnitsOf(new, id)
      /\ ActionUnits(pq') \subseteq ActionUnits(Queue) \cup ActionUnits(new)
      /\ DOMAIN inner_tx' = {} /\ Len(inner_tx') <= ChannelSize
      /\ \A S : inner_tx' \in Seq(S)
  BY <1>1, PopUnits
<1>6. item \in ActionUnits(Queue) /\ UnitOnTime(item)
  BY <1>1, QueueAccounts DEF Pop, ActionUnits
<1>7. AccountTypes'
  BY <1>1, <1>5 DEF AccountInv, AccountTypes
<1>8. \A other : other = r => UnitOnTime(other)'
  <2>1. /\ item.id \in DOMAIN sent_at /\ sent_at[item.id] \in Nat
        /\ timestamp' = sent_at[item.id] + ExecutionDelay
    BY <1>1, <1>6 DEF UnitOnTime
  <2> QED BY <1>1, <1>2, <2>1 DEF UnitOnTime
<1>9. OnTime'
  <2>1. \A other \in ActionUnits(Queue) : UnitOnTime(other)'
    BY <1>1, QueueAccounts DEF UnitOnTime
  <2>2. \A other \in ActionUnits(pq') : UnitOnTime(other)'
    BY <1>4, <1>5, <1>8, <2>1
  <2> QED BY <1>1, <1>5, <2>2 DEF AccountInv, OnTime, AnswerLatency
<1>10. ASSUME Running', NEW id \in DOMAIN sent_at PROVE InOnePlace(id)'
  <2>1. Running
    BY <1>1 DEF Pop, LoopReady, Alive
  <2>2. \/ (\E other \in Queue : UnitsOf(Queue, id) = {other}) /\ id \notin DOMAIN answered
        \/ UnitsOf(Queue, id) = {} /\ id \in DOMAIN answered
    BY <2>1, QueueAccounts
  <2>3. \A other : UnitsOf(pq', id) = {other} => other \in pq'
    BY DEF UnitsOf, ActionUnits
  <2>4. CASE id = item.id
    <3>1. item \in UnitsOf(Queue, id)
      BY <1>6, <2>4 DEF UnitsOf
    <3>2. UnitsOf(Queue, id) = {item} /\ id \notin DOMAIN answered
      BY <2>2, <3>1
    <3>3. UnitsOf(pq', id) = {r}
      BY <1>4, <1>5, <1>10, <2>4, <3>2
    <3> QED BY <1>1, <1>5, <2>3, <3>2, <3>3 DEF InOnePlace
  <2>5. CASE id # item.id
    <3>1. item \notin UnitsOf(Queue, id)
      BY <2>5 DEF UnitsOf
    <3>2. UnitsOf(new, id) = {}
      BY <1>4, <2>5
    <3>3. UnitsOf(pq', id) = (UnitsOf(Queue, id) \ {item}) \cup UnitsOf(new, id)
      BY <1>5
    <3>4. UnitsOf(pq', id) = UnitsOf(Queue, id)
      BY <3>1, <3>2, <3>3
    <3> QED BY <1>1, <1>5, <2>2, <2>3, <3>4 DEF InOnePlace
  <2> QED BY <2>4, <2>5
<1>11. DOMAIN sent_at' = DOMAIN sent_at
  BY <1>1
<1> QED BY <1>7, <1>9, <1>10, <1>11 DEF AccountInv

(***************************************************************************)
(* A response reaches the client: the action is answered.                  *)
(***************************************************************************)
LEMMA PopResponseAccounts ==
    ASSUME AccountInv, LoopInv, NEW item, PopResponse(item)
    PROVE  AccountInv'
<1>1. /\ Pop(item) /\ item.unit = "Response" /\ timestamp' = item.time
      /\ pq' = (Queue \ {item}) \cup {}
      /\ answered' = Put(answered, item.id, timestamp')
      /\ UNCHANGED sent_at
  BY DEF PopResponse, Pop
<1>2. /\ DOMAIN answered' = DOMAIN answered \cup {item.id}
      /\ answered'[item.id] = timestamp'
      /\ \A k \in DOMAIN answered : k # item.id => answered'[k] = answered[k]
  BY <1>1 DEF Put
<1>3. /\ \A id : Channel(id)' = {}
      /\ \A id : UnitsOf(pq', id) = (UnitsOf(Queue, id) \ {item}) \cup UnitsOf({}, id)
      /\ ActionUnits(pq') \subseteq ActionUnits(Queue) \cup ActionUnits({})
      /\ DOMAIN inner_tx' = {} /\ Len(inner_tx') <= ChannelSize
      /\ \A S : inner_tx' \in Seq(S)
  BY <1>1, PopUnits
<1>4. ActionUnits({}) = {} /\ \A id : UnitsOf({}, id) = {}
  BY DEF UnitsOf, ActionUnits
<1>5. item \in ActionUnits(Queue) /\ UnitOnTime(item)
  BY <1>1, QueueAccounts DEF Pop, ActionUnits
<1>6. /\ item.id \in DOMAIN sent_at
      /\ timestamp' = sent_at[item.id] + ExecutionDelay + PingNs
  BY <1>1, <1>5 DEF UnitOnTime
<1>7. AccountTypes'
  BY <1>1, <1>2, <1>3, <1>6 DEF AccountInv, AccountTypes
<1>8. AnswerLatency'
  BY <1>1, <1>2, <1>6 DEF AccountInv, OnTime, AnswerLatency
<1>9. OnTime'
  <2>1. \A other \in ActionUnits(pq') : UnitOnTime(other)'
    BY <1>1, <1>3, <1>4, QueueAccounts DEF UnitOnTime
  <2> QED BY <1>3, <1>8, <2>1 DEF OnTime
<1>10. ASSUME NEW id \in DOMAIN sent_at PROVE InOnePlace(id)'
  <2>1. Running
    BY <1>1 DEF Pop, LoopReady, Alive
  <2>2. \/ (\E other \in Queue : UnitsOf(Queue, id) = {other}) /\ id \notin DOMAIN answered
        \/ UnitsOf(Queue, id) = {} /\ id \in DOMAIN answered
    BY <2>1, QueueAccounts
  <2>3. \A other : UnitsOf(pq', id) = {other} => other \in pq'
    BY DEF UnitsOf, ActionUnits
  <2>4. CASE id = item.id
    <3>1. item \in UnitsOf(Queue, id)
      BY <1>5, <2>4 DEF UnitsOf
    <3>2. UnitsOf(pq', id) = {}
      BY <1>3, <1>4, <2>2, <3>1
    <3> QED BY <1>2, <1>3, <2>4, <3>2 DEF InOnePlace
  <2>5. CASE id # item.id
    <3>1. item \notin UnitsOf(Queue, id)
      BY <2>5 DEF UnitsOf
    <3>2. UnitsOf(pq', id) = UnitsOf(Queue, id)
      BY <1>3, <1>4, <3>1
    <3>3. id \in DOMAIN answered' <=> id \in DOMAIN answered
      BY <1>2, <2>5
    <3> QED BY <1>3, <2>2, <2>3, <3>2, <3>3 DEF InOnePlace
  <2> QED BY <2>4, <2>5
<1>11. DOMAIN sent_at' = DOMAIN sent_at
  BY <1>1
<1> QED BY <1>7, <1>9, <1>10, <1>11 DEF AccountInv

(***************************************************************************)
(* Every step of the loop keeps the accounts.                              *)
(***************************************************************************)
LEMMA AccountStep ==
    ASSUME AccountInv, RoadInv, LoopInv, [LoopNext]_<<vars, loop>>
    PROVE  AccountInv'
<1>1. ASSUME NEW item, PopNewTick(item) PROVE AccountInv'
  <2> DEFINE new == {ClientTickUnit(item.symbol, item.index)}
  <2>1. /\ Pop(item) /\ item.unit = "NewTick" /\ pq' = (Queue \ {item}) \cup new
        /\ UNCHANGED <<sent_at, answered>>
    BY <1>1 DEF PopNewTick
  <2>2. ActionUnits(new) = {}
    BY DEF ActionUnits, ClientTickUnit
  <2> HIDE DEF new
  <2> QED BY <2>1, <2>2, PopOtherAccounts
<1>2. ASSUME NEW item, PopClientTick(item) \/ PopNotification(item) PROVE AccountInv'
  <2>1. /\ Pop(item) /\ item.unit \in {"ClientTick", "Notification"}
        /\ pq' = (Queue \ {item}) \cup {}
        /\ UNCHANGED <<sent_at, answered>>
    BY <1>2 DEF PopClientTick, PopNotification
  <2>2. ActionUnits({}) = {}
    BY DEF ActionUnits
  <2> QED BY <2>1, <2>2, PopOtherAccounts
<1>3. CASE PrimeQueue \/ FinishTick
  <2>1. /\ UNCHANGED <<sent_at, inner_tx, timestamp, answered>> /\ Running
        /\ pq' = pq \/ PushNextTick(pq)
    BY <1>3 DEF PrimeQueue, FinishTick, Halt, Alive
  <2>2. ActionUnits(pq') = ActionUnits(pq)
    BY <2>1 DEF PushNextTick, ActionUnits, NewTickUnit
  <2> QED BY <2>1, <2>2, AccountsSame
<1>4. CASE Ignore \/ PopNothing \/ TickOverflow \/ \E u \in Uuids : TickStep(u)
  <2>1. UNCHANGED <<sent_at, inner_tx, timestamp, answered, pq>> /\ Running
    BY <1>4 DEF Ignore, Receive, PopNothing, LoopReady, TickOverflow, Halt, TickStep, Alive
  <2> QED BY <2>1, AccountsSame
<1>5. CASE UNCHANGED <<vars, loop>>
  BY <1>5 DEF vars, loop, AccountInv, AccountTypes, OnTime, UnitOnTime, AnswerLatency, InOnePlace,
              Channel, UnitsOf, ActionUnits, Running
<1> QED
  BY <1>1, <1>2, <1>3, <1>4, <1>5, ExecuteBeforeLoopAccounts, SubmitAccounts, PopActionAccounts,
     PopResponseAccounts
  DEF LoopNext, TickSimLoop

LEMMA AccountInitInv ==
    ASSUME LoopInit
    PROVE  AccountInv
<1>1. sent_at = EmptyMap /\ answered = EmptyMap /\ inner_tx = <<>> /\ pq = {}
  BY DEF LoopInit
<1>2. DOMAIN sent_at = {} /\ DOMAIN answered = {} /\ DOMAIN inner_tx = {} /\ Len(inner_tx) = 0
      /\ \A S : inner_tx \in Seq(S)
  BY <1>1 DEF EmptyMap
<1>3. 1..0 = {} /\ 0 \in 0..MaxActions
  BY LoopAssumption
<1>4. AccountTypes
  BY <1>2, <1>3, LoopAssumption DEF AccountTypes
<1>5. ActionUnits(pq) = {}
  BY <1>1 DEF ActionUnits
<1> QED BY <1>2, <1>4, <1>5 DEF AccountInv, OnTime, AnswerLatency

(***************************************************************************)
(* A future is completed exactly execution_delay_ns plus ping_ns after     *)
(* execute was called, whatever else went through the queue meanwhile.     *)
(***************************************************************************)
THEOREM AnswersOnTime == LoopSpec => []AnswerLatency
<1>1. LoopInit => LoopInv /\ RoadInv /\ AccountInv
  BY LoopInitInv, RoadInitInv, AccountInitInv
<1>2. LoopInv /\ RoadInv /\ AccountInv /\ [LoopNext]_<<vars, loop>>
      => LoopInv' /\ RoadInv' /\ AccountInv'
  BY LoopNextStep, RoadStep, AccountStep
<1>3. AccountInv => AnswerLatency
  BY DEF AccountInv, OnTime
<1> QED BY <1>1, <1>2, <1>3, PTL DEF LoopSpec

-----------------------------------------------------------------------------
(* The end of the simulation *)

\* what neither the ways of ticks and actions nor the queue's order say
LimitsInv ==
    /\ in_loop \in BOOLEAN
    /\ halt \in Halts
    /\ primed \in 0..Cardinality(Symbols)
    /\ ~in_loop /\ Symbols # {} => primed < Cardinality(Symbols)
    /\ Len(buffer) <= BufferSize
    /\ NothingLeftBehind

(***************************************************************************)
(* When the queue is dry the streams are too, each tick is received and    *)
(* each action answered: whatever is not would be in the queue.            *)
(***************************************************************************)
LEMMA QueueDry ==
    ASSUME LoopInv, RoadInv, AccountInv, LoopReady, Queue = {}
    PROVE  /\ DOMAIN answered = DOMAIN sent_at
           /\ \A s \in Symbols : seen[s] = 2..Len(TickStreams[s])
<1>1. pq = {} /\ Running /\ in_loop /\ ticking = None
  BY DEF Queue, LoopReady, Alive
<1>2. \A id \in DOMAIN sent_at : id \in DOMAIN answered
  BY <1>1, QueueAccounts
<1>3. DOMAIN answered \subseteq DOMAIN sent_at
  BY DEF AccountInv, AccountTypes
<1>4. WithTicks(cursor) = {}
  BY <1>1 DEF LoopInv, QueueOrder, QueueAhead
<1>5. ASSUME NEW s \in Symbols PROVE seen[s] = 2..Len(TickStreams[s])
  <2>1. Len(TickStreams[s]) \in Nat
    BY StreamAssumption
  <2>2. /\ cursor[s] \in Nat /\ cursor[s] <= Len(TickStreams[s]) + 1
        /\ ~ (cursor[s] <= Len(TickStreams[s])) /\ seen[s] \subseteq Departed(s)
    BY <1>4 DEF RoadInv, RoadTypes, WithTicks
  <2>3. Departed(s) = 2..Len(TickStreams[s])
    <3>1. cursor[s] - 1 = Len(TickStreams[s])
      BY <2>1, <2>2
    <3> QED BY <3>1 DEF Departed
  <2>4. PICK at \in [Nat -> 1..4], last \in Nat : Road(s, at, last)
    BY DEF RoadInv, TicksOnRoad
  <2>5. \A i : ~ Buffered(s, i)
    BY EmptyBuffer DEF LoopReady
  <2>6. ASSUME NEW i \in Departed(s) PROVE i \in seen[s]
    <3>1. at[i] # 2 /\ at[i] # 3 /\ at[i] # 4
      BY <1>1, <2>4, <2>5 DEF Road
    <3>2. at[i] \in 1..4
      BY DepartedTicks DEF RoadInv
    <3>3. at[i] = 1
      BY <3>1, <3>2
    <3> QED BY <2>4, <3>3 DEF Road
  <2> QED BY <2>2, <2>3, <2>6
<1> QED BY <1>2, <1>3, <1>5

(***************************************************************************)
(* The messages written to the buffer fit into it.                         *)
(***************************************************************************)
LEMMA BufferFits ==
    ASSUME RoadInv, Len(buffer) <= BufferSize, [LoopNext]_<<vars, loop>>
    PROVE  Len(buffer') <= BufferSize
<1>1. CASE \E m : buffer' = <<m>>
  <2>1. Len(buffer') = 1
    BY <1>1
  <2> QED BY <2>1, LoopAssumption
<1>2. CASE Receive
  <2>1. buffer # <<>> /\ buffer' = Tail(buffer)
    BY <1>2 DEF Receive
  <2>2. CASE \E m : buffer = <<m>>
    <3>1. PICK m : buffer = <<m>>
      BY <2>2
    <3>2. Tail(<<m>>) = <<>> /\ Len(<<>>) = 0
      OBVIOUS
    <3> QED BY <2>1, <3>1, <3>2, LoopAssumption
  <2>3. CASE IsSequence(buffer)
    <3> DEFINE S == {buffer[i] : i \in DOMAIN buffer}
    <3>1. buffer \in Seq(S)
      BY <2>3 DEF IsSequence
    <3> HIDE DEF S
    <3>2. Len(Tail(buffer)) = Len(buffer) - 1 /\ Len(buffer) \in Nat
      BY <2>1, <3>1, HeadTailProperties, LenProperties
    <3> QED BY <2>1, <3>2, LoopAssumption
  <2> QED BY <2>2, <2>3 DEF RoadInv, BufferShaped
<1>3. ASSUME NEW u \in Uuids, TickStep(u) PROVE Len(buffer') <= BufferSize
  BY <1>3, TickStepBuffer
<1>4. CASE buffer' = buffer
  BY <1>4
<1>5. \/ \E m : buffer' = <<m>>
      \/ Receive
      \/ \E u \in Uuids : TickStep(u)
      \/ buffer' = buffer
  <2>1. CASE ExecuteBeforeLoop \/ PrimeQueue \/ Ignore \/ Submit
    BY <2>1 DEF ExecuteBeforeLoop, PrimeQueue, Ignore, Submit, Halt
  <2>2. ASSUME NEW item, \/ PopNewTick(item) \/ PopClientTick(item) \/ PopAction(item)
                         \/ PopResponse(item) \/ PopNotification(item)
        PROVE  (\E m : buffer' = <<m>>) \/ buffer' = buffer
    BY <2>2 DEF PopNewTick, PopClientTick, PopAction, PopResponse, PopNotification
  <2>3. CASE PopNothing \/ TickOverflow \/ FinishTick
    BY <2>3 DEF PopNothing, TickOverflow, FinishTick, Halt
  <2>4. CASE UNCHANGED <<vars, loop>>
    BY <2>4 DEF loop
  <2> QED BY <2>1, <2>2, <2>3, <2>4 DEF LoopNext, TickSimLoop
<1> QED BY <1>1, <1>2, <1>3, <1>4, <1>5

(***************************************************************************)
(* Once the loop has halted nothing happens any more, and the cause is one *)
(* of those known.                                                         *)
(***************************************************************************)
LEMMA HaltStep ==
    ASSUME LoopInv, RoadInv, AccountInv, halt \in Halts, NothingLeftBehind,
           [LoopNext]_<<vars, loop>>
    PROVE  halt' \in Halts /\ NothingLeftBehind'
<1>1. CASE UNCHANGED <<vars, loop>>
  BY <1>1 DEF loop, NothingLeftBehind
<1>2. CASE PopNothing
  <2>1. halt' = "queue empty" /\ UNCHANGED <<answered, sent_at, seen>>
    BY <1>2 DEF PopNothing, Halt
  <2>2. LoopReady /\ Queue = {}
    BY <1>2 DEF PopNothing
  <2>3. /\ DOMAIN answered = DOMAIN sent_at
        /\ \A s \in Symbols : seen[s] = 2..Len(TickStreams[s])
    BY <2>2, QueueDry
  <2> QED BY <2>1, <2>3 DEF NothingLeftBehind, Halts
<1>3. CASE LoopNext /\ ~ PopNothing
  <2>1. halt = "none"
    BY <1>3 DEF LoopNext, TickSimLoop, ExecuteBeforeLoop, PrimeQueue, PopNewTick, PopClientTick,
                PopAction, PopResponse, PopNotification, Pop, LoopReady, TickStep, TickOverflow,
                FinishTick, Ignore, Submit, Receive, Alive
  <2>2. halt' \in {"none", "no tick to start with", "buffer full", "channel full"}
    <3>1. ASSUME NEW item, \/ PopNewTick(item) \/ PopClientTick(item) \/ PopAction(item)
                           \/ PopResponse(item) \/ PopNotification(item)
          PROVE  halt' = halt
      BY <3>1 DEF PopNewTick, PopClientTick, PopAction, PopResponse, PopNotification
    <3>2. ASSUME NEW u, TickStep(u) PROVE halt' = halt
      BY <3>2 DEF TickStep
    <3>3. CASE FinishTick \/ Ignore \/ ExecuteBeforeLoop
      BY <2>1, <3>3 DEF FinishTick, Ignore, ExecuteBeforeLoop
    <3>4. CASE PrimeQueue
      BY <2>1, <3>4 DEF PrimeQueue, Halt
    <3>5. CASE TickOverflow
      BY <3>5 DEF TickOverflow, Halt
    <3>6. CASE Submit
      BY <2>1, <3>6 DEF Submit
    <3> QED BY <1>3, <2>1, <3>1, <3>2, <3>3, <3>4, <3>5, <3>6 DEF LoopNext, TickSimLoop
  <2> QED BY <2>2 DEF Halts, NothingLeftBehind
<1> QED BY <1>1, <1>2, <1>3

(***************************************************************************)
(* Filling the queue takes one round for each symbol.                      *)
(***************************************************************************)
LEMMA PrimedStep ==
    ASSUME LimitsInv, [LoopNext]_<<vars, loop>>
    PROVE  /\ in_loop' \in BOOLEAN
           /\ primed' \in 0..Cardinality(Symbols)
           /\ ~in_loop' /\ Symbols # {} => primed' < Cardinality(Symbols)
<1>1. Cardinality(Symbols) \in Nat /\ primed \in Nat /\ primed <= Cardinality(Symbols)
  BY FS_CardinalityType, LoopAssumption DEF LimitsInv
<1>2. CASE UNCHANGED <<in_loop, primed>>
  BY <1>2 DEF LimitsInv
<1>3. CASE PrimeQueue /\ ~ UNCHANGED <<in_loop, primed>>
  <2>1. /\ ~in_loop /\ WithTicks(cursor) # {}
        /\ primed' = primed + 1 /\ in_loop' = (primed' = Cardinality(Symbols))
    BY <1>3 DEF PrimeQueue, Halt
  <2>2. primed < Cardinality(Symbols)
    BY <2>1 DEF LimitsInv, WithTicks
  <2>3. primed' \in 0..Cardinality(Symbols) /\ primed' \in Nat
    BY <1>1, <2>1, <2>2
  <2>4. in_loop' \in BOOLEAN /\ (~in_loop' => primed' # Cardinality(Symbols))
    BY <2>1, Zenon
  <2>5. primed' # Cardinality(Symbols) => primed' < Cardinality(Symbols)
    BY <1>1, <2>3
  <2> QED BY <2>3, <2>4, <2>5
<1>4. CASE LoopNext /\ ~ PrimeQueue
  <2>1. ASSUME NEW item, \/ PopNewTick(item) \/ PopClientTick(item) \/ PopAction(item)
                         \/ PopResponse(item) \/ PopNotification(item)
        PROVE  UNCHANGED <<in_loop, primed>>
    BY <2>1 DEF PopNewTick, PopClientTick, PopAction, PopResponse, PopNotification
  <2>2. ASSUME NEW u, TickStep(u) PROVE UNCHANGED <<in_loop, primed>>
    BY <2>2 DEF TickStep
  <2>3. ASSUME ExecuteBeforeLoop PROVE UNCHANGED <<in_loop, primed>>
    BY <2>3 DEF ExecuteBeforeLoop
  <2>4. ASSUME Ignore \/ Submit PROVE UNCHANGED <<in_loop, primed>>
    BY <2>4 DEF Ignore, Submit
  <2>5. ASSUME PopNothing \/ TickOverflow PROVE UNCHANGED <<in_loop, primed>>
    BY <2>5 DEF PopNothing, TickOverflow, Halt
  <2>6. ASSUME FinishTick PROVE UNCHANGED <<in_loop, primed>>
    BY <2>6 DEF FinishTick
  <2>7. UNCHANGED <<in_loop, primed>>
    BY <1>4, <2>1, <2>2, <2>3, <2>4, <2>5, <2>6 DEF LoopNext, TickSimLoop
  <2> QED BY <1>2, <2>7
<1>5. CASE UNCHANGED <<vars, loop>>
  BY <1>2, <1>5 DEF loop
<1> QED BY <1>2, <1>3, <1>4, <1>5

LEMMA LimitsStep ==
    ASSUME LimitsInv, LoopInv, RoadInv, AccountInv, [LoopNext]_<<vars, loop>>
    PROVE  LimitsInv'
<1>1. halt' \in Halts /\ NothingLeftBehind'
  BY HaltStep DEF LimitsInv
<1>2. Len(buffer') <= BufferSize
  BY BufferFits DEF LimitsInv
<1> QED BY <1>1, <1>2, PrimedStep DEF LimitsInv

LEMMA LimitsInitInv ==
    ASSUME LoopInit
    PROVE  LimitsInv
<1>1. in_loop = FALSE /\ primed = 0 /\ buffer = <<>> /\ halt = "none"
  BY DEF LoopInit
<1>2. Len(buffer) = 0
  BY <1>1
<1>3. Cardinality(Symbols) \in Nat /\ (Symbols # {} => Cardinality(Symbols) # 0)
  BY FS_CardinalityType, FS_EmptySet, LoopAssumption
<1>4. 0 \in 0..Cardinality(Symbols) /\ (Symbols # {} => 0 < Cardinality(Symbols))
  BY <1>3
<1>5. Len(buffer) <= BufferSize
  BY <1>2, LoopAssumption
<1> QED BY <1>1, <1>4, <1>5 DEF LimitsInv, Halts, NothingLeftBehind

(***************************************************************************)
(* An action that is in one place is counted once.                         *)
(***************************************************************************)
LEMMA OnePlaceCounted ==
    ASSUME NEW id, InOnePlace(id)
    PROVE  Places(id) = 1
<1>1. /\ {i \in DOMAIN inner_tx : inner_tx[i] = id} = Channel(id)
      /\ {item \in pq : item.unit \in {"ActionComplete", "Response"} /\ item.id = id}
            = UnitsOf(pq, id)
  BY DEF Channel, UnitsOf, ActionUnits
<1>2. Cardinality({}) = 0 /\ \A x : Cardinality({x}) = 1
  BY FS_EmptySet, FS_Singleton
<1>3. /\ id \in DOMAIN answered => {id} \cap DOMAIN answered = {id}
      /\ id \notin DOMAIN answered => {id} \cap DOMAIN answered = {}
  OBVIOUS
<1>4. Places(id) = Cardinality(Channel(id)) + Cardinality(UnitsOf(pq, id))
                     + Cardinality({id} \cap DOMAIN answered)
  BY <1>1 DEF Places
<1>5. CASE (\E i : Channel(id) = {i}) /\ UnitsOf(pq, id) = {} /\ id \notin DOMAIN answered
  <2>1. /\ Cardinality(Channel(id)) = 1 /\ Cardinality(UnitsOf(pq, id)) = 0
        /\ Cardinality({id} \cap DOMAIN answered) = 0
    BY <1>2, <1>3, <1>5
  <2> QED BY <1>4, <2>1
<1>6. CASE Channel(id) = {} /\ (\E item : UnitsOf(pq, id) = {item}) /\ id \notin DOMAIN answered
  <2>1. /\ Cardinality(Channel(id)) = 0 /\ Cardinality(UnitsOf(pq, id)) = 1
        /\ Cardinality({id} \cap DOMAIN answered) = 0
    BY <1>2, <1>3, <1>6
  <2> QED BY <1>4, <2>1
<1>7. CASE Channel(id) = {} /\ UnitsOf(pq, id) = {} /\ id \in DOMAIN answered
  <2>1. /\ Cardinality(Channel(id)) = 0 /\ Cardinality(UnitsOf(pq, id)) = 0
        /\ Cardinality({id} \cap DOMAIN answered) = 1
    BY <1>2, <1>3, <1>7
  <2> QED BY <1>4, <2>1
<1> QED BY <1>5, <1>6, <1>7 DEF InOnePlace

LEMMA SoundFromInvariants ==
    ASSUME LimitsInv, LoopInv, RoadInv, AccountInv
    PROVE  LoopSound
<1>1. ActionsAccounted
  BY OnePlaceCounted DEF AccountInv, ActionsAccounted
<1>2. DOMAIN sent_at \subseteq Actions
  BY LoopAssumption DEF AccountInv, AccountTypes, Actions
<1>3. ASSUME NEW s \in Symbols
      PROVE  /\ cursor[s] \in 2..(Len(TickStreams[s]) + 1)
             /\ seen[s] \subseteq 2..Len(TickStreams[s])
  <2>1. /\ cursor[s] \in Nat /\ cursor[s] >= 2
        /\ cursor[s] <= Len(TickStreams[s]) + 1
    BY DEF RoadInv, RoadTypes
  <2>2. Len(TickStreams[s]) \in Nat
    BY StreamAssumption
  <2>3. seen[s] \subseteq Departed(s)
    BY DEF RoadInv, RoadTypes
  <2>4. Departed(s) \subseteq 2..Len(TickStreams[s])
    BY <2>1, <2>2 DEF Departed
  <2> QED BY <2>1, <2>2, <2>3, <2>4
<1>4. \A item \in pq : item.unit \in UnitKinds /\ item.time \in Nat
  BY DEF LoopInv, RoadInv, UnitsShaped
<1>5. LoopTypeOK
  BY <1>2, <1>3, <1>4 DEF LoopTypeOK, LimitsInv, LoopInv, AccountInv, AccountTypes
<1> QED BY <1>1, <1>5 DEF LoopSound, LimitsInv

(***************************************************************************)
(* The books of the loop: the state keeps its types and sizes, every       *)
(* action is in exactly one place until it is answered, and when the queue *)
(* runs dry every action is answered and every tick received.              *)
(***************************************************************************)
THEOREM LoopBooksSound == LoopSpec => []LoopSound
<1>1. LoopInit => LoopInv /\ RoadInv /\ AccountInv /\ LimitsInv
  BY LoopInitInv, RoadInitInv, AccountInitInv, LimitsInitInv
<1>2. LoopInv /\ RoadInv /\ AccountInv /\ LimitsInv /\ [LoopNext]_<<vars, loop>>
      => LoopInv' /\ RoadInv' /\ AccountInv' /\ LimitsInv'
  BY LoopNextStep, RoadStep, AccountStep, LimitsStep
<1>3. LoopInv /\ RoadInv /\ AccountInv /\ LimitsInv => LoopSound
  BY SoundFromInvariants
<1> QED BY <1>1, <1>2, <1>3, PTL DEF LoopSpec
=============================================================================
