------------------------------ MODULE SimLoop ------------------------------
(***************************************************************************)
(* The simulation loop around the SimBroker: the priority queue of         *)
(* timestamped work units (helpers.rs), init_sim_loop and tick_sim_loop    *)
(* (lib.rs), the client's execute (client.rs) and the driver that calls    *)
(* tick_sim_loop and feeds its output to a strategy (scripts/fuzz).        *)
(*                                                                         *)
(* One call of tick_sim_loop takes what the strategy submitted since the   *)
(* last call, pops the unit with the smallest timestamp and processes it;  *)
(* a popped NewTick goes on with the steps of tick_positions.  Then the    *)
(* driver hands the buffered output to the strategy, which may submit an   *)
(* action per message.  BinaryHeap leaves the order of units with equal    *)
(* timestamps open, and so does Pop.                                       *)
(*                                                                         *)
(* The terms of an action are chosen when it is executed: nothing looks at *)
(* them before.  Every symbol has a tick stream.                           *)
(***************************************************************************)
EXTENDS SimBroker, FiniteSets

CONSTANTS
    TickStreams,        \* symbol -> the ticks of its generator, in stream order
    SymbolIndex,        \* symbol -> its index in Symbols.data
    PingNs,             \* settings.ping_ns
    ExecutionDelay,     \* settings.execution_delay_ns
    ChannelSize,        \* capacity of the client's channel (32)
    BufferSize,         \* length of the driver's output buffer (420)
    MaxActions          \* bound: how many actions the strategy submits

ASSUME LoopAssumption ==
    /\ OneshotSymbols = {}
    /\ IsFiniteSet(Symbols)
    /\ SymbolIndex \in [Symbols -> Nat]
    /\ \A s, t \in Symbols : SymbolIndex[s] = SymbolIndex[t] => s = t
    /\ PingNs \in Nat /\ ExecutionDelay \in Nat
    /\ BufferSize \in Nat \ {0} /\ ChannelSize \in Nat /\ MaxActions \in Nat

\* Streams hold two ticks at least and never go back in time.  No reader looks at the
\* timestamps it passes on: ticks with the same one occur, also one after the other.
ASSUME StreamAssumption ==
    /\ TickStreams \in [Symbols -> Seq([timestamp : Nat, quote : Ticks])]
    /\ \A s \in Symbols :
          /\ Len(TickStreams[s]) >= 2
          /\ \A i \in 2..Len(TickStreams[s]) :
                TickStreams[s][i].timestamp >= TickStreams[s][i - 1].timestamp

VARIABLES
    in_loop,    \* SimBrokerClient.in_loop
    primed,     \* ticks SimulationQueue::init has pushed
    timestamp,  \* SimBroker.timestamp
    pq,         \* SimulationQueue.q
    cursor,     \* symbol -> stream index of Symbol.next_tick (past the end: None)
    buffer,     \* output of tick_sim_loop the strategy has not yet received
    inner_tx,   \* actions in the client's channel
    sent_at,    \* action -> when it was submitted, None if before the loop
    executed,   \* actions in the order of their execution
    answered,   \* action -> when its future was completed
    seen,       \* symbol -> stream indices of the ticks the strategy received
    halt        \* "none", or which panic of the loop ended the simulation

loop == <<in_loop, primed, timestamp, pq, cursor, buffer, inner_tx, sent_at, executed,
          answered, seen, halt>>

-----------------------------------------------------------------------------
(* Work units and output *)

TickAt(s, i) == TickStreams[s][i]

NewTickUnit(s, i) ==
    [time |-> TickAt(s, i).timestamp, unit |-> "NewTick", symbol |-> s, index |-> i]
ClientTickUnit(s, i) ==
    [time |-> TickAt(s, i).timestamp + PingNs, unit |-> "ClientTick", symbol |-> s, index |-> i]
ActionUnit(id, t) ==
    [time |-> t + ExecutionDelay, unit |-> "ActionComplete", id |-> id]
\* Mutant: the response does not take the ping back to the client.
ResponseUnitAtOnce(id, t, res) ==
    [time |-> t, unit |-> "Response", id |-> id, made |-> t, res |-> res]

ResponseUnit(id, t, res) ==
    [time |-> t + PingNs, unit |-> "Response", id |-> id, made |-> t, res |-> res]
NotificationUnit(id, t, res) ==
    [time |-> t + PingNs, unit |-> "Notification", id |-> id, made |-> t, res |-> res]

\* TickOutput; made is the time at which the broker produced the message
TickOutput(s, i) == [out |-> "Tick", symbol |-> s, index |-> i]
Pushstream(res, t) == [out |-> "Pushstream", res |-> res, made |-> t]

-----------------------------------------------------------------------------
(* Symbols.next_tick and push_next_tick *)

WithTicks(cur) == {s \in Symbols : cur[s] <= Len(TickStreams[s])}

\* Mutant: the first symbol with a tick left is taken.
BeforeByIndex(cur, s, t) == SymbolIndex[s] <= SymbolIndex[t]

\* s comes before t: earlier next tick, or equal and lower index
Before(cur, s, t) ==
    LET ts == TickAt(s, cur[s]).timestamp
        tt == TickAt(t, cur[t]).timestamp
    IN  ts < tt \/ (ts = tt /\ SymbolIndex[s] <= SymbolIndex[t])

\* push_next_tick on top of queue q
PushNextTick(q) ==
    IF WithTicks(cursor) = {}
    THEN pq' = q /\ UNCHANGED cursor
    ELSE \E s \in WithTicks(cursor) :
            /\ \A t \in WithTicks(cursor) : Before(cursor, s, t)
            /\ pq' = q \cup {NewTickUnit(s, cursor[s])}
            /\ cursor' = [cursor EXCEPT ![s] = @ + 1]

-----------------------------------------------------------------------------
(* Setting up *)

\* A panic of the loop itself; the broker's own panics are in panic.
Halt(cause) ==
    /\ halt' = cause
    /\ UNCHANGED <<vars, in_loop, primed, timestamp, pq, cursor, buffer, inner_tx, sent_at,
                   executed, answered, seen>>

Alive == Running /\ halt = "none"

Actions == 1..MaxActions

\* what buying_power_changed queued during the action just executed
Notified(id, t) ==
    IF Running' THEN {NotificationUnit(id, t, notes'[i]) : i \in DOMAIN notes'} ELSE {}

\* SimBroker.new and register_tickstream: each stream's first tick is read and overwritten.
LoopInit ==
    /\ Init
    /\ in_loop = FALSE
    /\ primed = 0
    /\ timestamp = 0
    /\ pq = {}
    /\ cursor = [s \in Symbols |-> 2]
    /\ buffer = <<>>
    /\ inner_tx = <<>>
    /\ sent_at = EmptyMap
    /\ executed = <<>>
    /\ answered = EmptyMap
    /\ seen = [s \in Symbols |-> {}]
    /\ halt = "none"

\* execute before the loop has started: done at once, only the notification is queued.
ExecuteBeforeLoop ==
    LET id == Cardinality(DOMAIN sent_at) + 1
    IN  /\ Alive /\ ~in_loop /\ primed = 0
        /\ id \in Actions
        /\ ExecAction
        /\ sent_at' = Put(sent_at, id, None)
        /\ executed' = Append(executed, id)
        /\ answered' = Put(answered, id, timestamp)
        /\ pq' = pq \cup Notified(id, timestamp)
        /\ UNCHANGED <<in_loop, primed, timestamp, cursor, buffer, inner_tx, seen, halt>>

\* Mutant: one round too many.
PrimeQueueOnceMore ==
    /\ Alive /\ ~in_loop
    /\ PushNextTick(pq)
    /\ primed' = primed + 1
    /\ in_loop' = (primed' > Cardinality(Symbols))
    /\ UNCHANGED <<vars, timestamp, buffer, inner_tx, sent_at, executed, answered, seen, halt>>

\* One round of SimulationQueue::init; the unwrap fails if the streams are too short.
PrimeQueue ==
    /\ Alive /\ ~in_loop
    /\ IF WithTicks(cursor) = {} THEN Halt("no tick to start with")
       ELSE /\ PushNextTick(pq)
            /\ primed' = primed + 1
            /\ in_loop' = (primed' = Cardinality(Symbols))
            /\ UNCHANGED <<vars, timestamp, buffer, inner_tx, sent_at, executed, answered,
                           seen, halt>>

-----------------------------------------------------------------------------
(* tick_sim_loop *)

\* the queue with what the strategy submitted since the last call
Queue == pq \cup {ActionUnit(inner_tx[i], timestamp) : i \in DOMAIN inner_tx}

\* The driver has handed out all output and calls tick_sim_loop again.
LoopReady == Alive /\ in_loop /\ ticking = None /\ buffer = <<>>

\* Mutant: the comparison is not reversed, and the max-heap yields the latest unit.
PopLatest(item) ==
    /\ LoopReady
    /\ item \in Queue
    /\ \A other \in Queue : item.time >= other.time
    /\ timestamp' = item.time
    /\ inner_tx' = <<>>

\* Mutant: what was received from the channel is not taken out of it.
PopPeeking(item) ==
    /\ LoopReady
    /\ item \in Queue
    /\ \A other \in Queue : item.time <= other.time
    /\ timestamp' = item.time
    /\ UNCHANGED inner_tx

\* item is popped: one of those with the smallest timestamp
Pop(item) ==
    /\ LoopReady
    /\ item \in Queue
    /\ \A other \in Queue : item.time <= other.time
    /\ timestamp' = item.time
    /\ inner_tx' = <<>>

\* Mutant: the tick is not forwarded to the client.
PopNewTickUnforwarded(item) ==
    /\ Pop(item)
    /\ item.unit = "NewTick"
    /\ NewTick(item.symbol, TickAt(item.symbol, item.index).quote)
    /\ pq' = Queue \ {item}
    /\ UNCHANGED <<in_loop, primed, cursor, buffer, sent_at, executed, answered, seen, halt>>

\* A tick arrives at the broker.
PopNewTick(item) ==
    /\ Pop(item)
    /\ item.unit = "NewTick"
    /\ NewTick(item.symbol, TickAt(item.symbol, item.index).quote)
    /\ pq' = (Queue \ {item}) \cup {ClientTickUnit(item.symbol, item.index)}
    /\ UNCHANGED <<in_loop, primed, cursor, buffer, sent_at, executed, answered, seen, halt>>

(***************************************************************************)
(* A step of tick_positions writes its messages (one for a fill, two for a *)
(* closure) straight into the output buffer.                               *)
(***************************************************************************)
Room(messages) == Len(buffer) + messages <= BufferSize

TickStep(u) ==
    /\ Alive
    /\ \/ Room(1) /\ OpenPending(u)
       \/ (Room(2) \/ u \notin DOMAIN open_positions) /\ CloseOpen(u)
    /\ buffer' = IF Running'
                 THEN buffer \o [i \in DOMAIN notes' |-> Pushstream(notes'[i], timestamp)]
                 ELSE buffer
    /\ UNCHANGED <<in_loop, primed, timestamp, pq, cursor, inner_tx, sent_at, executed,
                   answered, seen, halt>>

\* The buffer is indexed past its end.
TickOverflow ==
    /\ Alive /\ ticking # None
    /\ \/ Fillable # {} /\ ~Room(1)
       \/ Fillable = {} /\ Closable \cap DOMAIN open_positions # {} /\ ~Room(2)
    /\ Halt("buffer full")

\* Mutant: push_next_tick is forgotten.
FinishTickOnly ==
    /\ Alive
    /\ TickDone
    /\ UNCHANGED <<in_loop, primed, timestamp, pq, cursor, buffer, inner_tx, sent_at, executed,
                   answered, seen, halt>>

\* Mutant: the loop goes on before tick_positions has looked at every position.
FinishTickEarly ==
    /\ Alive /\ ticking # None
    /\ ticking' = None
    /\ notes' = <<>>
    /\ PushNextTick(pq)
    /\ UNCHANGED <<price, ledger, cache, issued, reply, panic, in_loop, primed, timestamp,
                   buffer, inner_tx, sent_at, executed, answered, seen, halt>>

\* tick_positions is done: the next future tick enters the queue.
FinishTick ==
    /\ Alive
    /\ TickDone
    /\ PushNextTick(pq)
    /\ UNCHANGED <<in_loop, primed, timestamp, buffer, inner_tx, sent_at, executed,
                   answered, seen, halt>>

\* A tick arrives at the client.
PopClientTick(item) ==
    /\ Pop(item)
    /\ item.unit = "ClientTick"
    /\ pq' = Queue \ {item}
    /\ buffer' = <<TickOutput(item.symbol, item.index)>>
    /\ UNCHANGED <<vars, in_loop, primed, cursor, sent_at, executed, answered, seen, halt>>

\* An action takes place; response and notification start their way back.
PopAction(item) ==
    /\ Pop(item)
    /\ item.unit = "ActionComplete"
    /\ ExecAction
    /\ executed' = Append(executed, item.id)
    /\ pq' = (Queue \ {item}) \cup Notified(item.id, timestamp')
                \cup (IF Running' THEN {ResponseUnit(item.id, timestamp', reply')} ELSE {})
    /\ UNCHANGED <<in_loop, primed, cursor, buffer, sent_at, answered, seen, halt>>

\* Mutant: the response goes to the pushstream, the future is never completed.
PopResponseUnresolved(item) ==
    /\ Pop(item)
    /\ item.unit = "Response"
    /\ pq' = Queue \ {item}
    /\ buffer' = <<Pushstream(item.res, item.made)>>
    /\ UNCHANGED <<vars, in_loop, primed, cursor, sent_at, executed, answered, seen, halt>>

\* A response reaches the client.
PopResponse(item) ==
    /\ Pop(item)
    /\ item.unit = "Response"
    /\ pq' = Queue \ {item}
    /\ answered' = Put(answered, item.id, timestamp')
    /\ buffer' = <<Pushstream(item.res, item.made)>>
    /\ UNCHANGED <<vars, in_loop, primed, cursor, sent_at, executed, seen, halt>>

\* A notification reaches the client.
PopNotification(item) ==
    /\ Pop(item)
    /\ item.unit = "Notification"
    /\ pq' = Queue \ {item}
    /\ buffer' = <<Pushstream(item.res, item.made)>>
    /\ UNCHANGED <<vars, in_loop, primed, cursor, sent_at, executed, answered, seen, halt>>

\* The unwrap on an empty queue: how every simulation of finite streams ends.
PopNothing ==
    /\ LoopReady
    /\ Queue = {}
    /\ Halt("queue empty")

-----------------------------------------------------------------------------
(* The driver and the strategy *)

\* The strategy receives the next message ...
Receive ==
    /\ Alive /\ in_loop /\ ticking = None
    /\ buffer # <<>>
    /\ buffer' = Tail(buffer)
    /\ seen' = IF Head(buffer).out = "Tick"
               THEN [seen EXCEPT ![Head(buffer).symbol] = @ \cup {Head(buffer).index}]
               ELSE seen

\* ... and does nothing,
Ignore ==
    /\ Receive
    /\ UNCHANGED <<vars, in_loop, primed, timestamp, pq, cursor, inner_tx, sent_at,
                   executed, answered, halt>>

\* or submits an action; try_send fails when the channel is full.
Submit ==
    LET id == Cardinality(DOMAIN sent_at) + 1
    IN  /\ id \in Actions
        /\ IF Len(inner_tx) >= ChannelSize THEN Receive /\ halt' = "channel full"
                                                /\ UNCHANGED <<inner_tx, sent_at>>
           ELSE /\ Receive
                /\ inner_tx' = Append(inner_tx, id)
                /\ sent_at' = Put(sent_at, id, timestamp)
                /\ UNCHANGED halt
        /\ UNCHANGED <<vars, in_loop, primed, timestamp, pq, cursor, executed, answered>>

-----------------------------------------------------------------------------

TickSimLoop ==
    \/ \E item \in Queue : \/ PopNewTick(item) \/ PopClientTick(item) \/ PopAction(item)
                           \/ PopResponse(item) \/ PopNotification(item)
    \/ PopNothing
    \/ \E u \in Uuids : TickStep(u)
    \/ TickOverflow
    \/ FinishTick

LoopNext == ExecuteBeforeLoop \/ PrimeQueue \/ TickSimLoop \/ Ignore \/ Submit

LoopSpec == LoopInit /\ [][LoopNext]_<<vars, loop>>

\* The driver's thread runs: it never stops calling the loop and the strategy.
FairLoopSpec ==
    /\ LoopSpec
    /\ WF_<<vars, loop>>(TickSimLoop)
    /\ WF_<<vars, loop>>(PrimeQueue)
    /\ WF_<<vars, loop>>(Ignore \/ Submit)

-----------------------------------------------------------------------------
(* Types *)

Halts == {"none", "no tick to start with", "queue empty", "buffer full", "channel full"}

UnitKinds == {"NewTick", "ClientTick", "ActionComplete", "Response", "Notification"}

(***************************************************************************)
(* The state of the loop has the types of its declarations; the buffer and *)
(* the channel keep their sizes.                                           *)
(***************************************************************************)
LoopTypeOK ==
    /\ in_loop \in BOOLEAN
    /\ primed \in 0..Cardinality(Symbols)
    /\ timestamp \in Nat
    /\ \A item \in pq : item.unit \in UnitKinds /\ item.time \in Nat
    /\ \A s \in Symbols : cursor[s] \in 2..(Len(TickStreams[s]) + 1)
    /\ \A s \in Symbols : seen[s] \subseteq 2..Len(TickStreams[s])
    /\ Len(buffer) <= BufferSize
    /\ Len(inner_tx) <= ChannelSize
    /\ DOMAIN sent_at \subseteq Actions
    /\ DOMAIN answered \subseteq DOMAIN sent_at
    /\ halt \in Halts

-----------------------------------------------------------------------------
(* Safety *)

\* ticks of the queue are ticks of the streams
TickUnitsValid ==
    \A item \in pq : item.unit = "NewTick" =>
        /\ item.symbol \in Symbols
        /\ item.index \in 1..Len(TickStreams[item.symbol])
        /\ item.time = TickAt(item.symbol, item.index).timestamp

\* nothing that is still to happen is in the past
NothingOverdue ==
    /\ \A item \in pq : item.time >= timestamp
    /\ \A s \in WithTicks(cursor) : TickAt(s, cursor[s]).timestamp >= timestamp

\* the queue holds earlier ticks than the streams, and one at least while they last
QueueAhead ==
    /\ \A item \in pq : item.unit = "NewTick" =>
          \A s \in WithTicks(cursor) : item.time <= TickAt(s, cursor[s]).timestamp
    /\ in_loop /\ ticking = None /\ WithTicks(cursor) # {} =>
          \E item \in pq : item.unit = "NewTick"

(***************************************************************************)
(* Nothing in the queue or at the head of a stream lies in the past, and   *)
(* the queue always holds the earliest tick that is still to come: that is *)
(* what lets the loop look at the queue alone for the next thing to do.    *)
(***************************************************************************)
QueueOrder == TickUnitsValid /\ NothingOverdue /\ QueueAhead

(***************************************************************************)
(* tick_sim_loop never goes back in time, although ticks of several        *)
(* streams, actions, responses and notifications enter the queue with      *)
(* different delays and only a few future ticks are in it at a time.       *)
(***************************************************************************)
ClockMonotone == [][timestamp' >= timestamp]_<<vars, loop>>

\* how often action id is on its way: in the channel, in the queue, or answered
Places(id) ==
    Cardinality({i \in DOMAIN inner_tx : inner_tx[i] = id})
  + Cardinality({item \in pq : item.unit \in {"ActionComplete", "Response"} /\ item.id = id})
  + Cardinality({id} \cap DOMAIN answered)

(***************************************************************************)
(* An action submitted through execute is always in exactly one place: it  *)
(* is never lost, never executed twice and never answered twice, unless    *)
(* its own execution kills the broker.                                     *)
(***************************************************************************)
ActionsAccounted ==
    Running => \A id \in DOMAIN sent_at : Places(id) = 1

(***************************************************************************)
(* A future is completed exactly execution_delay_ns plus ping_ns after the *)
(* strategy submitted the action, whatever else the queue held meanwhile.  *)
(***************************************************************************)
AnswerLatency ==
    \A id \in DOMAIN answered :
        sent_at[id] # None => answered[id] = sent_at[id] + ExecutionDelay + PingNs

\* where tick i of s is: received, in the buffer, on its way, at the broker's door
TickStages(s, i) ==
    {k \in 1..4 : CASE k = 1 -> i \in seen[s]
                    [] k = 2 -> \E j \in DOMAIN buffer : buffer[j] = TickOutput(s, i)
                    [] k = 3 -> ClientTickUnit(s, i) \in pq
                    [] k = 4 -> NewTickUnit(s, i) \in pq}

(***************************************************************************)
(* The ticks of a symbol that have left its stream are each in exactly one *)
(* stage on their way to the strategy, so it receives each of them once;   *)
(* and a tick is never overtaken by a later one of its symbol.  Ticks of   *)
(* the same time are: the heap compares nothing but timestamps, and what   *)
(* shares one comes out in any order.                                      *)
(***************************************************************************)
TicksInOrder ==
    \A s \in Symbols : \A i, j \in 2..(cursor[s] - 1) :
        /\ Cardinality(TickStages(s, i)) = 1
        /\ TickAt(s, i).timestamp < TickAt(s, j).timestamp =>
              \A k \in TickStages(s, i), l \in TickStages(s, j) : k <= l

\* q is the price of s once tick i has arrived and whatever is later than it comes at t
\* or after; the first tick of a stream is none
PriceUpTo(s, i, q, t) ==
    /\ q = IF i = 1 THEN ZeroQuote ELSE TickAt(s, i).quote
    /\ \A j \in 2..Len(TickStreams[s]) :
          i = 1 \/ TickAt(s, j).timestamp > TickAt(s, i).timestamp =>
              TickAt(s, j).timestamp >= t

(***************************************************************************)
(* An action is executed at the right prices: each symbol has the quote of *)
(* one of its ticks (or none yet) and every later tick of it is due at the *)
(* time of the execution or after it, so push_next_tick, which adds one    *)
(* tick per processed tick whatever its symbol, never runs behind.  Which  *)
(* one of several ticks of the same time gives the quote is open.          *)
(***************************************************************************)
PricesCurrent ==
    [][executed' # executed =>
          \A s \in Symbols : \E i \in 1..(cursor[s] - 1) :
              PriceUpTo(s, i, price[s], timestamp')
      ]_<<vars, loop>>

(***************************************************************************)
(* When the loop dies of an empty queue, nothing is left behind: every     *)
(* action was answered and the strategy has seen every tick.               *)
(***************************************************************************)
NothingLeftBehind ==
    halt = "queue empty" => /\ DOMAIN answered = DOMAIN sent_at
                            /\ \A s \in Symbols : seen[s] = 2..Len(TickStreams[s])

(***************************************************************************)
(* The books of the loop: every action is in exactly one place from its    *)
(* submission to its answer, and what is left when the queue runs dry is   *)
(* nothing.                                                                *)
(***************************************************************************)
LoopSound == LoopTypeOK /\ ActionsAccounted /\ NothingLeftBehind

(***************************************************************************)
(* Every step of the loop is a step of the broker or leaves it alone: what *)
(* is shown for the broker holds for it inside the loop.                   *)
(***************************************************************************)
RefinesBroker == Spec

-----------------------------------------------------------------------------
(* Progress *)

\* The simulation died of something other than the end of the streams.
DiedEarly == ~Running \/ halt \notin {"none", "queue empty"}

(***************************************************************************)
(* Every submitted action is answered before the streams run out, unless a *)
(* panic ends the simulation early.                                        *)
(***************************************************************************)
EveryActionAnswered ==
    \A id \in Actions : (id \in DOMAIN sent_at) ~> (id \in DOMAIN answered \/ DiedEarly)
=============================================================================
