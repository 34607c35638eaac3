# TickGrinder: a TLA+ model of the platform's core

TickGrinder is an event-driven trading platform in Rust. Independent processes
(spawner, backtester, tick parsers, optimizer, logger) exchange `Command`s and
`Response`s over Redis pub/sub; strategies trade through the `Broker` trait, and
the SimBroker implements that trait as a simulated broker with simulated
latency, fed by historical ticks. This directory models the parts whose
correctness is hard to test: the broker's books, the simulated event loop, the
servers that send commands and queries through pools of threads, the backtester
and its tick streams, the spawner and its instances, and the services around
them (documents, Redis bridge, downloads).

## Inventory

| Component | State | Operations | Interaction | What makes it hard |
|---|---|---|---|---|
| Ledger, Position (`util/src/trading/objects.rs`) | buying power; pending, open and closed positions by uuid | place, modify, cancel, open, close, resize; the fill, close and sanity predicates | called by the SimBroker | error paths after a removal, `usize` arithmetic |
| SimBroker (`broker_shims/simbroker/src/lib.rs`, `helpers.rs`) | prices, one account, a per-symbol cache of positions | the arms of `exec_action`, `tick_positions`, `oneshot_price_set` | called by the loop | the same position lives in ledger and cache; `unwrap`, `expect` and `assert!` guard the agreement |
| Simulation loop (`tick_sim_loop`, `SimulationQueue`, `Symbols`) | clock, heap of timestamped units, stream cursors | pop a unit, run it, push follow-ups with latency | streams in, messages out, actions back | events of several streams, actions and responses in time order with one tick of look-ahead |
| SimBrokerClient (`client.rs`) and driver (`scripts/fuzz`) | action channel (32), output buffer (420) | `execute`, `init_sim_loop`, `exec` | strategy and broker | bounded channel and buffer, zero-capacity channels |
| CommandServer (`util/src/transport/command_server.rs`) | idle workers, queued commands, AlertList, sleepers | `execute`, `broadcast`, the worker, sleeper, response and waiting threads | Redis, other instances | threads, lost and duplicated responses, timeouts, poisoned mutexes |
| QueryServer (`query_server.rs`) | idle connections, queued queries | `execute`, couriers, worker threads | Postgres | the same check-then-act; a worker that never connected |
| Tick streams (`tickstream/mod.rs`, generators, maps) | mailbox and its flag, park token, channel | pause, resume, stop; read, map, send | backtester, SimBroker | an `AtomicBool` and a `Mutex` that are not updated together |
| Backtester (`backtester/src`) | running backtests and their handles, simbrokers | start, pause, resume, stop, kill | tick streams, sinks | handles of finished backtests, readers nobody listens to |
| Strategies (`util/src/strategies.rs`), Fuzzer, SMA (`private/`) | handlers and their subscriptions; a mirror of the account; a window of prices | tick, handler add and remove | SimBroker, streams | two vectors and a map kept in step by hand |
| Spawner (`spawner/src/main.rs`), Tick parser, Optimizer, Logger | list of living instances | boot, heartbeat, command handlers, `kill_all` | all through the CommandServer | repeated Ready, lost answers, a list two threads share, a Kill sent to oneself |
| Documents (`spawner/src/documents.rs`) | index and files on disk, the store thread | insert, query, get; load the static documents | spawner's listener | restarts between the steps that create and fill the store |
| Redis proxy (`spawner/src/redis_proxy.rs`) | two bounded stores of seen messages | three message handlers | websocket clients, Redis | eviction while a message is on its way round |
| Data transfer, downloaders (`data.rs`, `data_downloaders/`) | chunk and batch buffers, running downloads | download, transfer, list | Postgres, files, the FXCM library | leftovers at the end, a directory that goes away, equal descriptors, poisoned locks |
| FXCM shim, configurator, mm, mm-react | - | I/O, FFI, user interfaces | - | outside the reach of a model |

`PROJECT.json` lists each component with its status, and the hazards line by line.

## Modules

| Module | Models | Builds on |
|---|---|---|
| `Position` | the position record and `is_open_satisfied`, `is_close_satisfied`, `check_sanity` | |
| `SimBroker` | ledger, cache, `exec_action`, `tick_positions` | `Position` |
| `TickScan` | the Vecs of the cache and the index-stepped loops of `tick_positions` | `SimBroker` |
| `SimLoop` | queue, clock, latency, client, driver | `SimBroker` |
| `StreamForks` | the streams a SimBrokerClient hands out and the threads that consume them | |
| `CommandServer` | worker pool, timeouts, AlertList, broadcasts | `WorkPool` (refinement) |
| `QueryServer` | connection pool, couriers, queued queries | `WorkPool` (refinement) |
| `WorkPool` | what both pools promise: a task runs at most once, on one of so many workers, and its outcome is final | |
| `Tickstream` | the four readers, `check_mail`, the listener thread | |
| `Backtester` | commands, handles, consumer threads, simbrokers | `Tickstream` |
| `Spawner` | the instance list, heartbeat and listener threads, the instances | |
| `DocumentStore` | the store thread, its index across restarts, the commands that use it | |
| `RedisProxy` | the bridge and its `ReceivedMessages` | |
| `Transfer` | chunked sources, batching sinks, the transfer thread | |
| `FlatfileDownloader`, `NativeDownloader` | the two downloaders | `Transfer` |
| `ContingencyHandlers` | the manager of contingency handlers | |
| `QueueLemmas` | lemmas about queues and lists: what is in them, how often and where | |
| `SimBroker_proofs` | theorems about the broker and its loops | `TickScan` |
| `SimLoop_proofs`, `CommandServer_proofs`, `QueryServer_proofs`, `Spawner_proofs`, `Backtester_proofs` | theorems | the module of that name, `QueueLemmas` |
| `Services_proofs` | theorems about handlers, documents, forks, proxy, transfers and both downloaders | their modules, `QueueLemmas` |
| `MCSimBroker`, `MCSimLoop`, `MCCommandServer`, `MCBacktester`, `MCSpawner`, `MCServices` | the instances TLC checks | |

### SimBroker

`exec_action` runs to its end before anything else happens, so each of its arms
is one action: `MarketOrder`, `LimitOrder`, `MarketClose`, `LimitClose`,
`ModifyOrder`, `CancelOrder`, `ModifyPosition`, `Ping`, `GetLedger`,
`ListAccounts`, `Disconnect`. The methods of `Ledger` (`LedgerPlaceOrder`, ...,
`LedgerResizePosition`) and of the cache (`OrderPlaced`, ...,
`PositionModified`) are operators used inside those actions, never actions of
their own. A price update is a run of
steps: `NewTick`, an `OpenPending` per filled order, a `CloseOpen` per closed
position, `TickDone` once nothing is left to fill or to close; `ticking` keeps
everything else out, as the code does.

That `tick_positions` gets to that point is a claim about its two `while` loops,
which remove from the `Vec` they walk and step the index by hand. `TickScan`
models them: `pending_vec` and `open_vec` hold the entries of each symbol in
order, `FillNext` and `CloseNext` handle the entry at `index`, step past it,
remove it from behind and step back, `PassPending` and `PassOpen` step past, and
a loop ends when the index has run past its `Vec`, whatever is left in it. That
its steps are steps of `SimBroker` (`NothingSkipped`, `ScanImplementsBroker`)
says that nothing is.

Peculiarities of the code that the model keeps:

- `market_close` goes through `Ledger::resize_position`, which removes the
  position first. A full close, an overlarge one and one that cannot be paid for
  all end in an error *and* a position gone from the ledger, while the cache
  keeps it; a partial close charges the account and leaves the old size in the
  cache.
- `modify_order` tests the terms before the modification for marketability, and
  where they are marketable opens a copy without execution data, which panics.
- `cancel_order` does not return what the order had reserved.
- a long limit order that fails its own test is tested like a short one.
- a symbol created by `oneshot_price_set` has no cache slot.

Abstractions: hash maps are functions; the cache of all symbols is one function,
since each uuid is pushed once; in `SimBroker` the order inside a `Vec` (which
decides only the order of fills within one tick) is left open, in `TickScan` it is
the code's; a position's `execution_price` and
`execution_time`, always set together, are one field; exit data never reaches a
ledger entry and is dropped; timestamps in messages are dropped. Symbols created
by `oneshot_price_set` exist from the start. `ConvertDecimals` is the integer
arithmetic of the code; `MCSimBroker` evaluates it on the table of the
repository's own `decimal_conversion` test. Overflow of `usize` at 2^64 is not
modelled; falling below zero is (`TypeOK`).

### SimLoop

One `tick_sim_loop` call is a `Pop...` action, followed for a tick by the
broker's `tick_positions` steps and `FinishTick`. `Pop` takes any unit with the
smallest timestamp: `QueueItem` compares timestamps only, and a `BinaryHeap`
gives no order to equal ones, be they ticks of one stream. The strategy receives the output message by
message (`Ignore`, `Submit`). What an action asks for is chosen when it is
executed, since nothing looks at it earlier. The loop's own panics (empty queue,
buffer index, full channel) are values of `halt`.

### CommandServer

A step ends where a thread takes a lock, blocks, or hands something to another
thread. `caller[c]` is the thread inside `execute`; `CheckIdle`, `Enqueue` and
`TakeWorker` are its lock regions. `pc[w]` is the worker inside
`send_command_outer` and `dispatch_worker`; `SleeperWakes` is its sleeper,
whose `token` is the one of `Thread::unpark`; `ReturnWorker` is the waiting
thread of `execute`. Redis is external: `SendMessages` delivers a response to a
published command at any time, once per responder, or never. A panic with a
lock held poisons the mutex (`al_poisoned`, `conn_poisoned`), and whoever locks
it later panics. Contents of commands and responses are dropped; a uuid is the
command and the number of its attempt, since `wrap` makes a new one per attempt.
The sleeper may wake at any time, so a timeout cut short by a token left over
from an earlier `unpark` is among the behaviours.

### QueryServer and WorkPool

`asker[q]` is the thread inside `execute` (`CheckConns`, `EnqueueQuery`,
`TakeConn` are its lock regions), `courier[q]` the thread it spawns, `worker[w]`
the thread of a connection. A worker that cannot connect is dead from the start
with its sender still in the pool. Both servers map to `WorkPool`: a task is
`new` until `execute` has decided, `waiting` in the queue, `running` with a
worker, `done`, or `lost` with a thread that panicked. The mapping is by state
(`QueryStatus`, `CommandStatus`), so a worker that ran a task twice, or two
workers that took the same one, would not map to a step of the pool.

### StreamForks

`chain[s]` is the sequence of forks of one stream, the broker's channel first;
each link has the one message a futures `channel(0)` with one sender holds, the
message in its consumer's hand, and the number of the `AtomicBool` (`gate`) that
its consumer looks at before it copies on. `SubTicks` is `sub_ticks` and
`get_stream`; `InitSimLoop`, `ForkTickstream`, `HandTail` and `SpawnConsumers`
are the stages of `init_sim_loop`, which ends only if every tail fits into the
channel that nobody reads yet.

### Tickstream and Backtester

A reader is a record of the order of its steps (`RandomReader`, `RedisReader`,
`FlatfileReader`, `PostgresReader`), run by the same actions: `Fetch`,
`LoadFlag`, `ReadMessage`, `ClearFlag`, `ApplyMap`, `Send`; the loads and stores
of `check_mail` are separate steps. A random reader produces ticks for ever, as
the definition of a backtest may lack an exit condition: its first `RandomTicks`
ticks are modelled, and after them it goes round its loop without a new one
(`FetchLeftOut`), still reading its mail. `Relay` is the listener thread. The
backtester handles one command per step; a command to a full handle channel
waits.

### Spawner

`heartbeat` is the main thread: spawn the logger, ping, kill who answers, start
to listen, register, then ping, compare and look into the first missing instance
for good. `listener` handles Ready, Kill, Spawn and KillAll. A command sent with
`execute` is one step: answered, or lost (at most `MaxLost` times). An optimizer
answers Kill and lives on, as its code does.

### DocumentStore, RedisProxy, downloads, handlers

`DocumentStore` keeps what is on disk apart from what a process knows, and
`SpawnerStops` can strike between any two steps. `RedisProxy` has the two
message stores with their ids and the panic of `add`. `Transfer` moves row
numbers through chunk and batch buffers: the last chunk of a file that is not
full ends the thread, and a batch that is not full is never written, as in the
code. A write to a file or to Redis may fail and panic (`RxPanics`): a file loses
the row, Redis has taken some prefix of the pipelined batch. A batch for Postgres
is a query handed to a `QueryServer` of ten connections: it is executed at some
later time, in any order, or lost without a word (`Settled`). `FlatfileDownloader` adds the weekly files, the temporary directory and the
lock a panic poisons; `NativeDownloader` the callback of the library, which gives the
ticks of a history in any order, and the list of descriptors. `ContingencyHandlers` has the vector, the map and the rows.

## Runs

| Run | Instance | Question |
|---|---|---|
| `broker` | one symbol, two uuids, sizes 1 and 2, balance 2, a limit price inside the spread of one quote and at the other | do ledger and cache agree after any sequence of actions and ticks (`PendingCacheCoherent`, `OpenPositionsWatched`), do the panics that guard them stay silent (`CachePanicsUnreachable`), do the loops over the cache skip no entry (`NothingSkipped`), do orders only move forward (`ForwardOnly`), does no money appear (`NoMoneyFromNothing`) |
| `broker_rich` | a currency pair that is its own base rate, one without a rate, a oneshot symbol, a foreign account id, size 0 | do the inductive invariants hold, that of the broker (`IInv`, with `TypeOK`, `StagesDisjoint`, `ExecutionData` and `ValuesKnown` among its conjuncts) and that of the loops (`ScanInv`), together `ScanSound`; does every price update end (`TickTerminates`) |
| `loop` | two streams that tick at the same time, one of them twice at it, ping 2, execution delay 1, three actions, channel and buffer of size 2 | is everything in time order (`QueueOrder`, `ClockMonotone`), is no action or tick lost or doubled, and no tick overtaken by a later one (`ActionsAccounted`, `TicksInOrder`, `NothingLeftBehind`), is the latency exact (`AnswerLatency`), are actions executed at current prices (`PricesCurrent`), is the loop an implementation of the broker (`RefinesBroker`), is every action answered unless a panic ends the simulation (`EveryActionAnswered`) |
| `command_pool` | two workers, three callers, two responders | is no worker or command lost or handed out twice, panics included (`WorkersConserved`, `CommandsConserved`) |
| `command_retry` | one worker, two callers, a broadcast, two attempts | is interest registered exactly while someone waits (`InterestTracked`), is an error or an answer earned (`OutcomesEarned`), does a timeout back every wait (`TimeoutArmed`), does what a worker took resolve (`DispatchedResolves`), is the server a work pool (`CommandsArePooled`) |
| `backtest` | a backtest of each source, map and exit condition and of none, a simbroker, three rows | do pause, resume and stop neither drop nor double ticks (`SinkSeesUnbrokenRun`), does an exit condition hold at once (`EarlyExitHolds`), can a registered backtest always be sent to (`HandlesHeard`), does a stop in time end the reader (`TimelyStopEndsReader`), and does a reader without a consumer end (`OrphanedReaderEnds`) |
| `spawner` | the spawner, its logger, an instance that may be a straggler or an optimizer, two Ready, one lost answer | are list entries conserved (`EntriesConserved`), is nobody dropped who always answers (`ReliableInstancesListed`), are the dead forgotten (`DeadForgotten`), does boot not kill the spawner (`NoSuicideAtBoot`), does `kill_all` reach everyone and end (`KillAllThorough`, `KillAllEndsSpawner`) |
| `services` | one of seven parts per behaviour, see below | |

`MCServices` runs modules that share no state side by side: the first state
chooses one, the others stay in their initial state, so the state space is the
sum of theirs. What it asks:

| Part | Instance | Question |
|---|---|---|
| queries | two connections, four queries | is no sender lost or doubled unless a thread panicked (`SendersConserved`), how far can a queued query be overtaken (`BoundedOvertaking`), does a busy worker empty the queue (`BusyWorkersDrain`), is the server a work pool (`QueriesArePooled`) |
| flatfile | a download over the end of a year, a transfer by command, five rows in chunks of two and batches of two, sinks that fail | does a transfer skip or double no row on its way into the sink or a batch (`FileTransferExact`), has every saved week its transfer (`WeeksTransferred`), do all threads end (`DownloadsEnd`) |
| native | two downloads with equal or different descriptors | does the list match the downloads (`ListMatchesDownloads`), do ticks stay in the order of the library's calls (`NativeTicksInOrder`), is a started download reported complete (`StartedCompletes`) |
| documents | a reference document, two user documents, two restarts, failing I/O | does a confirmed document survive (`ConfirmedPersists`), is every request resolved (`RequestsResolve`) |
| proxy | two client and three platform messages, a store of three | does no message come back (`NoEcho`), is the oldest id always there (`IdsContiguous`), does every message cross (`MessagesCross`) |
| forks | up to two symbols, chains of four forks, four ticks | does every consumer see an unbroken run (`ForksUnbroken`), how far is the broker ahead of the slowest (`BrokerHeldBack`), does no fork stall it (`NoForkStalls`), does the loop start (`OneSymbolStarts`) |
| handlers | three handlers, two tickstreams, debug and release builds | do uuids lead to their handlers (`UuidsLeadToHandlers`), in order (`HandlersInOrder`), and whose rows of subscriptions are there (`RowsFollowAdditions`) |

Invariants about the same state are checked together, as a conjunction that names
its parts; the tables above name the parts, the configurations the conjunctions:

| Checked as | Parts |
|---|---|
| `ScanSound` | `IInv`, `ScanInv` |
| `LoopSound` | `LoopTypeOK`, `ActionsAccounted`, `NothingLeftBehind` |
| `PoolSound` | `TypeOK`, `WorkersConserved`, `CommandsConserved` of `CommandServer` |
| `WaitsBacked` | `InterestTracked`, `TimeoutArmed` |
| `BacktesterSound` | `BacktesterTypeOK`, `HandlesHeard` |
| `ListSound` | `SpawnerTypeOK`, `EntriesConserved`, `ReliableInstancesListed`, `NoSuicideAtBoot` |
| `QueriesSound` | `QueryTypeOK`, `SendersConserved`, `BoundedOvertaking` |
| `DownloadsSound` | `FlatTypeOK`, `FileTransferExact`, `WeeksTransferred` |
| `HistoriesSound` | `ListMatchesDownloads`, `NativeTicksInOrder` |
| `StoreSound` | `StoreTypeOK`, `ConfirmedPersists` |
| `ProxySound` | `IdsContiguous`, `NoEcho` |
| `ForksSound` | `ForksUnbroken`, `BrokerHeldBack` |
| `HandlersSound` | `UuidsLeadToHandlers`, `HandlersInOrder`, `RowsFollowAdditions` |
| `CallerNeverStuck` | `NoForkStalls`, `OneSymbolStarts` |
| `ServicesDeliver` | `BusyWorkersDrain`, `DownloadsEnd`, `StartedCompletes`, `RequestsResolve`, `MessagesCross` |

Four more runs check sentences of the repository that the code does not keep; TLC
finds the counterexample and `PROJECT.json` quotes the sentence.

| Run | Sentence | What happens |
|---|---|---|
| `ticks_succeed` | actions of `tick_positions` "are guarenteed to succeed" | a full market close forgets the position in the ledger only; the next tick at its stop closes the cached copy and trips `assert!(push_msg.is_ok())` |
| `limit_price` | a limit order opens "at a price equal or better to `entry_price`" | a long order is filled at a bid above its price |
| `future_resolves` | `execute` returns "a future that resolves to the returned response" | a command enqueued after the last worker drained the queue stays there |
| `subscribers_hear` | `tick` "passes on the message to all subscribed `ContingencyHandler`s" | subscriptions are stored per handler and read per tickstream: the wrong handlers hear of a tick |

Five more sentences of the repository do not hold in the models. They have no
run of their own; the property that says what does hold is named with each.

| Sentence | What the code does | Instead |
|---|---|---|
| a SimBroker relays data to strategies "in the correct order" (`simbroker/README.md:5`) | the heap compares nothing but timestamps (`helpers.rs:205`), so ticks of one symbol with equal timestamps can overtake each other, for instance while they wait out the ping as `ClientTick`s; file and Redis readers pass such ticks on | `TicksInOrder`, `PricesCurrent`: only ticks of the same time do |
| `send_client` "will block until the client consumes the tick" (`helpers.rs:284`); "the entire simulation loop will only progress once all of the endpoints of the input tx have been consumed", which is "critical to the simulation's accuracy" (`simbroker/README.md:21`) | `send(t).wait()` on a `channel(0)` returns with the tick queued in the sender's slot: the loop runs on while clients have earlier ticks in hand | `BrokerHeldBack`: at most two ticks per link of the chain |
| `debug_assert_eq!(self.handlers.len(), self.subscriptions.len())` (`strategies.rs:154`) | fails at the first `add_handler` after a `remove_handler`, which leaves the row; in a release build the rows then belong to other handlers | `RowsFollowAdditions`: rows and handlers belong together up to the place of the first removal |
| "Data is read into an internal buffer within the generator and then written into the sink" (`data.rs:27`) | a chunk that is not full at the end of a file is dropped with a panic, a batch that is not full is never written (there is a TODO at `data.rs:24`), a failing write ends the thread, and a failing insert is ignored | `FileTransferExact`: what was read is written or in a batch, none skipped or doubled, up to the failing write |
| the received ticks "will all be received" (`fxcm_native/README.txt`) | those of the last batch, those of an insert that fails, and all that arrive after the consumer died are lost | `NativeTicksInOrder`: up to the failing write, and until an insert is lost, all ticks are stored, collected or in the channel |

Also visible in the models:

- a market close leaves cached copies that differ from the ledger; a modified
  order may be marketable and stay pending; actions submitted at the same
  simulated time may be executed in another order; fills and closures are written
  to the output at once, without the ping (`lib.rs:795`);
- two callers of `CommandServer::execute` may see one idle worker, and the second
  one panics and poisons the pool (`command_server.rs:312`); an `unpark` that
  comes after its timeout ends the next one at once (162); a second response
  between a worker's wake-up and its deregistration kills the response thread;
- a backtest that was stopped and removed from the list may go on, if the stop
  met a parked reader, one about to clear its flag or a Postgres reader
  (`backtester/src/main.rs:310`);
- `init_sim_loop` of the client does not return with two symbols (`client.rs:197`);
  loops over several symbols, as in the run `loop`, exist only for a SimBroker used
  without the client;
- a flatfile download panics before it reports completion, because it was never
  entered in the list (`fxcm_flatfile/src/main.rs:205`);
- a store whose first start was interrupted never loads its reference documents
  (`documents.rs:158`).

Every property of a passing run has a mutant, and a conjunction as a rule one per
part: a variant of one definition with a plausible bug, defined next to it and
marked as a mutant, under which TLC finds the property violated.

### Bounds

Two uuids let one order be cancelled, filled or closed while another is pending
or open, and let a uuid be reused if the code allowed it; a third would only
repeat pairs. Prices 1 to 3 around a limit of 2 give every outcome of the three
predicates. Two streams with equal and crossing timestamps exercise the
tie-break and the look-ahead of `next_tick`; three actions exercise reordering
and a full channel. Two workers and three commands make the pool run dry and the
queue fill while a worker drains it; two responders make duplicates; two
attempts make one retry and one failure. `MaxActions` and `MaxRetries` bound the
runs; in the other modules the sets of threads, documents and messages, and
`MaxReady`, `MaxLost`, `MaxStops`, `MaxSent`, `MaxTicks`, `Rows`, `Published` and
`RandomTicks` do. A chunk of two, a batch of two and five rows leave a row over that ends the
thread, and a write that fails may be the first or a later one; a store
of three and a window of one evict messages while others are on their way; four
queries on two connections make a queued one be overtaken; two lost or repeated
messages are enough to put an instance on the list twice and to suspect one that
lives.

The broker stops issuing orders when its uuids run out, simulations of finite
streams end, and servers without callers stop: deadlock is not checked.

### Fairness

`TickTerminates` assumes that `tick_positions`, two loops in one thread, keeps
running; that they come to an end is what it says. `EveryActionAnswered` assumes that the driver's thread does.
`CommandServer` assumes that its threads are scheduled and that
`park_timeout` returns; nothing is assumed of Redis or of the responders, and
nothing of the collector thread of a broadcast. `Backtester` assumes that
readers, listeners and consumers run and that sources deliver what they have;
nobody has to send a command, and Redis need not publish. `Spawner` assumes that
its two threads run, that commands are answered or time out and that processes
which were killed exit. `MCServices` assumes the same of the threads of each
part, that the archive server answers, that the native library returns, and that
clients drive the streams they took, which `client.rs` asks of them ("with the
assumption that it will be driven to completion there").

## Proofs

Every invariant and every action property of a passing run, and every
refinement, is a theorem of its specification, for all values of the constants
that satisfy the assumptions named below. Where a property is not inductive, an
invariant that is (`...Inv`) is proved first, with one lemma per action or per
conjunct, and the property follows from it. Induction over data is not at hand;
where an argument over numbers needs it (timestamps that increase over several
ticks, a chain of forks), `FirstPlace` gives the least counterexample instead.

### Broker

`BooksCoherent` proves `Spec => []IInv` for all symbols, uuids, prices, sizes and
balances. No part of `IInv` is inductive alone:

- that a cancelled or filled order is found (`CachePanicsUnreachable`) needs the
  cache to equal the ledger (`PendingCacheCoherent`);
- that a closed position was watched with the right terms
  (`OpenPositionsWatched`) needs a uuid never to be open and pending, or closed
  and watched (`StagesDisjoint`), and `StagesDisjoint` needs cached uuids to be
  issued ones, so that a fresh uuid cannot meet a stale cache entry: the cache
  does outlive the ledger after a market close;
- that a closing position has a value needs `ValuesKnown`, and the balance stays
  a natural number because each charge is checked first (`TypeOK`).

`TypeCorrect`, `PendingCoherent`, `OpenWatched`, `OneStage` and
`CacheNeverPanics` state the parts, `MovesForward` the action property
`ForwardOnly`. `MoneyIsNotMade` proves `NoMoneyFromNothing` for brokers without
fx symbols, whose positions are worth their size. The units of a map are the
cardinality of a set with one coin per unit, so what enters or leaves a map is a
disjoint union; `MoneyMoves` lists the eight ways a step moves money. New exits
of a position overwrite its cached copy, and that this makes no money is
`OpenPositionsWatched` again: the copy is the larger one.

The loops of `tick_positions` need more: that a `Vec` holds the cached positions
of its symbol, each once, and that no entry before the index is satisfied
(`ScanInv`). `LoopsSound` proves it, for `Vec`s of any length; the removal at
`index - 1` and the step back are where it could break, and the end of the first
loop is where "no entry before the index" becomes "nothing left to fill", which
the second loop and its end rest on. `ScanImplementsBroker` and `NoneSkipped`
follow, and with the first of them everything proved of `SimBroker`.

### Simulation loop

`QueueInOrder` and `ClockNeverGoesBack` hold for all streams whose timestamps do
not decrease, and all latencies. The invariant (`LoopInv`) is that nothing queued
and no stream head lies in the past, and that the queue holds a tick no later
than any stream head; without the last part the smallest queued timestamp need
not be the next event. Three invariants stand on it:

- `RoadInv` puts every tick that has left its stream in one of four stages (due
  to the broker, due to the client, in the buffer, received), given by a function
  `at` from indices to stages, such that an earlier tick is never behind a later
  one. A tick that moves on passes none that is earlier, because the queue hands
  out the earliest unit; ticks of equal time may pass each other. The price of a
  symbol is that of some tick that entered, and all later ones are still due.
  `TicksStayInOrder` and `PricesStayCurrent` follow.
- `AccountInv` has every action in exactly one place, due when it should be. An
  action in the channel is on time because the clock only moves when the buffer
  is empty and the channel has been drained. `AnswersOnTime` follows.
- `LimitsInv` has the sizes, and what is true at the end: a queue that is dry
  means streams that are (`QueueDry`). `LoopBooksSound` follows.

`LoopImplementsBroker` proves that the loop refines the broker, and
`LoopBooksCoherent` carries the broker's invariant over.

### Servers

`ServerInv` says where a handle, a command and a registered interest are, as
membership in queues and sets, which single steps preserve; the numbers that
`PoolSound` speaks of follow. `HandlesKept` needs `CommandsKept` (no two workers
hold the same command), and `EarnedSoFar` needs both, since a response wakes
whoever registered for the uuid. It holds with poisoned locks too: a panic
loses handles and never doubles one. `ServerWaitsBacked`, `ServerOutcomesEarned`
and `ServerPoolSound` are its consequences.

`QueryInv` has a worker's sender in the pool or with one courier, and a worker's
channel and oneshot with the courier that waits for it. `BoundedOvertaking` is
not inductive: the bound that is counts only the busy workers, each of which
overtakes a queued query once and then takes from the queue.

`ServerImplementsPool` and `QueryServerImplementsPool` prove the refinement of
`WorkPool`, action by action: a step of a server is a step of the pool or leaves
the status of every task alone.

### Spawner

`SpawnerInv` adds to `ListSound` what the phases of the main thread exclude
(`Phases`), that no Ready arrives that was not sent (`ReadyCounted`), and that
who was condemned by `kill_all` is killed or still to be (`CondemnedKept`).
`SpawnerListSound` and `SpawnerKillsAll` follow; the list is compared by the
places an instance has in it, since it may be on it twice.

### Backtester

`BacktesterInv` says of every stream how far its reader is: what it fetched is
what it sent, what `LiveMap` kept back, and at most one tick at hand
(`ReaderSound`); what the sink got and what is in the channel are two adjacent
runs (`RunSound`), within the exit conditions while the consumer waits
(`BoundsKept`). `BacktestsAreHeard`, `SinkSeesRun` and `ExitsAreEarly` follow.

### Services

- `HandlersFound`: the map is the inverse of the vector, which is in order; a
  handler is never further to the right than where it was added, and the distance
  does not shrink from left to right (`Spaced`), so those with their own rows come
  first.
- `StoreKeepsItsWord`: the store works on a document only while the listener
  waits for it.
- `ForksAreSound`: each link of a chain has an unbroken run and, once its gate is
  raised, is as far as the link before it has copied; that the broker is at most
  two ticks per link ahead follows for the first link that would be too far
  behind.
- `ProxyNeverEchoes`: a message under way is one of the newest `Window`, and what
  a collection got after it entered at most `Window` before it; so at most
  `2 * Window` ids come after it, fewer than are kept, and it is not forgotten
  before it is back.
- `DownloadsExact`: whatever a closure was given is written or held in that order,
  or cut without a gap into the batches of its queries (`Accounted`), and one tick
  more keeps it so (`ClosureAccounts`), as does a query that is executed or lost
  (`SettledAccounts`); a write that fails leaves a prefix (`PanicWrites`). What a
  file's transfer gives to the closure are the rows it has read, chunk by chunk
  back to front. A download in progress has started the transfers of the weeks
  from its first to its current one (`Span`).
- `HistoriesInOrder`: the list has as many entries of a descriptor as there are
  listed downloads with it. Equal descriptors make it impossible to say which
  entry is whose, and unnecessary. The ticks follow from the same lemmas about the
  closure, with the calls of the library in the place of the rows.

### Assumptions

`NoneAssumption`, `SymbolAssumption` and `InputAssumption` type the constants of
the broker. `LoopAssumption`: finitely many symbols with their own indices, a
buffer with room. `StreamAssumption`: at least two ticks per stream, timestamps
that do not decrease. The flatfile and Redis readers do not look at the timestamps
they pass on, so this is about their data; with a timestamp that goes back the
queue's order does not hold. `CommandAssumption`, `QueryAssumption` and `SpawnerAssumption`:
finite pools and instances, markers for "none" that are not members.
`BacktesterAssumption` types the definitions; any of them may have exit conditions
or none. `TransferAssumption`: chunks and batches of
one row at least. `ArchiveAssumption`: a name for the thread of every week a
download may reach, and start weeks that are weeks of a year. `NativeAssumption`:
finitely many downloads. `ForksAssumption`, `HandlersAssumption`,
`StoreAssumption` and `TickstreamAssumption` type their constants.
`ProxyAssumption` is about the environment: fewer than half of the 10000
messages a collection keeps are under way at a time. TLC evaluates all of them on
the instances it checks.

### Only model-checked

The liveness properties, because fairness and ENABLED are out of the prover's
reach: `TickTerminates`, `EveryActionAnswered`, `DispatchedResolves`,
`TimelyStopEndsReader`, `OrphanedReaderEnds`,
`DeadForgotten`, `KillAllEndsSpawner`, `ServicesDeliver` and `CallerNeverStuck`.
So are the counterexamples of the four runs that expect one, and
`ConvertDecimals`, checked on the table of the repository's test.

## Not modelled

Logging, serialization, the text of messages, SQL, the ranking of searches, the
FFI bindings and the user interfaces keep no state of their own. The FXCM shim is
mostly `unimplemented!()`. The Poloniex map and the sinks convert data. The SMA
and the strategy that uses it compute with floating point numbers. The Fuzzer is
a random strategy, which `SimLoop` covers by letting the strategy submit anything;
its own mirror of the account, and the asserts on it, are left out. Of the
instances other than spawner and backtester only what the spawner sees is
modelled. The `Kill` and `TransferHistData` commands of the native downloader are
those of the flatfile downloader.

## Plan

1. Done: the modules and runs above, and a theorem for every invariant, action
   property and refinement the passing runs check.
2. Proofs: `NoMoneyFromNothing` with fx symbols, for the steps that change no
   price; shorter proofs of the chains of forks and of the proxy.
3. `Fuzzer` on top of `SimLoop`: the strategy's mirror of the account, with the
   terms of actions chosen at submission.
