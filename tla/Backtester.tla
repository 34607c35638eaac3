----------------------------- MODULE Backtester -----------------------------
(***************************************************************************)
(* The Backtester of backtester/src: its command handler starts backtests  *)
(* and relays commands to them, every backtest has a consumer thread that  *)
(* hands the ticks of its Tickstream to a sink, and simulated brokers that *)
(* it spawns hold raw streams.                                             *)
(*                                                                         *)
(* listen() handles one command at a time, each in one step here; a send   *)
(* to a full handle channel waits until the listener made room.  The log   *)
(* messages and the sinks' output are left out.                            *)
(***************************************************************************)
EXTENDS Tickstream, FiniteSets

CONSTANTS
    Backtests,      \* the streams of backtests
    BrokerStreams,  \* the streams of simulated brokers
    Definitions,    \* the backtest definitions that may be asked for
    RawStreams,     \* the tickstreams a simulated broker may be given
    HandleCapacity  \* bound of the sync_channel to a backtest (5)

ASSUME BacktesterAssumption ==
    /\ Streams = Backtests \cup BrokerStreams
    /\ Backtests \cap BrokerStreams = {}
    /\ HandleCapacity \in Nat \ {0}
    /\ None \notin Nat \cup Sources \cup {"FastMap", "LiveMap"}
    /\ \A d \in Definitions :
          /\ d.source \in Sources /\ d.start_time \in Nat /\ d.map \in {"FastMap", "LiveMap"}
          /\ d.max_tick_n \in Nat \cup {None} /\ d.max_timestamp \in Nat \cup {None}
    /\ \A r \in RawStreams : r.source \in Sources /\ r.start_time \in Nat

VARIABLES
    running_backtests,  \* streams with a registered BacktestHandle
    simbrokers,         \* streams of the simulated brokers
    definition,         \* stream -> the definition of its backtest
    consumer,           \* stream -> state of the thread that feeds the sink
    ticks,              \* stream -> ticks handed to the sink, and the last one
    process             \* the backtester's own process

bvars == <<running_backtests, simbrokers, definition, consumer, ticks, process>>
vars == <<stream, bvars>>

BacktesterTypeOK ==
    /\ stream \in [Streams -> StreamType]
    /\ running_backtests \subseteq Streams /\ simbrokers \subseteq Streams
    /\ definition \in [Streams -> Definitions \cup {None}]
    /\ consumer \in [Streams -> {"none", "waiting", "ended"}]
    /\ ticks \in [Streams -> [n : Nat, last : Nat]]
    /\ process \in {"up", "dying", "exited"}

Init ==
    /\ stream = [s \in Streams |-> Unstarted]
    /\ running_backtests = {} /\ simbrokers = {}
    /\ definition = [s \in Streams |-> None]
    /\ consumer = [s \in Streams |-> "none"]
    /\ ticks = [s \in Streams |-> [n |-> 0, last |-> 0]]
    /\ process = "up"

-----------------------------------------------------------------------------
(* handle_command *)

\* Ping, Type, ListBacktests and ListSimbrokers, a command it does not know, a definition
\* that cannot be parsed, a command for a backtest that is not registered: only answered.
AnswerOnly == UNCHANGED vars

(***************************************************************************)
(* A backtest towards a sink gets a consumer.  Towards a simulated broker  *)
(* the stream is dropped at once, yet the backtest is registered; without  *)
(* that broker it is not, and its reader and listener stay behind.         *)
(***************************************************************************)
StartBacktest(s, d, broker) ==
    LET sink == d.dest # "SimBroker"
        registered == sink \/ broker \in simbrokers
    IN  /\ Start(s, d.source, d.start_time, d.map, sink)
        /\ definition' = [definition EXCEPT ![s] = d]
        /\ consumer' = [consumer EXCEPT ![s] = IF sink THEN "waiting" ELSE "ended"]
        /\ running_backtests' = IF registered THEN running_backtests \cup {s}
                                              ELSE running_backtests
        /\ UNCHANGED <<simbrokers, ticks, process>>

\* send_backtest_cmd: the handle must be registered; a full channel is waited for.
SendBacktestCmd(s, cmd) ==
    /\ Len(stream[s].mail) < HandleCapacity
    /\ stream' = [stream EXCEPT ![s].mail = Append(@, cmd)]

ControlBacktest(s, cmd) ==
    /\ s \in running_backtests
    /\ SendBacktestCmd(s, cmd)
    /\ UNCHANGED <<running_backtests, simbrokers, definition, consumer, ticks, process>>

\* StopBacktest also deregisters: no command can reach the backtest after it.
StopBacktest(s) ==
    /\ s \in running_backtests
    /\ SendBacktestCmd(s, "Stop")
    /\ running_backtests' = running_backtests \ {s}
    /\ UNCHANGED <<simbrokers, definition, consumer, ticks, process>>

\* init_simbroker: the new broker holds its raw tickstream, which nothing consumes yet.
SpawnSimbroker(s, r) ==
    /\ Start(s, r.source, r.start_time, None, TRUE)
    /\ simbrokers' = simbrokers \cup {s}
    /\ UNCHANGED <<running_backtests, definition, consumer, ticks, process>>

\* A broker that cannot be made panics in unwrap(), which ends the process.
SpawnSimbrokerFails ==
    /\ process' = "exited"
    /\ UNCHANGED <<stream, running_backtests, simbrokers, definition, consumer, ticks>>

Kill ==
    /\ process' = "dying"
    /\ UNCHANGED <<stream, running_backtests, simbrokers, definition, consumer, ticks>>

\* Three seconds after Kill, whatever is still going on.
Exit ==
    /\ process = "dying"
    /\ process' = "exited"
    /\ UNCHANGED <<stream, running_backtests, simbrokers, definition, consumer, ticks>>

HandleCommand ==
    \/ AnswerOnly \/ Kill \/ SpawnSimbrokerFails
    \/ \E s \in BrokerStreams, r \in RawStreams : SpawnSimbroker(s, r)
    \/ \E s \in Backtests :
          \/ \E d \in Definitions, broker \in BrokerStreams : StartBacktest(s, d, broker)
          \/ \E cmd \in {"Pause", "Resume"} : ControlBacktest(s, cmd)
          \/ StopBacktest(s)

-----------------------------------------------------------------------------
(* The consumer thread of a backtest *)

\* Mutant: the bound is passed before it is noticed.
CheckEarlyExitLate(d, n, t) ==
    \/ d.max_tick_n # None /\ d.max_tick_n < n
    \/ d.max_timestamp # None /\ d.max_timestamp < t

CheckEarlyExit(d, n, t) ==
    \/ d.max_tick_n # None /\ d.max_tick_n <= n
    \/ d.max_timestamp # None /\ d.max_timestamp <= t

\* A tick goes to the sink; the thread that returns drops the stream and its handle.
Consume(s) ==
    /\ consumer[s] = "waiting"
    /\ stream[s].chan # <<>>
    /\ LET t == Head(stream[s].chan)
           n == ticks[s].n + 1
           exit == CheckEarlyExit(definition[s], n, t)
       IN  /\ ticks' = [ticks EXCEPT ![s] = [n |-> n, last |-> t]]
           /\ consumer' = [consumer EXCEPT ![s] = IF exit THEN "ended" ELSE "waiting"]
           /\ stream' = [stream EXCEPT ![s].chan = Tail(@), ![s].rx = ~exit]
    /\ UNCHANGED <<running_backtests, simbrokers, definition, process>>

\* The reader is gone and the channel empty: the loop ends and nothing is told to anyone.
StreamEnds(s) ==
    /\ consumer[s] = "waiting"
    /\ ReaderEnded(s) /\ stream[s].chan = <<>>
    /\ consumer' = [consumer EXCEPT ![s] = "ended"]
    /\ stream' = [stream EXCEPT ![s].rx = FALSE]
    /\ UNCHANGED <<running_backtests, simbrokers, definition, ticks, process>>

\* Mutant: the end of the consumer is taken for the end of all senders.
ListenerEndsEarly(s) ==
    /\ stream[s].listening /\ stream[s].mail = <<>>
    /\ consumer[s] = "ended"
    /\ stream' = [stream EXCEPT ![s].listening = FALSE]
    /\ UNCHANGED bvars

\* The listener ends when the handle and the consumer have dropped their senders.
ListenerEnds(s) ==
    /\ stream[s].listening /\ stream[s].mail = <<>>
    /\ s \notin running_backtests /\ consumer[s] = "ended"
    /\ stream' = [stream EXCEPT ![s].listening = FALSE]
    /\ UNCHANGED bvars

ConsumerStep(s) == Consume(s) \/ StreamEnds(s)
ListenerStep(s) == (Relay(s) /\ UNCHANGED bvars) \/ ListenerEnds(s)

Next ==
    /\ process # "exited"
    /\ \/ HandleCommand
       \/ Exit
       \/ \E s \in Streams :
             \/ ReaderStep(s) /\ UNCHANGED bvars
             \/ Publish(s) /\ UNCHANGED bvars
             \/ ConsumerStep(s)
             \/ ListenerStep(s)

(***************************************************************************)
(* The operating system runs every thread of the process.                  *)
(***************************************************************************)
Fairness ==
    \A s \in Streams :
        /\ WF_vars(process # "exited" /\ ReaderStep(s) /\ UNCHANGED bvars)
        /\ WF_vars(process # "exited" /\ ConsumerStep(s))
        /\ WF_vars(process # "exited" /\ ListenerStep(s))

Spec == Init /\ [][Next]_vars
FairSpec == Spec /\ Fairness

-----------------------------------------------------------------------------
(* Properties *)

(***************************************************************************)
(* A registered backtest can be sent to: its listener holds the receiver,  *)
(* also long after the backtest itself has ended, so the expect() of       *)
(* send_backtest_cmd is never reached.                                     *)
(***************************************************************************)
HandlesHeard == \A s \in running_backtests : stream[s].listening

(***************************************************************************)
(* A registered backtest has a thread that hears its commands, however it  *)
(* came to its end.                                                        *)
(***************************************************************************)
BacktesterSound == BacktesterTypeOK /\ HandlesHeard

(***************************************************************************)
(* Pausing, resuming and stopping neither drop, double nor reorder ticks:  *)
(* the sink has seen an unbroken run of ticks from the first one of the    *)
(* source on, without the one LiveMap keeps for itself.                    *)
(***************************************************************************)
SinkSeesUnbrokenRun ==
    \A s \in Backtests : ticks[s].n > 0 =>
        ticks[s].last = FirstTick(definition[s].source, definition[s].start_time)
                          + (IF definition[s].map = "LiveMap" THEN 1 ELSE 0) + ticks[s].n - 1

(***************************************************************************)
(* An exit condition holds from the first tick that meets it: the sink     *)
(* gets at most max_tick_n ticks (one, if the maximum is zero) and at most *)
(* one with a time not before max_timestamp, however many the reader has   *)
(* in the channel by then.                                                 *)
(***************************************************************************)
EarlyExitHolds ==
    \A s \in Backtests : ticks[s].n > 0 =>
        LET d == definition[s]
            first == ticks[s].last - ticks[s].n + 1
        IN  /\ d.max_tick_n # None => ticks[s].n <= (IF d.max_tick_n = 0 THEN 1 ELSE d.max_tick_n)
            /\ d.max_timestamp # None =>
                  ticks[s].last <= (IF first > d.max_timestamp THEN first ELSE d.max_timestamp)

LooksIntoMail(s) == stream[s].source \in {"Random", "Flatfile"} /\ ~Raw(s)

(***************************************************************************)
(* A stop that the listener relayed while the reader was not parked and    *)
(* not about to clear the flag is still in its mailbox when the reader has *)
(* ended, whatever came before: it was not read and passed over.           *)
(* (In the two excluded places the stop is lost; a Redis reader looks only *)
(* when the next tick comes, a Postgres reader never.)                     *)
(***************************************************************************)
TimelyStopEndsReader ==
    \A s \in Backtests :
        (/\ LooksIntoMail(s) /\ stream[s].got_mail /\ stream[s].message = "Stop"
         /\ stream[s].pc \notin {"park", "paused", "clear"})
        ~> ((ReaderEnded(s) /\ stream[s].got_mail) \/ process = "exited")

(***************************************************************************)
(* A backtest whose consumer has exited leaves no reader working for       *)
(* nobody: the reader notices at its next send, unless it is paused.       *)
(***************************************************************************)
OrphanedReaderEnds ==
    \A s \in Backtests :
        (LooksIntoMail(s) /\ consumer[s] = "ended")
        ~> (ReaderEnded(s) \/ Paused(s) \/ process = "exited")
=============================================================================
