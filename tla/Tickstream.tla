----------------------------- MODULE Tickstream -----------------------------
(***************************************************************************)
(* The tick streams of util/src/transport/tickstream: a reader thread      *)
(* takes ticks from its source, passes them through a TickMap and sends    *)
(* them down a futures channel(1).  A second thread, the listener, relays  *)
(* Pause, Resume and Stop to the reader through an AtomicBool, a Mutex     *)
(* with the last command and the reader's park token.                      *)
(*                                                                         *)
(* A step ends where the reader reads or writes something the listener or  *)
(* the consumer shares. A tick is its timestamp; the ticks of a source     *)
(* have the timestamps 1, 2, 3... (the raw random reader counts from 0,    *)
(* and no one reads what it counts). Spurious wake-ups of thread::park,    *)
(* the sleeps of the maps and ill-formed lines are left out.               *)
(***************************************************************************)
EXTENDS Integers, Sequences

CONSTANTS
    Streams,        \* the streams that may be started
    Rows,           \* ticks in the file and in the table
    Published,      \* ticks published on the Redis channel during a run
    RandomTicks,    \* ticks of an endless random source that are looked at
    None

ASSUME TickstreamAssumption == Rows \in Nat /\ Published \in Nat /\ RandomTicks \in Nat

VARIABLE
    stream          \* stream -> the state its reader, listener and consumer share

Sources == {"Flatfile", "Postgres", "Random", "Redis"}
TickstreamCommands == {"Pause", "Resume", "Stop"}

\* A future's channel(n) takes n messages and one more from each sender.
ChannelRoom == 2

Unstarted == [source |-> None, start |-> 0, map |-> None, pc |-> "unstarted", cur |-> 0,
              base |-> 0, got_mail |-> FALSE, message |-> "Stop",
              token |-> FALSE, chan |-> <<>>, rx |-> FALSE, mail |-> <<>>, listening |-> FALSE,
              feed |-> 0]

StreamType ==
    [source : Sources \cup {None}, start : Nat, map : {"FastMap", "LiveMap", None},
     pc : {"unstarted", "park", "open", "fetch", "mail", "read", "paused", "clear", "map",
           "send", "done", "panicked"},
     cur : Nat, base : Nat, got_mail : BOOLEAN, message : {"Pause", "Stop"},
     token : BOOLEAN, chan : Seq(Nat), rx : BOOLEAN,
     mail : Seq(TickstreamCommands), listening : BOOLEAN, feed : 0..Published]

At(s, label) == stream[s].pc = label
ReaderEnded(s) == stream[s].pc \in {"done", "panicked"}
Paused(s) == stream[s].pc \in {"park", "paused"}

\* get_raw: no map, no commands.
Raw(s) == stream[s].map = None

-----------------------------------------------------------------------------
(***************************************************************************)
(* The loop of each reader, as the order of its steps: the first one, with *)
(* and without a map (get and get_raw), the head of the loop, and what     *)
(* follows the next tick and a look into the mail.  The PostgresReader     *)
(* never looks, and its get_raw has the connection before the thread runs. *)
(***************************************************************************)
RandomReader ==
    [first |-> "park", raw |-> "fetch", head |-> "mail", fetched |-> "map", checked |-> "fetch"]
RedisReader ==
    [first |-> "fetch", raw |-> "fetch", head |-> "fetch", fetched |-> "mail", checked |-> "map"]
FlatfileReader ==
    [first |-> "open", raw |-> "open", head |-> "fetch", fetched |-> "mail", checked |-> "map"]
PostgresReader ==
    [first |-> "open", raw |-> "fetch", head |-> "fetch", fetched |-> "map", checked |-> "map"]

Reader(source) ==
    CASE source = "Random" -> RandomReader
      [] source = "Redis" -> RedisReader
      [] source = "Flatfile" -> FlatfileReader
      [] source = "Postgres" -> PostgresReader

LoopHead(s) == IF Raw(s) THEN "fetch" ELSE Reader(stream[s].source).head
AfterFetch(s) == IF Raw(s) THEN "send" ELSE Reader(stream[s].source).fetched
AfterMail(s) == Reader(stream[s].source).checked

\* get and get_raw of the generators; the stream they return may be dropped at once.
Start(s, source, start, map, kept) ==
    /\ At(s, "unstarted")
    /\ stream' = [stream EXCEPT ![s] =
                    [Unstarted EXCEPT !.source = source, !.start = start, !.map = map,
                                      !.pc = IF map = None THEN Reader(source).raw ELSE Reader(source).first,
                                      !.rx = kept, !.listening = map # None]]

\* The first thread::park of the RandomReader.
FirstPark(s) ==
    /\ At(s, "park")
    /\ stream[s].token
    /\ stream' = [stream EXCEPT ![s].pc = LoopHead(s), ![s].token = FALSE]

\* init_reader or get_client: the file is opened, or the connection made.
Open(s) ==
    /\ At(s, "open")
    /\ stream' = [stream EXCEPT ![s].pc = LoopHead(s)]

\* A missing file panics in unwrap(), a failed connection ends the thread.
OpenFails(s) ==
    /\ At(s, "open")
    /\ stream' = [stream EXCEPT ![s].pc = IF stream[s].source = "Flatfile" THEN "panicked"
                                                                            ELSE "done"]

\* The first tick of a source at or after the start time.
FirstTick(source, start) ==
    CASE source = "Flatfile" -> IF start = 0 THEN 1 ELSE start
      [] source = "Postgres" -> start + 1
      [] OTHER -> 1

NextTick(s) ==
    IF stream[s].cur = 0 THEN FirstTick(stream[s].source, stream[s].start)
                         ELSE stream[s].cur + 1

\* Is the next tick there already?  The file ends, the table and Redis may get more.
Available(s) ==
    CASE stream[s].source = "Random" -> stream[s].cur < RandomTicks
      [] stream[s].source = "Redis" -> stream[s].cur < stream[s].feed
      [] OTHER -> NextTick(s) <= Rows

Fetch(s) ==
    /\ At(s, "fetch")
    /\ Available(s)
    /\ stream' = [stream EXCEPT ![s].pc = AfterFetch(s), ![s].cur = NextTick(s)]

\* The bound: a random reader never ends, but its later ticks are left out.
FetchLeftOut(s) ==
    /\ At(s, "fetch")
    /\ stream[s].source = "Random" /\ ~Available(s)
    /\ stream' = [stream EXCEPT ![s].pc = LoopHead(s)]

\* The file is read to its end, or the query fails: the reader ends and drops its sender.
SourceEnds(s) ==
    /\ At(s, "fetch")
    /\ \/ stream[s].source = "Flatfile" /\ ~Available(s)
       \/ stream[s].source = "Postgres"
    /\ stream' = [stream EXCEPT ![s].pc = "done"]

\* Redis pub/sub: the subscriber's thread queues a published tick for the reader.
Publish(s) ==
    /\ stream[s].source = "Redis"
    /\ stream[s].feed < Published
    /\ stream' = [stream EXCEPT ![s].feed = @ + 1]

-----------------------------------------------------------------------------
(* check_mail, from the load of the flag to the store that clears it *)

LoadFlag(s) ==
    /\ At(s, "mail")
    /\ stream' = [stream EXCEPT ![s].pc = IF stream[s].got_mail THEN "read" ELSE AfterMail(s)]

\* Mutant: a stop is handled like a command the worker does not know.
ReadMessageGoingOn(s) ==
    /\ At(s, "read")
    /\ stream' = [stream EXCEPT ![s].pc = IF stream[s].message = "Pause" THEN "paused" ELSE "clear"]

\* The command is copied out of the mutex; Stop ends the reader with the flag still set.
ReadMessage(s) ==
    /\ At(s, "read")
    /\ stream' = [stream EXCEPT ![s].pc = CASE stream[s].message = "Pause" -> "paused"
                                            [] stream[s].message = "Stop" -> "done"
                                            [] OTHER -> "clear"]

\* thread::park returns once the token is there, which may be one from before the pause.
Unparked(s) ==
    /\ At(s, "paused")
    /\ stream[s].token
    /\ stream' = [stream EXCEPT ![s].pc = "clear", ![s].token = FALSE]

\* Mutant: the reader goes back to the head of its loop, past the tick at hand.
ClearFlagContinue(s) ==
    /\ At(s, "clear")
    /\ stream' = [stream EXCEPT ![s].pc = LoopHead(s), ![s].got_mail = FALSE]

\* Whatever came in since the message was read goes unnoticed.
ClearFlag(s) ==
    /\ At(s, "clear")
    /\ stream' = [stream EXCEPT ![s].pc = AfterMail(s), ![s].got_mail = FALSE]

-----------------------------------------------------------------------------
(* The map and the channel to the consumer *)

\* LiveMap only remembers the time of its first tick and keeps that tick back.
Swallows(s) == stream[s].map = "LiveMap" /\ stream[s].base = 0

ApplyMap(s) ==
    /\ At(s, "map")
    /\ stream' = [stream EXCEPT ![s].pc = IF Swallows(s) THEN LoopHead(s) ELSE "send",
                                ![s].base = IF Swallows(s) THEN stream[s].cur ELSE @]

\* Mutant: a dropped receiver is not noticed, the send waits for it.
SendWaiting(s) ==
    /\ At(s, "send")
    /\ stream[s].rx
    /\ Len(stream[s].chan) < ChannelRoom
    /\ stream' = [stream EXCEPT ![s].pc = LoopHead(s), ![s].chan = Append(@, stream[s].cur)]

\* send().wait() blocks on a full channel and panics when the stream was dropped.
Send(s) ==
    /\ At(s, "send")
    /\ ~stream[s].rx \/ Len(stream[s].chan) < ChannelRoom
    /\ stream' = IF stream[s].rx
                 THEN [stream EXCEPT ![s].pc = LoopHead(s), ![s].chan = Append(@, stream[s].cur)]
                 ELSE [stream EXCEPT ![s].pc = "panicked"]

-----------------------------------------------------------------------------
(* spawn_listener_thread *)

\* Mutant: a resume is put into the mailbox as well.
RelayAll(s) ==
    /\ stream[s].listening /\ stream[s].mail # <<>>
    /\ LET cmd == Head(stream[s].mail)
       IN  stream' = [stream EXCEPT ![s].mail = Tail(@), ![s].message = cmd, ![s].got_mail = TRUE,
                                    ![s].token = @ \/ cmd = "Resume"]

Relay(s) ==
    /\ stream[s].listening /\ stream[s].mail # <<>>
    /\ LET cmd == Head(stream[s].mail)
       IN  stream' = [stream EXCEPT ![s].mail = Tail(@),
                                    ![s].message = IF cmd = "Resume" THEN @ ELSE cmd,
                                    ![s].got_mail = @ \/ cmd # "Resume",
                                    ![s].token = @ \/ cmd = "Resume"]

ReaderStep(s) ==
    \/ FirstPark(s) \/ Open(s) \/ OpenFails(s) \/ Fetch(s) \/ FetchLeftOut(s) \/ SourceEnds(s)
    \/ LoadFlag(s) \/ ReadMessage(s) \/ Unparked(s) \/ ClearFlag(s)
    \/ ApplyMap(s) \/ Send(s)
=============================================================================
