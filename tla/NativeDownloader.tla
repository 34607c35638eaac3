-------------------------- MODULE NativeDownloader --------------------------
(***************************************************************************)
(* data_downloaders/fxcm_native/src/main.rs: a thread per download logs    *)
(* in, tries the destination, starts a consumer thread, lists the download *)
(* and blocks in the native library, whose callback puts every tick into   *)
(* the consumer's channel; when the library returns the download is        *)
(* unlisted and announced as complete.                                     *)
(*                                                                         *)
(* Two requests with the same arguments have equal descriptors.  The       *)
(* library (external) refuses the login or calls back with some ticks of   *)
(* the history, in any order, and returns.                                 *)
(***************************************************************************)
EXTENDS Transfer, FiniteSets

CONSTANTS
    Histories,      \* the downloads asked for
    Descriptors,    \* the distinct arguments they are asked for with
    MaxTicks        \* ticks of a history

ASSUME NativeAssumption ==
    MaxTicks \in Nat /\ IsFiniteSet(Histories) /\ Descriptors # {}

VARIABLES
    native,     \* download -> its thread, and its consumer's
    running     \* running_downloads: descriptors, in the order they were pushed

nativeVars == <<native, running>>

NativeInit ==
    /\ native = [h \in Histories |-> [pc |-> "none", desc |-> CHOOSE d \in Descriptors : TRUE,
                                      dst |-> "Console", consumer |-> "none",
                                      called |-> <<>>, chan |-> <<>>, held |-> <<>>,
                                      stored |-> <<>>, queries |-> <<>>,
                                      started |-> FALSE, complete |-> FALSE]]
    /\ running = <<>>

Goto(h, from, to) ==
    /\ native[h].pc = from
    /\ native' = [native EXCEPT ![h].pc = to]

\* DownloadTicks; the other commands answer, read the list or exit the process.
InitDownload(h, desc, dst) ==
    /\ native[h].pc = "none"
    /\ native' = [native EXCEPT ![h] = [@ EXCEPT !.pc = "login", !.desc = desc, !.dst = dst]]
    /\ UNCHANGED running

Login(h) ==
    /\ \E to \in {"probe", "failed"} : Goto(h, "login", to)
    /\ UNCHANGED running

\* try!(get_rx_closure(..)) on this thread, then the consumer's thread.
ProbeSink(h) ==
    /\ native[h].pc = "probe"
    /\ \/ native' = [native EXCEPT ![h] = [@ EXCEPT !.pc = "push", !.consumer = "open"]]
       \/ native[h].dst \in Refusing /\ native' = [native EXCEPT ![h].pc = "failed"]
    /\ UNCHANGED running

ListDownload(h) ==
    /\ Goto(h, "push", "announce")
    /\ running' = Append(running, native[h].desc)

AnnounceStart(h) ==
    /\ native[h].pc = "announce"
    /\ native' = [native EXCEPT ![h] = [@ EXCEPT !.pc = "history", !.started = TRUE]]
    /\ UNCHANGED running

\* No consumer: rx went with its thread.
Dead == {"panicked", "unwritten"}

\* The callback with a tick of the history: send fails silently once the consumer is gone.
TickCallback(h, i) ==
    /\ native[h].pc = "history" /\ i \notin ToSet(native[h].called)
    /\ LET r == native[h]
       IN  native' = [native EXCEPT ![h] =
                         [r EXCEPT !.called = Append(r.called, i),
                                   !.chan = IF r.consumer \in Dead THEN r.chan
                                            ELSE Append(r.chan, i)]]
    /\ UNCHANGED running

HistoryEnds(h) ==
    /\ Goto(h, "history", "remove")
    /\ UNCHANGED running

\* Mutant: every entry with the same descriptor is removed.
UnlistDownloadAll(h) ==
    /\ Goto(h, "remove", "report")
    /\ running' = SelectSeq(running, LAMBDA d : d # native[h].desc)

\* The first entry with an equal descriptor, which may be another download's.
UnlistDownload(h) ==
    /\ Goto(h, "remove", "report")
    /\ running' = RemoveFirst(running, native[h].desc)

\* Mutant: nobody is told.
ReportCompleteNot(h) ==
    /\ Goto(h, "report", "ended")
    /\ UNCHANGED running

\* execute(DownloadComplete); tx goes out of scope.
ReportComplete(h) ==
    /\ native[h].pc = "report"
    /\ native' = [native EXCEPT ![h] = [@ EXCEPT !.pc = "ended", !.complete = TRUE]]
    /\ UNCHANGED running

-----------------------------------------------------------------------------
(* The consumer thread *)

\* get_rx_closure(..).unwrap(), a second time: rx goes with the thread.
ConsumerOpens(h) ==
    /\ native[h].consumer = "open"
    /\ \/ native' = [native EXCEPT ![h].consumer = "recv"]
       \/ /\ native[h].dst \in Refusing
          /\ native' = [native EXCEPT ![h] = [@ EXCEPT !.consumer = "panicked", !.chan = <<>>]]
    /\ UNCHANGED running

\* Mutant: the newest tick first.
ConsumeTickNewest(h) ==
    /\ native[h].consumer = "recv" /\ native[h].chan # <<>>
    /\ native' = [native EXCEPT ![h] = RxClosure([@ EXCEPT !.chan = Front(@)], Last(@.chan))]
    /\ UNCHANGED running

\* A write that panics takes rx, and what is in the channel, with the thread.
ConsumeTick(h) ==
    /\ native[h].consumer = "recv" /\ native[h].chan # <<>>
    /\ LET r == [native[h] EXCEPT !.chan = Tail(@)]
           tick == Head(native[h].chan)
       IN  \/ native' = [native EXCEPT ![h] = RxClosure(r, tick)]
           \/ \E left \in RxPanics(r, tick) :
                 native' = [native EXCEPT ![h] =
                               [left EXCEPT !.consumer = "unwritten", !.chan = <<>>]]
    /\ UNCHANGED running

\* A connection of the consumer's QueryServer is done with a batch, also after the thread.
HistorySettles(h) ==
    /\ \E r \in Settled(native[h]) : native' = [native EXCEPT ![h] = r]
    /\ UNCHANGED running

\* The iterator ends when the channel is empty and its sender gone; what is held is lost.
ConsumerEnds(h) ==
    /\ native[h].consumer = "recv" /\ native[h].chan = <<>>
    /\ native[h].pc = "ended"
    /\ native' = [native EXCEPT ![h].consumer = "ended"]
    /\ UNCHANGED running

-----------------------------------------------------------------------------

DownloadThread(h) ==
    \/ Login(h) \/ ProbeSink(h) \/ ListDownload(h) \/ AnnounceStart(h)
    \/ (\E i \in 1..MaxTicks : TickCallback(h, i)) \/ HistoryEnds(h) \/ UnlistDownload(h) \/ ReportComplete(h)

Consumer(h) == ConsumerOpens(h) \/ ConsumeTick(h) \/ ConsumerEnds(h)

NativeNext ==
    \E h \in Histories :
        \/ \E desc \in Descriptors, dst \in Destinations : InitDownload(h, desc, dst)
        \/ DownloadThread(h) \/ Consumer(h) \/ HistorySettles(h)

NativeSpec == NativeInit /\ [][NativeNext]_nativeVars

-----------------------------------------------------------------------------

Listed(h) == native[h].pc \in {"announce", "history", "remove"}

(***************************************************************************)
(* The list that ListRunningDownloads returns has an entry for every       *)
(* download that is listed and not yet unlisted, and no other, although    *)
(* equal requests have equal entries and a thread may remove another's.    *)
(***************************************************************************)
ListMatchesDownloads ==
    \A d \in Descriptors :
        Cardinality({i \in DOMAIN running : running[i] = d})
            = Cardinality({h \in Histories : Listed(h) /\ native[h].desc = d})

(***************************************************************************)
(* The ticks of the callbacks are, in the order of the callbacks, written, *)
(* collected for the next batch, or in the channel; none is skipped or     *)
(* doubled.  Up to the write that fails all is written in that order.  It  *)
(* is not the order of the ticks' times: the library promises none.        *)
(***************************************************************************)
NativeTicksInOrder ==
    \A h \in Histories :
        LET n == native[h]
            given == SubSeq(n.called, 1, Len(n.called) - Len(n.chan))
        IN  /\ n.consumer = "panicked" => n.stored = <<>> /\ n.queries = <<>>
            /\ n.consumer = "unwritten" => IsPrefix(n.stored, n.called)
            /\ n.consumer \notin Dead => given \o n.chan = n.called /\ Accounted(n, given)
            /\ n.consumer = "ended" => n.complete

(***************************************************************************)
(* The list and the ticks of the native downloads.                         *)
(***************************************************************************)
HistoriesSound == ListMatchesDownloads /\ NativeTicksInOrder

(***************************************************************************)
(* A download that was announced as started is announced as complete, even *)
(* when its consumer is dead and no tick was stored.                       *)
(***************************************************************************)
StartedCompletes ==
    []<>(\A h \in Histories : native[h].started => native[h].complete)
=============================================================================
