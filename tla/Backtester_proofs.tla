------------------------- MODULE Backtester_proofs -------------------------
(***************************************************************************)
(* Proofs about the Backtester.  The invariant says of every stream how    *)
(* far its reader is: what it fetched is what it sent, what LiveMap kept,  *)
(* and at most one tick at hand.  What the sink got and what is in the     *)
(* channel are then two adjacent runs, for any number of streams, ticks    *)
(* and commands.                                                           *)
(***************************************************************************)
EXTENDS Backtester, SequenceTheorems, TLAPS

-----------------------------------------------------------------------------
(* The inductive invariant *)

\* The time of the first tick that is sent: LiveMap keeps the first one of the source.
FirstSent(r) == FirstTick(r.source, r.start) + (IF r.map = "LiveMap" THEN 1 ELSE 0)

\* The reader has a tick that it has neither mapped away nor sent.
Holding(r) ==
    \/ r.pc \in {"map", "send"}
    \/ r.pc \in {"mail", "read", "paused", "clear"} /\ r.source # "Random"

\* Ticks the reader is done with.
Passed(r) ==
    IF r.cur = 0 THEN 0
    ELSE r.cur - FirstTick(r.source, r.start) + (IF Holding(r) THEN 0 ELSE 1)

(***************************************************************************)
(* The reader is done with the ticks that it sent and the one that LiveMap *)
(* remembers.                                                              *)
(***************************************************************************)
ReaderSound(r, sends) ==
    /\ r.cur = 0 \/ r.cur >= FirstTick(r.source, r.start)
    /\ Holding(r) => r.cur # 0
    /\ Passed(r) = sends + (IF r.base = 0 THEN 0 ELSE 1)
    /\ r.base # 0 => r.map = "LiveMap"
    /\ r.map = "LiveMap" /\ (Passed(r) > 0 \/ r.pc = "send") => r.base # 0

\* What is in the channel follows on what the sink got, what the reader sends next on both.
RunSound(r, t) ==
    /\ \A i \in 1..Len(r.chan) : r.chan[i] = FirstSent(r) + t.n + i - 1
    /\ t.n > 0 => t.last = FirstSent(r) + t.n - 1
    /\ r.pc \notin {"done", "panicked"} => ReaderSound(r, t.n + Len(r.chan))

\* No tick that the consumer got so far has met an exit condition, or the last one did.
BoundsKept(d, t, waiting) ==
    t.n > 0 =>
        LET first == t.last - t.n + 1
        IN  /\ waiting => ~CheckEarlyExit(d, t.n, t.last)
            /\ d.max_tick_n # None => t.n <= (IF d.max_tick_n = 0 THEN 1 ELSE d.max_tick_n)
            /\ d.max_timestamp # None =>
                  t.last <= (IF first > d.max_timestamp THEN first ELSE d.max_timestamp)

\* The stream is the one that was asked for, and what is registered is heard.
BookSound(s) ==
    /\ stream[s].pc = "unstarted" =>
          consumer[s] = "none" /\ ticks[s].n = 0 /\ s \notin running_backtests
    /\ stream[s].pc # "unstarted" =>
          /\ stream[s].source \in Sources
          /\ s \in Backtests =>
                /\ definition[s] \in Definitions
                /\ stream[s].source = definition[s].source
                /\ stream[s].start = definition[s].start_time
                /\ stream[s].map = definition[s].map
    /\ consumer[s] = "waiting" => s \in Backtests
    /\ s \in running_backtests => stream[s].listening

BacktesterInv ==
    /\ BacktesterTypeOK
    /\ \A s \in Streams :
          /\ BookSound(s)
          /\ RunSound(stream[s], ticks[s])
          /\ s \in Backtests => BoundsKept(definition[s], ticks[s], consumer[s] = "waiting")

-----------------------------------------------------------------------------
(* The reader *)

\* The first tick of a source has a time, and that is not 0.
LEMMA FirstTickType ==
    ASSUME NEW source, NEW start \in Nat
    PROVE  FirstTick(source, start) \in Nat \ {0}
  BY DEF FirstTick

\* The reader goes on with what it has.
LEMMA ReaderGoesOn ==
    ASSUME NEW r, NEW q, NEW n, ReaderSound(r, n),
           q.source = r.source, q.start = r.start, q.map = r.map, q.cur = r.cur, q.base = r.base,
           Holding(q) <=> Holding(r),
           q.pc = "send" => r.pc = "send" \/ r.base # 0 \/ r.map # "LiveMap"
    PROVE  ReaderSound(q, n)
<1>1. Passed(q) = Passed(r)
  BY DEF Passed
<1> QED BY <1>1 DEF ReaderSound

\* It takes the next tick of its source.
LEMMA ReaderFetches ==
    ASSUME NEW r \in StreamType, NEW q, NEW n \in Nat, ReaderSound(r, n), r.pc = "fetch",
           q.source = r.source, q.start = r.start, q.map = r.map, q.base = r.base,
           q.cur = IF r.cur = 0 THEN FirstTick(r.source, r.start) ELSE r.cur + 1,
           Holding(q), q.pc = "send" => r.map # "LiveMap"
    PROVE  ReaderSound(q, n)
<1> DEFINE first == FirstTick(r.source, r.start)
<1>1. r.cur \in Nat /\ r.start \in Nat /\ r.base \in Nat /\ first \in Nat \ {0}
  BY FirstTickType DEF StreamType
<1>2. ~ Holding(r) /\ (r.cur = 0 \/ r.cur >= first)
  BY DEF Holding, ReaderSound
<1> HIDE DEF first
<1>3. q.cur = IF r.cur = 0 THEN first ELSE r.cur + 1
  BY DEF first
<1>4. q.cur >= first /\ q.cur # 0
  BY <1>1, <1>2, <1>3
<1>5. Passed(q) = q.cur - first
  BY <1>1, <1>4 DEF Passed, first
<1>6. Passed(r) = IF r.cur = 0 THEN 0 ELSE r.cur - first + 1
  BY <1>2 DEF Passed, first
<1>7. Passed(q) = Passed(r)
  BY <1>1, <1>3, <1>5, <1>6
<1>8. FirstTick(q.source, q.start) = first
  BY DEF first
<1> QED BY <1>4, <1>7, <1>8 DEF ReaderSound

\* LiveMap keeps the first tick.
LEMMA ReaderSwallows ==
    ASSUME NEW r \in StreamType, NEW q, NEW n \in Nat, ReaderSound(r, n), r.pc = "map",
           r.map = "LiveMap", r.base = 0,
           q.source = r.source, q.start = r.start, q.map = r.map, q.cur = r.cur, q.base = r.cur,
           ~ Holding(q)
    PROVE  ReaderSound(q, n)
<1> DEFINE first == FirstTick(r.source, r.start)
<1>1. r.cur \in Nat /\ r.start \in Nat /\ first \in Nat \ {0}
  BY FirstTickType DEF StreamType
<1>2. Holding(r)
  BY DEF Holding
<1>3. r.cur # 0 /\ r.cur >= first
  BY <1>2 DEF ReaderSound
<1>4. Passed(r) = n /\ ~ (Passed(r) > 0)
  BY DEF ReaderSound
<1>5. Passed(r) = r.cur - first
  BY <1>1, <1>2, <1>3 DEF Passed
<1>6. Passed(q) = r.cur - first + 1
  BY <1>3 DEF Passed
<1> HIDE DEF first
<1>7. Passed(q) = n + 1
  BY <1>1, <1>4, <1>5, <1>6
<1>8. q.base # 0 /\ q.cur >= FirstTick(q.source, q.start)
  BY <1>3 DEF first
<1> QED BY <1>7, <1>8 DEF ReaderSound

\* What it sends follows on what it has sent.
LEMMA ReaderSends ==
    ASSUME NEW r \in StreamType, NEW q, NEW n \in Nat, ReaderSound(r, n), r.pc = "send",
           q.source = r.source, q.start = r.start, q.map = r.map, q.cur = r.cur, q.base = r.base,
           ~ Holding(q)
    PROVE  r.cur = FirstSent(r) + n /\ ReaderSound(q, n + 1)
<1> DEFINE first == FirstTick(r.source, r.start)
           kept == IF r.base = 0 THEN 0 ELSE 1
<1>1. r.cur \in Nat /\ r.start \in Nat /\ first \in Nat \ {0} /\ kept \in Nat
  BY FirstTickType DEF StreamType
<1>2. Holding(r)
  BY DEF Holding
<1>3. r.cur # 0 /\ r.cur >= first /\ Passed(r) = n + kept
  BY <1>2 DEF ReaderSound
<1>4. r.map = "LiveMap" <=> r.base # 0
  BY DEF ReaderSound
<1>5. Passed(r) = r.cur - first
  BY <1>1, <1>2, <1>3 DEF Passed
<1>6. Passed(q) = r.cur - first + 1
  BY <1>3 DEF Passed
<1>7. FirstSent(r) = first + kept
  BY <1>4 DEF FirstSent
<1> HIDE DEF first, kept
<1>8. Passed(q) = (n + 1) + kept /\ r.cur = first + kept + n
  BY <1>1, <1>3, <1>5, <1>6
<1>9. r.cur = FirstSent(r) + n
  BY <1>1, <1>7, <1>8
<1>10. q.cur >= FirstTick(q.source, q.start) /\ q.pc # "send"
  BY <1>3 DEF first, Holding
<1>11. ReaderSound(q, n + 1)
  BY <1>4, <1>8, <1>10 DEF ReaderSound, kept
<1> QED BY <1>9, <1>11

\* Where the loop of a reader goes on.
LEMMA ReaderLoop ==
    ASSUME NEW s, stream[s].source \in Sources
    PROVE  /\ LoopHead(s) \in {"fetch", "mail"}
           /\ LoopHead(s) = "mail" => stream[s].source = "Random"
           /\ AfterFetch(s) \in {"send", "map", "mail"}
           /\ AfterFetch(s) = "send" => stream[s].map = None
           /\ AfterFetch(s) = "mail" => stream[s].source # "Random"
           /\ AfterMail(s) \in {"fetch", "map"}
           /\ AfterMail(s) = "fetch" <=> stream[s].source = "Random"
  BY DEF Sources, LoopHead, AfterFetch, AfterMail, Raw, Reader, RandomReader, RedisReader,
         FlatfileReader, PostgresReader

-----------------------------------------------------------------------------
(* Steps *)

\* What the steps need of a stream.
LEMMA StreamFacts ==
    ASSUME BacktesterInv, NEW s \in Streams
    PROVE  /\ stream \in [Streams -> StreamType] /\ stream[s] \in StreamType
           /\ running_backtests \subseteq Streams /\ simbrokers \subseteq Streams
           /\ definition \in [Streams -> Definitions \cup {None}]
           /\ consumer \in [Streams -> {"none", "waiting", "ended"}]
           /\ ticks \in [Streams -> [n : Nat, last : Nat]]
           /\ ticks[s] \in [n : Nat, last : Nat] /\ ticks[s].n \in Nat /\ ticks[s].last \in Nat
           /\ process \in {"up", "dying", "exited"}
           /\ BookSound(s) /\ RunSound(stream[s], ticks[s])
           /\ s \in Backtests => BoundsKept(definition[s], ticks[s], consumer[s] = "waiting")
<1>1. ticks \in [Streams -> [n : Nat, last : Nat]]
  BY DEF BacktesterInv, BacktesterTypeOK
<1>2. ticks[s] \in [n : Nat, last : Nat]
  BY <1>1
<1>3. ticks[s].n \in Nat /\ ticks[s].last \in Nat
  BY <1>2
<1> QED BY <1>1, <1>2, <1>3 DEF BacktesterInv, BacktesterTypeOK

\* The types of what a stream consists of.
LEMMA StreamFields ==
    ASSUME NEW r \in StreamType
    PROVE  /\ r.cur \in Nat /\ r.base \in Nat /\ r.start \in Nat /\ r.feed \in 0..Published
           /\ r.chan \in Seq(Nat) /\ Len(r.chan) \in Nat
           /\ r.mail \in Seq(TickstreamCommands)
           /\ r.token \in BOOLEAN /\ r.got_mail \in BOOLEAN /\ r.message \in {"Pause", "Stop"}
<1>1. r.chan \in Seq(Nat)
  BY DEF StreamType
<1>2. Len(r.chan) \in Nat
  BY <1>1, LenProperties
<1>3. r.token \in BOOLEAN /\ r.got_mail \in BOOLEAN
  BY Zenon DEF StreamType
<1> QED BY <1>1, <1>2, <1>3 DEF StreamType

\* Only one stream changes, and it stays the stream that was started.
LEMMA OneStream ==
    ASSUME BacktesterInv, NEW s \in Streams, NEW q \in StreamType,
           stream' = [stream EXCEPT ![s] = q], UNCHANGED bvars,
           q.source = stream[s].source, q.start = stream[s].start, q.map = stream[s].map,
           s \in running_backtests => q.listening,
           q.pc = "unstarted" <=> stream[s].pc = "unstarted", RunSound(q, ticks[s])
    PROVE  BacktesterInv'
<1>1. stream \in [Streams -> StreamType]
  BY StreamFacts
<1>2. stream'[s] = q /\ stream' \in [Streams -> StreamType]
  BY <1>1
<1>3. BacktesterTypeOK'
  BY <1>2 DEF BacktesterInv, BacktesterTypeOK, bvars
<1>4. ASSUME NEW t \in Streams
      PROVE  /\ BookSound(t)' /\ RunSound(stream[t], ticks[t])'
             /\ t \in Backtests => BoundsKept(definition[t], ticks[t], consumer[t] = "waiting")'
  <2>1. /\ BookSound(t) /\ RunSound(stream[t], ticks[t])
        /\ t \in Backtests => BoundsKept(definition[t], ticks[t], consumer[t] = "waiting")
    BY StreamFacts
  <2>2. /\ consumer' = consumer /\ ticks' = ticks /\ definition' = definition
        /\ running_backtests' = running_backtests
    BY DEF bvars
  <2>3. CASE t # s
    <3>1. stream'[t] = stream[t]
      BY <1>1, <2>3
    <3> QED BY <2>1, <2>2, <3>1 DEF BookSound
  <2>4. CASE t = s
    <3>1. BookSound(s)'
      BY <1>2, <2>1, <2>2, <2>4 DEF BookSound
    <3> QED BY <1>2, <2>1, <2>2, <2>4, <3>1
  <2> QED BY <2>3, <2>4
<1> QED BY <1>3, <1>4 DEF BacktesterInv

\* The reader moves on: it ends, or its books still agree.
LEMMA RunGoesOn ==
    ASSUME NEW r, NEW q, NEW t, RunSound(r, t),
           q.source = r.source, q.start = r.start, q.map = r.map, q.chan = r.chan,
           q.pc \in {"done", "panicked"} \/ ReaderSound(q, t.n + Len(r.chan))
    PROVE  RunSound(q, t)
<1>1. FirstSent(q) = FirstSent(r)
  BY DEF FirstSent
<1> QED BY <1>1 DEF RunSound

\* The steps of a reader that only change where it is, its flag and its token.
LEMMA ReaderWalks ==
    ASSUME BacktesterInv, NEW s \in Streams, NEW pc \in {"fetch", "mail", "read", "paused", "clear",
                                                         "map", "send", "done", "panicked"},
           NEW got \in BOOLEAN, NEW token \in BOOLEAN,
           stream' = [stream EXCEPT ![s] =
                        [stream[s] EXCEPT !.pc = pc, !.got_mail = got, !.token = token]],
           UNCHANGED bvars, stream[s].pc \notin {"unstarted", "done", "panicked"},
           \/ pc \in {"done", "panicked"}
           \/ /\ Holding([stream[s] EXCEPT !.pc = pc]) <=> Holding(stream[s])
              /\ pc = "send" => stream[s].base # 0 \/ stream[s].map # "LiveMap"
    PROVE  BacktesterInv'
<1> DEFINE r == stream[s]
           q == [r EXCEPT !.pc = pc, !.got_mail = got, !.token = token]
<1>1. r \in StreamType /\ RunSound(r, ticks[s]) /\ BookSound(s)
  BY StreamFacts
<1>2. /\ q \in StreamType /\ q.source = r.source /\ q.start = r.start /\ q.map = r.map
      /\ q.cur = r.cur /\ q.base = r.base /\ q.chan = r.chan /\ q.listening = r.listening
      /\ q.pc = pc
  BY <1>1 DEF StreamType
<1> HIDE DEF q
<1>3. CASE pc \in {"done", "panicked"}
  <2>1. RunSound(q, ticks[s])
    BY <1>1, <1>2, <1>3, RunGoesOn
  <2> QED BY <1>1, <1>2, <2>1, OneStream DEF q, BookSound
<1>4. CASE pc \notin {"done", "panicked"}
  <2>1. ReaderSound(r, ticks[s].n + Len(r.chan))
    BY <1>1 DEF RunSound
  <2>2. Holding(q) <=> Holding(r)
    <3>1. Holding([r EXCEPT !.pc = pc]) <=> Holding(r)
      BY <1>4
    <3>2. [r EXCEPT !.pc = pc].pc = pc /\ [r EXCEPT !.pc = pc].source = r.source
      BY <1>1 DEF StreamType
    <3>3. Holding([r EXCEPT !.pc = pc]) <=> Holding(q)
      BY <1>2, <3>2 DEF Holding
    <3> QED BY <3>1, <3>3
  <2>3. ReaderSound(q, ticks[s].n + Len(r.chan))
    BY <1>2, <1>4, <2>1, <2>2, ReaderGoesOn
  <2>4. RunSound(q, ticks[s])
    BY <1>1, <1>2, <2>3, RunGoesOn
  <2> QED BY <1>1, <1>2, <2>4, OneStream DEF q, BookSound
<1> QED BY <1>3, <1>4

\* A reader that is under way.
LEMMA ReaderFacts ==
    ASSUME BacktesterInv, NEW s \in Streams, stream[s].pc # "unstarted"
    PROVE  /\ stream[s] \in StreamType /\ stream \in [Streams -> StreamType]
           /\ stream[s].source \in Sources
           /\ stream[s].got_mail \in BOOLEAN /\ stream[s].token \in BOOLEAN
           /\ stream[s].message \in {"Pause", "Stop"}
           /\ \A pc \in {"fetch", "mail", "read", "paused", "clear", "map", "send", "done"} :
                 Holding([stream[s] EXCEPT !.pc = pc])
                   <=> \/ pc \in {"map", "send"}
                       \/ pc \in {"mail", "read", "paused", "clear"} /\ stream[s].source # "Random"
<1>1. stream[s] \in StreamType /\ stream \in [Streams -> StreamType] /\ BookSound(s)
  BY StreamFacts
<1>2. stream[s].source \in Sources
  BY <1>1 DEF BookSound
<1>3. ASSUME NEW pc
      PROVE  [stream[s] EXCEPT !.pc = pc].pc = pc
             /\ [stream[s] EXCEPT !.pc = pc].source = stream[s].source
  BY <1>1 DEF StreamType
<1> QED BY <1>1, <1>2, <1>3, StreamFields DEF Holding

\* A step that changes where the reader is, and perhaps its flag and its token.
LEMMA OnlyWhere ==
    ASSUME NEW r \in StreamType, NEW pc, NEW flag
    PROVE  /\ [r EXCEPT !.pc = pc]
                = [r EXCEPT !.pc = pc, !.got_mail = r.got_mail, !.token = r.token]
           /\ [r EXCEPT !.pc = pc, !.token = flag]
                = [r EXCEPT !.pc = pc, !.got_mail = r.got_mail, !.token = flag]
           /\ [r EXCEPT !.pc = pc, !.got_mail = flag]
                = [r EXCEPT !.pc = pc, !.got_mail = flag, !.token = r.token]
  BY DEF StreamType

LEMMA OpeningKeeps ==
    ASSUME BacktesterInv, NEW s \in Streams, FirstPark(s) \/ Open(s) \/ OpenFails(s),
           UNCHANGED bvars
    PROVE  BacktesterInv'
<1> DEFINE r == stream[s]
<1>1. r.pc \in {"park", "open"}
  BY DEF FirstPark, Open, OpenFails, At
<1>2. /\ r \in StreamType /\ stream \in [Streams -> StreamType] /\ r.source \in Sources
      /\ r.got_mail \in BOOLEAN /\ r.token \in BOOLEAN
  BY <1>1, ReaderFacts
<1>3. LoopHead(s) \in {"fetch", "mail"} /\ (LoopHead(s) = "mail" => r.source = "Random")
  BY <1>2, ReaderLoop
<1>4. ~ Holding(r) /\ ~ Holding([r EXCEPT !.pc = LoopHead(s)])
  BY <1>1, <1>3, ReaderFacts DEF Holding
<1>5. CASE FirstPark(s)
  <2>1. stream' = [stream EXCEPT ![s] = [r EXCEPT !.pc = LoopHead(s), !.token = FALSE]]
    BY <1>2, <1>5 DEF FirstPark
  <2>2. stream' = [stream EXCEPT ![s] =
                     [r EXCEPT !.pc = LoopHead(s), !.got_mail = r.got_mail, !.token = FALSE]]
    BY <1>2, <2>1, OnlyWhere
  <2> QED BY <1>1, <1>2, <1>3, <1>4, <2>2, ReaderWalks
<1>6. CASE Open(s)
  <2>1. stream' = [stream EXCEPT ![s] = [r EXCEPT !.pc = LoopHead(s)]]
    BY <1>2, <1>6 DEF Open
  <2>2. stream' = [stream EXCEPT ![s] =
                     [r EXCEPT !.pc = LoopHead(s), !.got_mail = r.got_mail, !.token = r.token]]
    BY <1>2, <2>1, OnlyWhere
  <2> QED BY <1>1, <1>2, <1>3, <1>4, <2>2, ReaderWalks
<1>7. CASE OpenFails(s)
  <2>1. PICK pc \in {"done", "panicked"} : stream' = [stream EXCEPT ![s] = [r EXCEPT !.pc = pc]]
    BY <1>2, <1>7 DEF OpenFails
  <2>2. stream' = [stream EXCEPT ![s] =
                     [r EXCEPT !.pc = pc, !.got_mail = r.got_mail, !.token = r.token]]
    BY <1>2, <2>1, OnlyWhere
  <2> QED BY <1>1, <1>2, <2>2, ReaderWalks
<1> QED BY <1>5, <1>6, <1>7

\* The reader takes a tick.
LEMMA FetchKeeps ==
    ASSUME BacktesterInv, NEW s \in Streams, Fetch(s), UNCHANGED bvars
    PROVE  BacktesterInv'
<1> DEFINE r == stream[s]
           q == [r EXCEPT !.pc = AfterFetch(s), !.cur = NextTick(s)]
<1>1. r.pc = "fetch"
  BY DEF Fetch, At
<1>2. /\ r \in StreamType /\ stream \in [Streams -> StreamType] /\ r.source \in Sources
      /\ RunSound(r, ticks[s]) /\ BookSound(s) /\ ticks[s].n \in Nat
      /\ Len(r.chan) \in Nat /\ r.cur \in Nat /\ r.start \in Nat
  BY <1>1, ReaderFacts, StreamFacts, StreamFields
<1>3. /\ AfterFetch(s) \in {"send", "map", "mail"}
      /\ AfterFetch(s) = "send" => r.map = None
      /\ AfterFetch(s) = "mail" => r.source # "Random"
  BY <1>2, ReaderLoop
<1>4. NextTick(s) = IF r.cur = 0 THEN FirstTick(r.source, r.start) ELSE r.cur + 1
  BY DEF NextTick
<1>5. NextTick(s) \in Nat
  BY <1>2, <1>4, FirstTickType
<1>6. /\ q \in StreamType /\ q.source = r.source /\ q.start = r.start /\ q.map = r.map
      /\ q.cur = NextTick(s) /\ q.base = r.base /\ q.chan = r.chan /\ q.listening = r.listening
      /\ q.pc = AfterFetch(s)
  BY <1>2, <1>3, <1>5 DEF StreamType
<1>7. stream' = [stream EXCEPT ![s] = q]
  BY <1>2 DEF Fetch
<1> HIDE DEF q
<1>8. Holding(q)
  BY <1>3, <1>6 DEF Holding
<1>9. ReaderSound(r, ticks[s].n + Len(r.chan)) /\ ticks[s].n + Len(r.chan) \in Nat
  BY <1>1, <1>2 DEF RunSound
<1>10. q.pc = "send" => r.map # "LiveMap"
  BY <1>3, <1>6, BacktesterAssumption
<1>11. ReaderSound(q, ticks[s].n + Len(r.chan))
  BY <1>1, <1>2, <1>4, <1>6, <1>8, <1>9, <1>10, ReaderFetches
<1>12. RunSound(q, ticks[s])
  BY <1>2, <1>6, <1>11, RunGoesOn
<1> QED BY <1>1, <1>2, <1>3, <1>6, <1>7, <1>12, OneStream DEF BookSound

\* A tick beyond the bound is left out.
LEMMA FetchLeftOutKeeps ==
    ASSUME BacktesterInv, NEW s \in Streams, FetchLeftOut(s), UNCHANGED bvars
    PROVE  BacktesterInv'
<1> DEFINE r == stream[s]
<1>1. r.pc = "fetch"
  BY DEF FetchLeftOut, At
<1>2. /\ r \in StreamType /\ stream \in [Streams -> StreamType] /\ r.source \in Sources
      /\ r.got_mail \in BOOLEAN /\ r.token \in BOOLEAN
  BY <1>1, ReaderFacts
<1>3. LoopHead(s) \in {"fetch", "mail"} /\ (LoopHead(s) = "mail" => r.source = "Random")
  BY <1>2, ReaderLoop
<1>4. ~ Holding(r) /\ ~ Holding([r EXCEPT !.pc = LoopHead(s)])
  BY <1>1, <1>3, ReaderFacts DEF Holding
<1>5. stream' = [stream EXCEPT ![s] = [r EXCEPT !.pc = LoopHead(s)]]
  BY <1>2 DEF FetchLeftOut
<1>6. stream' = [stream EXCEPT ![s] =
                   [r EXCEPT !.pc = LoopHead(s), !.got_mail = r.got_mail, !.token = r.token]]
  BY <1>2, <1>5, OnlyWhere
<1> QED BY <1>1, <1>2, <1>3, <1>4, <1>6, ReaderWalks

\* The source has ended.
LEMMA SourceEndsKeeps ==
    ASSUME BacktesterInv, NEW s \in Streams, SourceEnds(s), UNCHANGED bvars
    PROVE  BacktesterInv'
<1> DEFINE r == stream[s]
<1>1. r.pc = "fetch"
  BY DEF SourceEnds, At
<1>2. /\ r \in StreamType /\ stream \in [Streams -> StreamType]
      /\ r.got_mail \in BOOLEAN /\ r.token \in BOOLEAN
  BY <1>1, ReaderFacts
<1>3. stream' = [stream EXCEPT ![s] = [r EXCEPT !.pc = "done"]]
  BY <1>2 DEF SourceEnds
<1>4. stream' = [stream EXCEPT ![s] =
                   [r EXCEPT !.pc = "done", !.got_mail = r.got_mail, !.token = r.token]]
  BY <1>2, <1>3, OnlyWhere
<1> QED BY <1>1, <1>2, <1>4, ReaderWalks

\* check_mail, from the load of the flag to the store that clears it.
LEMMA MailKeeps ==
    ASSUME BacktesterInv, NEW s \in Streams,
           LoadFlag(s) \/ ReadMessage(s) \/ Unparked(s) \/ ClearFlag(s), UNCHANGED bvars
    PROVE  BacktesterInv'
<1> DEFINE r == stream[s]
<1>1. r.pc \in {"mail", "read", "paused", "clear"}
  BY DEF LoadFlag, ReadMessage, Unparked, ClearFlag, At
<1>2. /\ r \in StreamType /\ stream \in [Streams -> StreamType] /\ r.source \in Sources
      /\ r.got_mail \in BOOLEAN /\ r.token \in BOOLEAN /\ r.message \in {"Pause", "Stop"}
  BY <1>1, ReaderFacts
<1>3. AfterMail(s) \in {"fetch", "map"} /\ (AfterMail(s) = "fetch" <=> r.source = "Random")
  BY <1>2, ReaderLoop
<1>4. Holding(r) <=> r.source # "Random"
  BY <1>1 DEF Holding
<1>5. \A pc \in {"read", "paused", "clear", AfterMail(s)} :
         Holding([r EXCEPT !.pc = pc]) <=> Holding(r)
  BY <1>1, <1>3, <1>4, ReaderFacts
<1>6. CASE LoadFlag(s)
  <2>1. PICK pc \in {"read", AfterMail(s)} : stream' = [stream EXCEPT ![s] = [r EXCEPT !.pc = pc]]
    BY <1>2, <1>6 DEF LoadFlag
  <2>2. stream' = [stream EXCEPT ![s] =
                     [r EXCEPT !.pc = pc, !.got_mail = r.got_mail, !.token = r.token]]
    BY <1>2, <2>1, OnlyWhere
  <2> QED BY <1>1, <1>2, <1>3, <1>5, <2>2, ReaderWalks
<1>7. CASE ReadMessage(s)
  <2>1. PICK pc \in {"paused", "done", "clear"} :
           stream' = [stream EXCEPT ![s] = [r EXCEPT !.pc = pc]]
    BY <1>2, <1>7 DEF ReadMessage
  <2>2. stream' = [stream EXCEPT ![s] =
                     [r EXCEPT !.pc = pc, !.got_mail = r.got_mail, !.token = r.token]]
    BY <1>2, <2>1, OnlyWhere
  <2> QED BY <1>1, <1>2, <1>5, <2>2, ReaderWalks
<1>8. CASE Unparked(s)
  <2>1. stream' = [stream EXCEPT ![s] = [r EXCEPT !.pc = "clear", !.token = FALSE]]
    BY <1>2, <1>8 DEF Unparked
  <2>2. stream' = [stream EXCEPT ![s] =
                     [r EXCEPT !.pc = "clear", !.got_mail = r.got_mail, !.token = FALSE]]
    BY <1>2, <2>1, OnlyWhere
  <2> QED BY <1>1, <1>2, <1>5, <2>2, ReaderWalks
<1>9. CASE ClearFlag(s)
  <2>1. stream' = [stream EXCEPT ![s] = [r EXCEPT !.pc = AfterMail(s), !.got_mail = FALSE]]
    BY <1>2, <1>9 DEF ClearFlag
  <2>2. stream' = [stream EXCEPT ![s] =
                     [r EXCEPT !.pc = AfterMail(s), !.got_mail = FALSE, !.token = r.token]]
    BY <1>2, <2>1, OnlyWhere
  <2> QED BY <1>1, <1>2, <1>3, <1>5, <2>2, ReaderWalks
<1> QED BY <1>6, <1>7, <1>8, <1>9

\* The tick goes through the map.
LEMMA ApplyMapKeeps ==
    ASSUME BacktesterInv, NEW s \in Streams, ApplyMap(s), UNCHANGED bvars
    PROVE  BacktesterInv'
<1> DEFINE r == stream[s]
<1>1. r.pc = "map"
  BY DEF ApplyMap, At
<1>2. /\ r \in StreamType /\ stream \in [Streams -> StreamType] /\ r.source \in Sources
      /\ r.got_mail \in BOOLEAN /\ r.token \in BOOLEAN
      /\ RunSound(r, ticks[s]) /\ BookSound(s) /\ ticks[s].n \in Nat
      /\ Len(r.chan) \in Nat /\ r.cur \in Nat
  BY <1>1, ReaderFacts, StreamFacts, StreamFields
<1>3. CASE Swallows(s)
  <2> DEFINE q == [r EXCEPT !.pc = LoopHead(s), !.base = r.cur]
  <2>1. r.map = "LiveMap" /\ r.base = 0
    BY <1>3 DEF Swallows
  <2>2. LoopHead(s) \in {"fetch", "mail"} /\ (LoopHead(s) = "mail" => r.source = "Random")
    BY <1>2, ReaderLoop
  <2>3. /\ q \in StreamType /\ q.source = r.source /\ q.start = r.start /\ q.map = r.map
        /\ q.cur = r.cur /\ q.base = r.cur /\ q.chan = r.chan /\ q.listening = r.listening
        /\ q.pc = LoopHead(s)
    BY <1>2, <2>2 DEF StreamType
  <2>4. stream' = [stream EXCEPT ![s] = q]
    BY <1>2, <1>3 DEF ApplyMap
  <2> HIDE DEF q
  <2>5. ~ Holding(q)
    BY <2>2, <2>3 DEF Holding
  <2>6. ReaderSound(r, ticks[s].n + Len(r.chan)) /\ ticks[s].n + Len(r.chan) \in Nat
    BY <1>1, <1>2 DEF RunSound
  <2>7. ReaderSound(q, ticks[s].n + Len(r.chan))
    BY <1>1, <1>2, <2>1, <2>3, <2>5, <2>6, ReaderSwallows
  <2>8. RunSound(q, ticks[s])
    BY <1>2, <2>3, <2>7, RunGoesOn
  <2> QED BY <1>1, <1>2, <2>2, <2>3, <2>4, <2>8, OneStream DEF BookSound
<1>4. CASE ~ Swallows(s)
  <2>1. stream' = [stream EXCEPT ![s] = [r EXCEPT !.pc = "send"]]
    <3>1. [r EXCEPT !.pc = "send", !.base = r.base] = [r EXCEPT !.pc = "send"]
      BY <1>2 DEF StreamType
    <3>2. stream' = [stream EXCEPT ![s] = [r EXCEPT !.pc = "send", !.base = r.base]]
      BY <1>2, <1>4 DEF ApplyMap
    <3> QED BY <3>1, <3>2
  <2>2. stream' = [stream EXCEPT ![s] =
                     [r EXCEPT !.pc = "send", !.got_mail = r.got_mail, !.token = r.token]]
    BY <1>2, <2>1, OnlyWhere
  <2>3. r.base # 0 \/ r.map # "LiveMap"
    BY <1>4 DEF Swallows
  <2>4. Holding([r EXCEPT !.pc = "send"]) <=> Holding(r)
    BY <1>1, ReaderFacts DEF Holding
  <2> QED BY <1>1, <1>2, <2>2, <2>3, <2>4, ReaderWalks
<1> QED BY <1>3, <1>4

\* The tick goes into the channel, or the reader finds that no one is there.
LEMMA SendKeeps ==
    ASSUME BacktesterInv, NEW s \in Streams, Send(s), UNCHANGED bvars
    PROVE  BacktesterInv'
<1> DEFINE r == stream[s]
           t == ticks[s]
<1>1. r.pc = "send"
  BY DEF Send, At
<1>2. /\ r \in StreamType /\ stream \in [Streams -> StreamType] /\ r.source \in Sources
      /\ r.got_mail \in BOOLEAN /\ r.token \in BOOLEAN
      /\ RunSound(r, t) /\ BookSound(s) /\ t.n \in Nat
      /\ r.chan \in Seq(Nat) /\ Len(r.chan) \in Nat /\ r.cur \in Nat
  BY <1>1, ReaderFacts, StreamFacts, StreamFields
<1>3. CASE r.rx
  <2> DEFINE longer == Append(r.chan, r.cur)
             q == [r EXCEPT !.pc = LoopHead(s), !.chan = longer]
  <2>1. /\ longer \in Seq(Nat) /\ Len(longer) = Len(r.chan) + 1
        /\ \A i \in 1..Len(r.chan) : longer[i] = r.chan[i]
        /\ longer[Len(r.chan) + 1] = r.cur
    BY <1>2, AppendProperties
  <2>2. LoopHead(s) \in {"fetch", "mail"} /\ (LoopHead(s) = "mail" => r.source = "Random")
    BY <1>2, ReaderLoop
  <2> HIDE DEF longer
  <2>3. /\ q \in StreamType /\ q.source = r.source /\ q.start = r.start /\ q.map = r.map
        /\ q.cur = r.cur /\ q.base = r.base /\ q.chan = longer /\ q.listening = r.listening
        /\ q.pc = LoopHead(s)
    BY <1>2, <2>1, <2>2 DEF StreamType
  <2>4. stream' = [stream EXCEPT ![s] = q]
    BY <1>2, <1>3 DEF Send, longer
  <2> HIDE DEF q
  <2>5. ~ Holding(q)
    BY <2>2, <2>3 DEF Holding
  <2>6. ReaderSound(r, t.n + Len(r.chan)) /\ t.n + Len(r.chan) \in Nat
    BY <1>1, <1>2 DEF RunSound
  <2>7. /\ r.cur = FirstSent(r) + (t.n + Len(r.chan))
        /\ ReaderSound(q, (t.n + Len(r.chan)) + 1)
    BY <1>1, <1>2, <2>3, <2>5, <2>6, ReaderSends
  <2>8. FirstSent(q) = FirstSent(r) /\ FirstSent(r) \in Nat
    <3>1. FirstTick(r.source, r.start) \in Nat
      BY <1>2, StreamFields, FirstTickType
    <3> QED BY <2>3, <3>1 DEF FirstSent
  <2>9. ASSUME NEW i \in 1..Len(q.chan)
        PROVE  q.chan[i] = FirstSent(q) + t.n + i - 1
    <3>1. CASE i \in 1..Len(r.chan)
      BY <1>2, <2>1, <2>3, <2>8, <3>1 DEF RunSound
    <3>2. CASE i = Len(r.chan) + 1
      BY <1>2, <2>1, <2>3, <2>7, <2>8, <3>2
    <3> QED BY <1>2, <2>1, <2>3, <3>1, <3>2
  <2>10. t.n > 0 => t.last = FirstSent(q) + t.n - 1
    BY <1>2, <2>8 DEF RunSound
  <2>11. (t.n + Len(r.chan)) + 1 = t.n + Len(q.chan)
    <3>1. Len(q.chan) = Len(r.chan) + 1
      BY <2>1, <2>3
    <3>2. t.n \in Nat /\ Len(r.chan) \in Nat
      BY <1>2
    <3> HIDE DEF t, r
    <3> QED BY <3>1, <3>2
  <2>12. RunSound(q, t)
    BY <2>7, <2>9, <2>10, <2>11 DEF RunSound
  <2> QED BY <1>1, <1>2, <2>2, <2>3, <2>4, <2>12, OneStream DEF BookSound
<1>4. CASE ~ r.rx
  <2>1. stream' = [stream EXCEPT ![s] = [r EXCEPT !.pc = "panicked"]]
    BY <1>2, <1>4 DEF Send
  <2>2. stream' = [stream EXCEPT ![s] =
                     [r EXCEPT !.pc = "panicked", !.got_mail = r.got_mail, !.token = r.token]]
    BY <1>2, <2>1, OnlyWhere
  <2> QED BY <1>1, <1>2, <2>2, ReaderWalks
<1> QED BY <1>3, <1>4

LEMMA ReaderStepKeeps ==
    ASSUME BacktesterInv, NEW s \in Streams, ReaderStep(s), UNCHANGED bvars
    PROVE  BacktesterInv'
  BY OpeningKeeps, FetchKeeps, FetchLeftOutKeeps, SourceEndsKeeps, MailKeeps, ApplyMapKeeps, SendKeeps
  DEF ReaderStep

\* A step that touches neither the reader nor the channel.
LEMMA AsideKeeps ==
    ASSUME BacktesterInv, NEW s \in Streams, NEW q \in StreamType,
           stream' = [stream EXCEPT ![s] = q], UNCHANGED bvars,
           q.source = stream[s].source, q.start = stream[s].start, q.map = stream[s].map,
           q.pc = stream[s].pc, q.cur = stream[s].cur, q.base = stream[s].base,
           q.chan = stream[s].chan, s \in running_backtests => q.listening
    PROVE  BacktesterInv'
<1> DEFINE r == stream[s]
<1>1. RunSound(r, ticks[s])
  BY StreamFacts
<1>2. Holding(q) <=> Holding(r)
  BY DEF Holding
<1>3. r.pc \notin {"done", "panicked"} => ReaderSound(q, ticks[s].n + Len(r.chan))
  <2> SUFFICES ASSUME r.pc \notin {"done", "panicked"}
               PROVE  ReaderSound(q, ticks[s].n + Len(r.chan))
    OBVIOUS
  <2>1. ReaderSound(r, ticks[s].n + Len(r.chan))
    BY <1>1 DEF RunSound
  <2> QED BY <1>2, <2>1, ReaderGoesOn
<1>4. RunSound(q, ticks[s])
  BY <1>1, <1>3, RunGoesOn
<1> QED BY <1>4, OneStream

LEMMA PublishKeeps ==
    ASSUME BacktesterInv, NEW s \in Streams, Publish(s), UNCHANGED bvars
    PROVE  BacktesterInv'
<1> DEFINE r == stream[s]
           q == [r EXCEPT !.feed = @ + 1]
<1>1. r \in StreamType /\ stream \in [Streams -> StreamType] /\ BookSound(s)
  BY StreamFacts
<1>2. r.feed < Published /\ stream' = [stream EXCEPT ![s].feed = @ + 1]
  BY DEF Publish
<1>3. r.feed + 1 \in 0..Published
  BY <1>1, <1>2, StreamFields, TickstreamAssumption
<1>4. /\ q \in StreamType /\ q.source = r.source /\ q.start = r.start /\ q.map = r.map
      /\ q.pc = r.pc /\ q.cur = r.cur /\ q.base = r.base /\ q.chan = r.chan
      /\ q.listening = r.listening
  BY <1>1, <1>3 DEF StreamType
<1>5. stream' = [stream EXCEPT ![s] = q]
  BY <1>1, <1>2
<1> HIDE DEF q
<1> QED BY <1>1, <1>4, <1>5, AsideKeeps DEF BookSound

LEMMA RelayKeeps ==
    ASSUME BacktesterInv, NEW s \in Streams, Relay(s), UNCHANGED bvars
    PROVE  BacktesterInv'
<1> DEFINE r == stream[s]
           cmd == Head(r.mail)
           message == IF cmd = "Resume" THEN r.message ELSE cmd
           got == r.got_mail \/ cmd # "Resume"
           token == r.token \/ cmd = "Resume"
           rest == Tail(r.mail)
           q == [r EXCEPT !.mail = rest, !.message = message, !.got_mail = got, !.token = token]
<1>1. r \in StreamType /\ stream \in [Streams -> StreamType] /\ BookSound(s)
  BY StreamFacts
<1>2. r.mail # <<>>
  BY DEF Relay
<1>3. r.mail \in Seq(TickstreamCommands) /\ r.message \in {"Pause", "Stop"}
  BY <1>1, StreamFields
<1>4. cmd \in TickstreamCommands /\ rest \in Seq(TickstreamCommands)
  BY <1>2, <1>3, HeadTailProperties
<1>5. message \in {"Pause", "Stop"}
  BY <1>3, <1>4 DEF TickstreamCommands
<1>6. got \in BOOLEAN /\ token \in BOOLEAN
  OBVIOUS
<1>7. stream' = [stream EXCEPT ![s] = q]
  BY <1>1 DEF Relay
<1> HIDE DEF message, got, token, rest, cmd
<1>8. /\ q \in StreamType /\ q.source = r.source /\ q.start = r.start /\ q.map = r.map
      /\ q.pc = r.pc /\ q.cur = r.cur /\ q.base = r.base /\ q.chan = r.chan
      /\ q.listening = r.listening
  BY <1>1, <1>4, <1>5, <1>6 DEF StreamType
<1> HIDE DEF q
<1> QED BY <1>1, <1>7, <1>8, AsideKeeps DEF BookSound

LEMMA ListenerEndsKeeps ==
    ASSUME BacktesterInv, NEW s \in Streams, ListenerEnds(s)
    PROVE  BacktesterInv'
<1> DEFINE r == stream[s]
           q == [r EXCEPT !.listening = FALSE]
<1>1. r \in StreamType /\ stream \in [Streams -> StreamType]
  BY StreamFacts
<1>2. /\ q \in StreamType /\ q.source = r.source /\ q.start = r.start /\ q.map = r.map
      /\ q.pc = r.pc /\ q.cur = r.cur /\ q.base = r.base /\ q.chan = r.chan
  BY <1>1 DEF StreamType
<1>3. s \notin running_backtests /\ stream' = [stream EXCEPT ![s] = q] /\ UNCHANGED bvars
  BY <1>1 DEF ListenerEnds
<1> HIDE DEF q
<1> QED BY <1>2, <1>3, AsideKeeps

-----------------------------------------------------------------------------
(* The consumer and the commands *)

\* What is left in the channel once the sink got the first tick of it.
LEMMA RunShifts ==
    ASSUME NEW r \in StreamType, NEW q, NEW n \in Nat, NEW last, r.chan # <<>>,
           RunSound(r, [n |-> n, last |-> last]),
           q.source = r.source, q.start = r.start, q.map = r.map, q.pc = r.pc,
           q.cur = r.cur, q.base = r.base, q.chan = Tail(r.chan)
    PROVE  /\ Head(r.chan) = FirstSent(r) + n
           /\ RunSound(q, [n |-> n + 1, last |-> Head(r.chan)])
<1> DEFINE rest == Tail(r.chan)
           t == [n |-> n + 1, last |-> Head(r.chan)]
<1>1. /\ r.chan \in Seq(Nat) /\ Len(r.chan) \in Nat /\ Len(r.chan) > 0 /\ r.start \in Nat
  BY StreamFields, EmptySeq
<1>2. /\ rest \in Seq(Nat) /\ Len(rest) = Len(r.chan) - 1 /\ Len(rest) \in Nat
      /\ \A i \in 1..Len(rest) : rest[i] = r.chan[i + 1]
      /\ Head(r.chan) = r.chan[1]
  BY <1>1, HeadTailProperties
<1>3. FirstSent(r) \in Nat /\ FirstSent(q) = FirstSent(r)
  <2>1. FirstTick(r.source, r.start) \in Nat
    BY <1>1, FirstTickType
  <2> QED BY <2>1 DEF FirstSent
<1>4. \A i \in 1..Len(r.chan) : r.chan[i] = FirstSent(r) + n + i - 1
  BY DEF RunSound
<1>5. Head(r.chan) = FirstSent(r) + n
  BY <1>1, <1>2, <1>3, <1>4
<1> HIDE DEF rest
<1>6. q.chan = rest
  BY DEF rest
<1>7. ASSUME NEW i \in 1..Len(q.chan)
      PROVE  q.chan[i] = FirstSent(q) + (n + 1) + i - 1
  <2>1. i + 1 \in 1..Len(r.chan) /\ rest[i] = r.chan[i + 1] /\ i \in Int
    BY <1>1, <1>2, <1>6
  <2>2. r.chan[i + 1] = FirstSent(r) + n + (i + 1) - 1
    BY <1>4, <2>1
  <2> QED BY <1>3, <1>6, <2>1, <2>2
<1>8. Head(r.chan) = FirstSent(q) + (n + 1) - 1
  BY <1>3, <1>5
<1>9. Holding(q) <=> Holding(r)
  BY DEF Holding
<1>10. r.pc \notin {"done", "panicked"} => ReaderSound(q, (n + 1) + Len(q.chan))
  <2> SUFFICES ASSUME r.pc \notin {"done", "panicked"}
               PROVE  ReaderSound(q, (n + 1) + Len(q.chan))
    OBVIOUS
  <2>1. ReaderSound(r, n + Len(r.chan))
    BY DEF RunSound
  <2>2. n + Len(r.chan) = (n + 1) + Len(q.chan)
    BY <1>1, <1>2, <1>6
  <2> QED BY <1>9, <2>1, <2>2, ReaderGoesOn
<1>11. t.n = n + 1 /\ t.last = Head(r.chan)
  OBVIOUS
<1> HIDE DEF t
<1>12. RunSound(q, t)
  BY <1>7, <1>8, <1>10, <1>11 DEF RunSound
<1> QED BY <1>5, <1>12 DEF t

\* The bounds hold for one more tick.
LEMMA BoundsHold ==
    ASSUME NEW d \in Definitions, NEW n \in Nat, NEW last \in Nat, NEW t \in Nat,
           BoundsKept(d, [n |-> n, last |-> last], TRUE), n > 0 => t = last + 1,
           NEW waiting \in BOOLEAN, waiting => ~ CheckEarlyExit(d, n + 1, t)
    PROVE  BoundsKept(d, [n |-> n + 1, last |-> t], waiting)
<1>1. /\ d.max_tick_n \in Nat \cup {None} /\ d.max_timestamp \in Nat \cup {None}
  BY BacktesterAssumption
<1>2. n > 0 => /\ ~ CheckEarlyExit(d, n, last)
               /\ d.max_timestamp # None =>
                     last <= (IF last - n + 1 > d.max_timestamp THEN last - n + 1
                                                                ELSE d.max_timestamp)
  BY DEF BoundsKept
<1>3. ASSUME d.max_tick_n # None
      PROVE  n + 1 <= (IF d.max_tick_n = 0 THEN 1 ELSE d.max_tick_n)
  <2>1. n > 0 => n < d.max_tick_n
    BY <1>1, <1>2, <1>3 DEF CheckEarlyExit
  <2> QED BY <1>1, <1>3, <2>1
<1>4. ASSUME d.max_timestamp # None
      PROVE  t <= (IF t - (n + 1) + 1 > d.max_timestamp THEN t - (n + 1) + 1
                                                        ELSE d.max_timestamp)
  <2>1. n > 0 => last < d.max_timestamp
    BY <1>1, <1>2, <1>4 DEF CheckEarlyExit
  <2> QED BY <1>1, <1>4, <2>1
<1> QED BY <1>3, <1>4 DEF BoundsKept

\* The sink gets a tick.
LEMMA ConsumeKeeps ==
    ASSUME BacktesterInv, NEW s \in Streams, Consume(s)
    PROVE  BacktesterInv'
<1> DEFINE r == stream[s]
           n == ticks[s].n
           t == Head(r.chan)
           exit == CheckEarlyExit(definition[s], n + 1, t)
           q == [r EXCEPT !.chan = Tail(@), !.rx = ~exit]
           after == [n |-> n + 1, last |-> t]
           c == IF exit THEN "ended" ELSE "waiting"
<1>1. /\ consumer[s] = "waiting" /\ r.chan # <<>>
      /\ ticks' = [ticks EXCEPT ![s] = after]
      /\ consumer' = [consumer EXCEPT ![s] = c]
      /\ stream' = [stream EXCEPT ![s].chan = Tail(@), ![s].rx = ~exit]
      /\ UNCHANGED <<running_backtests, simbrokers, definition, process>>
  BY DEF Consume
<1>2. /\ stream \in [Streams -> StreamType] /\ r \in StreamType /\ BookSound(s)
      /\ RunSound(r, ticks[s]) /\ ticks[s] \in [n : Nat, last : Nat]
      /\ n \in Nat /\ ticks[s].last \in Nat
      /\ ticks \in [Streams -> [n : Nat, last : Nat]]
      /\ consumer \in [Streams -> {"none", "waiting", "ended"}]
      /\ s \in Backtests => BoundsKept(definition[s], ticks[s], consumer[s] = "waiting")
  BY StreamFacts
<1>3. /\ s \in Backtests /\ r.pc # "unstarted" /\ definition[s] \in Definitions
      /\ r.source = definition[s].source /\ r.start = definition[s].start_time
      /\ r.map = definition[s].map
      /\ r.source \in Sources
  BY <1>1, <1>2 DEF BookSound
<1>4. /\ r.chan \in Seq(Nat) /\ t \in Nat /\ Tail(r.chan) \in Seq(Nat)
  BY <1>1, <1>2, StreamFields, HeadTailProperties
<1>5. exit \in BOOLEAN
  BY DEF CheckEarlyExit
<1>6. stream' = [stream EXCEPT ![s] = q]
  BY <1>1, <1>2
<1>7. /\ q \in StreamType /\ q.source = r.source /\ q.start = r.start /\ q.map = r.map
      /\ q.pc = r.pc /\ q.cur = r.cur /\ q.base = r.base /\ q.chan = Tail(r.chan)
      /\ q.listening = r.listening
  <2> HIDE DEF exit
  <2> QED BY <1>2, <1>4, <1>5 DEF StreamType
<1>8. ticks[s] = [n |-> n, last |-> ticks[s].last]
  BY <1>2
<1> HIDE DEF q
<1>9. t = FirstSent(r) + n /\ RunSound(q, after)
  BY <1>1, <1>2, <1>7, <1>8, RunShifts
<1>10. n > 0 => t = ticks[s].last + 1
  <2>1. n > 0 => ticks[s].last = FirstSent(r) + n - 1
    BY <1>2 DEF RunSound
  <2>2. FirstSent(r) \in Nat
    <3>1. FirstTick(r.source, r.start) \in Nat
      BY <1>2, StreamFields, FirstTickType
    <3> QED BY <3>1 DEF FirstSent
  <2> QED BY <1>2, <1>9, <2>1, <2>2
<1>11. BoundsKept(definition[s], after, c = "waiting")
  <2>1. BoundsKept(definition[s], [n |-> n, last |-> ticks[s].last], TRUE)
    BY <1>1, <1>2, <1>3, <1>8
  <2>2. (c = "waiting") \in BOOLEAN /\ (c = "waiting" => ~ exit)
    OBVIOUS
  <2> HIDE DEF c, t, n
  <2> QED BY <1>2, <1>3, <1>4, <1>10, <2>1, <2>2, BoundsHold
<1>12. after \in [n : Nat, last : Nat] /\ after.n = n + 1 /\ c \in {"ended", "waiting"}
  BY <1>2, <1>4
<1> HIDE DEF after, c
<1>13. /\ stream' \in [Streams -> StreamType] /\ ticks' \in [Streams -> [n : Nat, last : Nat]]
       /\ consumer' \in [Streams -> {"none", "waiting", "ended"}]
  BY ZenonT(60), <1>1, <1>2, <1>6, <1>7, <1>12
<1>14. BacktesterTypeOK'
  BY <1>1, <1>13 DEF BacktesterInv, BacktesterTypeOK
<1>15. ASSUME NEW u \in Streams
       PROVE  /\ BookSound(u)' /\ RunSound(stream[u], ticks[u])'
              /\ u \in Backtests => BoundsKept(definition[u], ticks[u], consumer[u] = "waiting")'
  <2>1. /\ BookSound(u) /\ RunSound(stream[u], ticks[u])
        /\ u \in Backtests => BoundsKept(definition[u], ticks[u], consumer[u] = "waiting")
    BY StreamFacts
  <2>2. CASE u # s
    <3>1. stream'[u] = stream[u] /\ ticks'[u] = ticks[u] /\ consumer'[u] = consumer[u]
      BY <1>1, <1>2, <1>6, <2>2
    <3> QED BY <1>1, <2>1, <3>1 DEF BookSound
  <2>3. CASE u = s
    <3>1. stream'[s] = q /\ ticks'[s] = after /\ consumer'[s] = c
      BY <1>1, <1>2, <1>6
    <3>2. BookSound(s)'
      BY <1>1, <1>2, <1>3, <1>7, <1>12, <3>1 DEF BookSound
    <3> QED BY <1>1, <1>9, <1>11, <2>3, <3>1, <3>2
  <2> QED BY <2>2, <2>3
<1> QED BY <1>14, <1>15 DEF BacktesterInv

\* The consumer ends with its stream.
LEMMA StreamEndsKeeps ==
    ASSUME BacktesterInv, NEW s \in Streams, StreamEnds(s)
    PROVE  BacktesterInv'
<1> DEFINE r == stream[s]
           q == [r EXCEPT !.rx = FALSE]
<1>1. /\ stream \in [Streams -> StreamType] /\ r \in StreamType /\ BookSound(s)
      /\ RunSound(r, ticks[s])
      /\ consumer \in [Streams -> {"none", "waiting", "ended"}]
  BY StreamFacts
<1>2. /\ ReaderEnded(s) /\ consumer[s] = "waiting"
      /\ consumer' = [consumer EXCEPT ![s] = "ended"]
      /\ stream' = [stream EXCEPT ![s].rx = FALSE]
      /\ UNCHANGED <<running_backtests, simbrokers, definition, ticks, process>>
  BY DEF StreamEnds
<1>3. r.pc \in {"done", "panicked"}
  BY <1>2 DEF ReaderEnded
<1>4. /\ q \in StreamType /\ q.source = r.source /\ q.start = r.start /\ q.map = r.map
      /\ q.pc = r.pc /\ q.chan = r.chan /\ q.listening = r.listening
  BY <1>1 DEF StreamType
<1>5. stream' = [stream EXCEPT ![s] = q]
  BY <1>1, <1>2
<1> HIDE DEF q
<1>6. RunSound(q, ticks[s])
  BY <1>1, <1>3, <1>4, RunGoesOn
<1>7. stream' \in [Streams -> StreamType] /\ consumer' \in [Streams -> {"none", "waiting", "ended"}]
  BY <1>1, <1>2, <1>4, <1>5
<1>8. BacktesterTypeOK'
  BY <1>2, <1>7 DEF BacktesterInv, BacktesterTypeOK
<1>9. ASSUME NEW u \in Streams
      PROVE  /\ BookSound(u)' /\ RunSound(stream[u], ticks[u])'
             /\ u \in Backtests => BoundsKept(definition[u], ticks[u], consumer[u] = "waiting")'
  <2>1. /\ BookSound(u) /\ RunSound(stream[u], ticks[u])
        /\ u \in Backtests => BoundsKept(definition[u], ticks[u], consumer[u] = "waiting")
    BY StreamFacts
  <2>2. CASE u # s
    <3>1. stream'[u] = stream[u] /\ consumer'[u] = consumer[u]
      BY <1>1, <1>2, <1>5, <2>2
    <3> QED BY <1>2, <2>1, <3>1 DEF BookSound
  <2>3. CASE u = s
    <3>1. stream'[s] = q /\ consumer'[s] = "ended"
      BY <1>1, <1>2, <1>5
    <3>2. BookSound(s)'
      BY <1>1, <1>2, <1>3, <1>4, <3>1 DEF BookSound
    <3>3. s \in Backtests => BoundsKept(definition[s], ticks[s], consumer'[s] = "waiting")
      BY <2>1, <2>3, <3>1 DEF BoundsKept
    <3> QED BY <1>2, <1>6, <2>3, <3>1, <3>2, <3>3
  <2> QED BY <2>2, <2>3
<1> QED BY <1>8, <1>9 DEF BacktesterInv

\* A stream that is started has its books balanced: nothing fetched, nothing sent.
LEMMA StartedSound ==
    ASSUME NEW s \in Streams, NEW source \in Sources, NEW start \in Nat,
           NEW map \in {"FastMap", "LiveMap", None}, NEW kept \in BOOLEAN,
           stream \in [Streams -> StreamType], Start(s, source, start, map, kept)
    PROVE  /\ stream[s].pc = "unstarted"
           /\ stream' \in [Streams -> StreamType]
           /\ \A u \in Streams \ {s} : stream'[u] = stream[u]
           /\ stream'[s].source = source /\ stream'[s].start = start /\ stream'[s].map = map
           /\ stream'[s].listening = (map # None) /\ stream'[s].pc # "unstarted"
           /\ \A t : t.n = 0 => RunSound(stream'[s], t)
<1> DEFINE pc == IF map = None THEN Reader(source).raw ELSE Reader(source).first
           q == [Unstarted EXCEPT !.source = source, !.start = start, !.map = map, !.pc = pc,
                                  !.rx = kept, !.listening = map # None]
<1>1. pc \in {"park", "open", "fetch"}
  BY DEF Sources, Reader, RandomReader, RedisReader, FlatfileReader, PostgresReader
<1>2. stream[s].pc = "unstarted" /\ stream' = [stream EXCEPT ![s] = q]
  BY DEF Start, At
<1> DEFINE heard == map # None
           k == [Unstarted EXCEPT !.source = source, !.start = start, !.map = map, !.pc = pc,
                                  !.rx = kept, !.listening = heard]
<1> k = q
  OBVIOUS
<1> heard \in BOOLEAN
  OBVIOUS
<1> HIDE DEF pc
<1>3. <<>> \in Seq(Nat) /\ <<>> \in Seq(TickstreamCommands) /\ Len(<<>>) = 0 /\ 0 \in 0..Published
  BY TickstreamAssumption, EmptySeq
<1>4. /\ Unstarted \in StreamType /\ Unstarted.cur = 0 /\ Unstarted.base = 0
      /\ Unstarted.chan = <<>>
  BY <1>3 DEF Unstarted, StreamType
<1> HIDE DEF q, heard
<1>5. /\ k \in StreamType /\ k.source = source /\ k.start = start /\ k.map = map /\ k.pc = pc
      /\ k.cur = 0 /\ k.base = 0 /\ k.chan = <<>> /\ k.listening = heard
  BY ZenonT(60), <1>1, <1>4 DEF StreamType
<1> HIDE DEF k
<1>6. /\ q \in StreamType /\ q.source = source /\ q.start = start /\ q.map = map /\ q.pc = pc
      /\ q.cur = 0 /\ q.base = 0 /\ q.chan = <<>>
  BY <1>5
<1>7. q.listening = (map # None)
  BY <1>5 DEF heard
<1>8. ~ Holding(q)
  BY <1>1, <1>6 DEF Holding
<1>9. Passed(q) = 0
  BY <1>6 DEF Passed
<1>10. ReaderSound(q, 0)
  BY <1>1, <1>6, <1>8, <1>9 DEF ReaderSound
<1>11. ASSUME NEW t, t.n = 0 PROVE RunSound(q, t)
  <2>1. t.n + Len(q.chan) = 0 /\ 1..Len(q.chan) = {} /\ ~(t.n > 0)
    BY <1>3, <1>6, <1>11
  <2> QED BY <1>10, <2>1 DEF RunSound
<1>12. q.pc # "unstarted"
  BY <1>1, <1>6
<1>13. stream'[s] = q /\ stream' \in [Streams -> StreamType]
       /\ \A u \in Streams \ {s} : stream'[u] = stream[u]
  BY <1>2, <1>6
<1> QED BY <1>2, <1>6, <1>7, <1>11, <1>12, <1>13

LEMMA StartBacktestKeeps ==
    ASSUME BacktesterInv, NEW s \in Backtests, NEW d \in Definitions, NEW broker \in BrokerStreams,
           StartBacktest(s, d, broker)
    PROVE  BacktesterInv'
<1> DEFINE sink == d.dest # "SimBroker"
<1>1. /\ Start(s, d.source, d.start_time, d.map, sink)
      /\ definition' = [definition EXCEPT ![s] = d]
      /\ consumer' = [consumer EXCEPT ![s] = IF sink THEN "waiting" ELSE "ended"]
      /\ running_backtests' \subseteq running_backtests \cup {s}
      /\ UNCHANGED <<simbrokers, ticks, process>>
  BY DEF StartBacktest
<1>2. /\ s \in Streams /\ d.source \in Sources /\ d.start_time \in Nat
      /\ d.map \in {"FastMap", "LiveMap"} /\ d.map # None
  BY BacktesterAssumption
<1>3. /\ stream \in [Streams -> StreamType] /\ running_backtests \subseteq Streams
      /\ definition \in [Streams -> Definitions \cup {None}]
      /\ consumer \in [Streams -> {"none", "waiting", "ended"}]
      /\ ticks[s].n = 0 \/ stream[s].pc # "unstarted"
  BY <1>2, StreamFacts DEF BookSound
<1>4. /\ stream[s].pc = "unstarted"
      /\ stream' \in [Streams -> StreamType]
      /\ \A u \in Streams \ {s} : stream'[u] = stream[u]
      /\ stream'[s].source = d.source /\ stream'[s].start = d.start_time /\ stream'[s].map = d.map
      /\ stream'[s].listening = (d.map # None) /\ stream'[s].pc # "unstarted"
      /\ \A t : t.n = 0 => RunSound(stream'[s], t)
  <2>1. sink \in BOOLEAN /\ d.map \in {"FastMap", "LiveMap", None}
    BY <1>2
  <2> HIDE DEF sink
  <2> QED BY <1>1, <1>2, <1>3, <2>1, StartedSound
<1>5. ticks[s].n = 0
  BY <1>3, <1>4
<1>6. BacktesterTypeOK'
  BY <1>1, <1>2, <1>3, <1>4 DEF BacktesterInv, BacktesterTypeOK
<1>7. ASSUME NEW u \in Streams
      PROVE  /\ BookSound(u)' /\ RunSound(stream[u], ticks[u])'
             /\ u \in Backtests => BoundsKept(definition[u], ticks[u], consumer[u] = "waiting")'
  <2>1. /\ BookSound(u) /\ RunSound(stream[u], ticks[u])
        /\ u \in Backtests => BoundsKept(definition[u], ticks[u], consumer[u] = "waiting")
    BY StreamFacts
  <2>2. CASE u # s
    <3>1. /\ stream'[u] = stream[u] /\ consumer'[u] = consumer[u]
          /\ definition'[u] = definition[u]
          /\ u \in running_backtests' => u \in running_backtests
      BY <1>1, <1>2, <1>3, <1>4, <2>2
    <3> QED BY <1>1, <2>1, <3>1 DEF BookSound
  <2>3. CASE u = s
    <3>1. definition'[s] = d
      BY <1>1, <1>2, <1>3
    <3>2. BookSound(s)'
      BY <1>2, <1>4, <3>1 DEF BookSound
    <3>3. BoundsKept(d, ticks[s], consumer'[s] = "waiting")
      BY <1>5 DEF BoundsKept
    <3> QED BY <1>1, <1>4, <1>5, <2>3, <3>1, <3>2, <3>3
  <2> QED BY <2>2, <2>3
<1> QED BY <1>6, <1>7 DEF BacktesterInv

LEMMA SpawnSimbrokerKeeps ==
    ASSUME BacktesterInv, NEW s \in BrokerStreams, NEW raw \in RawStreams, SpawnSimbroker(s, raw)
    PROVE  BacktesterInv'
<1>1. /\ Start(s, raw.source, raw.start_time, None, TRUE)
      /\ simbrokers' = simbrokers \cup {s}
      /\ UNCHANGED <<running_backtests, definition, consumer, ticks, process>>
  BY DEF SpawnSimbroker
<1>2. s \in Streams /\ s \notin Backtests /\ raw.source \in Sources /\ raw.start_time \in Nat
  BY BacktesterAssumption
<1>3. /\ stream \in [Streams -> StreamType] /\ simbrokers \subseteq Streams
      /\ stream[s].pc = "unstarted" =>
            ticks[s].n = 0 /\ consumer[s] = "none" /\ s \notin running_backtests
  BY <1>2, StreamFacts DEF BookSound
<1>4. /\ stream[s].pc = "unstarted"
      /\ stream' \in [Streams -> StreamType]
      /\ \A u \in Streams \ {s} : stream'[u] = stream[u]
      /\ stream'[s].source = raw.source /\ stream'[s].pc # "unstarted"
      /\ \A t : t.n = 0 => RunSound(stream'[s], t)
  BY <1>1, <1>2, <1>3, StartedSound
<1>5. BacktesterTypeOK'
  BY <1>1, <1>2, <1>3, <1>4 DEF BacktesterInv, BacktesterTypeOK
<1>6. ASSUME NEW u \in Streams
      PROVE  /\ BookSound(u)' /\ RunSound(stream[u], ticks[u])'
             /\ u \in Backtests => BoundsKept(definition[u], ticks[u], consumer[u] = "waiting")'
  <2>1. /\ BookSound(u) /\ RunSound(stream[u], ticks[u])
        /\ u \in Backtests => BoundsKept(definition[u], ticks[u], consumer[u] = "waiting")
    BY StreamFacts
  <2>2. CASE u # s
    <3>1. stream'[u] = stream[u]
      BY <1>4, <2>2
    <3> QED BY <1>1, <2>1, <3>1 DEF BookSound
  <2>3. CASE u = s
    <3>1. BookSound(s)'
      BY <1>1, <1>2, <1>3, <1>4 DEF BookSound
    <3> QED BY <1>1, <1>2, <1>3, <1>4, <2>3, <3>1
  <2> QED BY <2>2, <2>3
<1> QED BY <1>5, <1>6 DEF BacktesterInv

\* A command is put into the mail of a registered backtest.
LEMMA CommandKeeps ==
    ASSUME BacktesterInv, NEW s \in Streams, s \in running_backtests,
           NEW cmd \in TickstreamCommands, SendBacktestCmd(s, cmd),
           running_backtests' \subseteq running_backtests,
           UNCHANGED <<simbrokers, definition, consumer, ticks, process>>
    PROVE  BacktesterInv'
<1> DEFINE r == stream[s]
           q == [r EXCEPT !.mail = Append(@, cmd)]
<1>1. /\ stream \in [Streams -> StreamType] /\ r \in StreamType
      /\ running_backtests \subseteq Streams
  BY StreamFacts
<1>2. r.mail \in Seq(TickstreamCommands)
  BY <1>1, StreamFields
<1>3. Append(r.mail, cmd) \in Seq(TickstreamCommands)
  BY <1>2, AppendProperties
<1>4. /\ q \in StreamType /\ q.source = r.source /\ q.start = r.start /\ q.map = r.map
      /\ q.pc = r.pc /\ q.cur = r.cur /\ q.base = r.base /\ q.chan = r.chan
      /\ q.listening = r.listening
  BY <1>1, <1>3 DEF StreamType
<1>5. stream' = [stream EXCEPT ![s] = q]
  BY <1>1 DEF SendBacktestCmd
<1> HIDE DEF q
<1>6. RunSound(q, ticks[s])
  <2>1. RunSound(r, ticks[s])
    BY StreamFacts
  <2>2. Holding(q) <=> Holding(r)
    BY <1>4 DEF Holding
  <2>3. r.pc \notin {"done", "panicked"} => ReaderSound(q, ticks[s].n + Len(r.chan))
    <3> SUFFICES ASSUME r.pc \notin {"done", "panicked"}
                 PROVE  ReaderSound(q, ticks[s].n + Len(r.chan))
      OBVIOUS
    <3>1. ReaderSound(r, ticks[s].n + Len(r.chan))
      BY <2>1 DEF RunSound
    <3> QED BY <1>4, <2>2, <3>1, ReaderGoesOn
  <2> QED BY <1>4, <2>1, <2>3, RunGoesOn
<1>7. stream' \in [Streams -> StreamType]
  BY <1>1, <1>4, <1>5
<1>8. BacktesterTypeOK'
  BY <1>1, <1>7 DEF BacktesterInv, BacktesterTypeOK
<1>9. ASSUME NEW u \in Streams
      PROVE  /\ BookSound(u)' /\ RunSound(stream[u], ticks[u])'
             /\ u \in Backtests => BoundsKept(definition[u], ticks[u], consumer[u] = "waiting")'
  <2>1. /\ BookSound(u) /\ RunSound(stream[u], ticks[u])
        /\ u \in Backtests => BoundsKept(definition[u], ticks[u], consumer[u] = "waiting")
    BY StreamFacts
  <2>2. CASE u # s
    <3>1. stream'[u] = stream[u]
      BY <1>1, <1>5, <2>2
    <3> QED BY <2>1, <3>1 DEF BookSound
  <2>3. CASE u = s
    <3>1. stream'[s] = q
      BY <1>1, <1>5
    <3>2. BookSound(s)'
      BY <1>4, <2>1, <2>3, <3>1 DEF BookSound
    <3> QED BY <1>6, <2>1, <2>3, <3>1, <3>2
  <2> QED BY <2>2, <2>3
<1> QED BY <1>8, <1>9 DEF BacktesterInv

\* Steps that leave the streams and the backtests alone.
LEMMA NothingKeeps ==
    ASSUME BacktesterInv,
           UNCHANGED <<stream, running_backtests, simbrokers, definition, consumer, ticks>>,
           process' \in {"up", "dying", "exited"}
    PROVE  BacktesterInv'
<1>1. BacktesterTypeOK'
  BY DEF BacktesterInv, BacktesterTypeOK
<1>2. ASSUME NEW u \in Streams
      PROVE  /\ BookSound(u)' /\ RunSound(stream[u], ticks[u])'
             /\ u \in Backtests => BoundsKept(definition[u], ticks[u], consumer[u] = "waiting")'
  BY StreamFacts DEF BookSound
<1> QED BY <1>1, <1>2 DEF BacktesterInv

LEMMA HandleCommandKeeps ==
    ASSUME BacktesterInv, HandleCommand
    PROVE  BacktesterInv'
<1>1. CASE AnswerOnly
  BY <1>1, NothingKeeps DEF AnswerOnly, vars, bvars, BacktesterInv, BacktesterTypeOK
<1>2. CASE Kill \/ SpawnSimbrokerFails
  BY <1>2, NothingKeeps DEF Kill, SpawnSimbrokerFails
<1>3. CASE \E s \in BrokerStreams, raw \in RawStreams : SpawnSimbroker(s, raw)
  BY <1>3, SpawnSimbrokerKeeps
<1>4. ASSUME NEW s \in Backtests, NEW d \in Definitions, NEW broker \in BrokerStreams,
             StartBacktest(s, d, broker)
      PROVE  BacktesterInv'
  BY <1>4, StartBacktestKeeps
<1>5. ASSUME NEW s \in Backtests, NEW cmd \in {"Pause", "Resume"}, ControlBacktest(s, cmd)
      PROVE  BacktesterInv'
  BY <1>5, CommandKeeps, BacktesterAssumption DEF ControlBacktest, TickstreamCommands
<1>6. ASSUME NEW s \in Backtests, StopBacktest(s)
      PROVE  BacktesterInv'
  BY <1>6, CommandKeeps, BacktesterAssumption DEF StopBacktest, TickstreamCommands
<1> QED BY <1>1, <1>2, <1>3, <1>4, <1>5, <1>6 DEF HandleCommand

LEMMA BacktesterInitially ==
    ASSUME Init
    PROVE  BacktesterInv
<1>1. /\ <<>> \in Seq(Nat) /\ <<>> \in Seq(TickstreamCommands) /\ Len(<<>>) = 0
      /\ 0 \in 0..Published
  BY TickstreamAssumption, EmptySeq
<1>2. /\ Unstarted \in StreamType /\ Unstarted.pc = "unstarted" /\ Unstarted.cur = 0
      /\ Unstarted.base = 0 /\ Unstarted.chan = <<>>
  BY <1>1 DEF Unstarted, StreamType
<1>3. BacktesterTypeOK
  <2>1. [n |-> 0, last |-> 0] \in [n : Nat, last : Nat]
    OBVIOUS
  <2> QED BY <1>2, <2>1 DEF Init, BacktesterTypeOK
<1>4. RunSound(Unstarted, [n |-> 0, last |-> 0])
  <2>1. ~ Holding(Unstarted)
    BY <1>2 DEF Holding
  <2>2. Passed(Unstarted) = 0
    BY <1>2 DEF Passed
  <2>3. ReaderSound(Unstarted, 0)
    BY <1>2, <2>1, <2>2 DEF ReaderSound
  <2>4. 1..Len(Unstarted.chan) = {} /\ 0 + Len(Unstarted.chan) = 0
    BY <1>1, <1>2
  <2> QED BY <2>3, <2>4 DEF RunSound
<1>5. ASSUME NEW s \in Streams
      PROVE  /\ BookSound(s) /\ RunSound(stream[s], ticks[s])
             /\ BoundsKept(definition[s], ticks[s], consumer[s] = "waiting")
  BY <1>2, <1>4 DEF Init, BookSound, BoundsKept
<1> QED BY <1>3, <1>5 DEF BacktesterInv

LEMMA BacktesterStep ==
    ASSUME BacktesterInv, [Next]_vars
    PROVE  BacktesterInv'
<1>1. CASE HandleCommand
  BY <1>1, HandleCommandKeeps
<1>2. CASE Exit
  BY <1>2, NothingKeeps DEF Exit
<1>3. ASSUME NEW s \in Streams,
             \/ ReaderStep(s) /\ UNCHANGED bvars
             \/ Publish(s) /\ UNCHANGED bvars
             \/ ConsumerStep(s)
             \/ ListenerStep(s)
      PROVE  BacktesterInv'
  BY <1>3, ReaderStepKeeps, PublishKeeps, ConsumeKeeps, StreamEndsKeeps, RelayKeeps,
     ListenerEndsKeeps DEF ConsumerStep, ListenerStep
<1>4. CASE UNCHANGED vars
  BY <1>4, NothingKeeps DEF vars, bvars, BacktesterInv, BacktesterTypeOK
<1> QED BY <1>1, <1>2, <1>3, <1>4 DEF Next

(***************************************************************************)
(* Whatever commands come and wherever its threads are, what a backtest    *)
(* has handed to its sink, what is in the channel and what the reader has  *)
(* at hand are one run of ticks, and no exit condition was passed over.    *)
(***************************************************************************)
THEOREM BacktesterInvariant == Spec => []BacktesterInv
<1>1. Init => BacktesterInv
  BY BacktesterInitially
<1>2. BacktesterInv /\ [Next]_vars => BacktesterInv'
  BY BacktesterStep
<1> QED BY <1>1, <1>2, PTL DEF Spec

(***************************************************************************)
(* The expect() of send_backtest_cmd is never reached: a registered        *)
(* backtest has a listener.                                                *)
(***************************************************************************)
THEOREM BacktestsAreHeard == Spec => []BacktesterSound
<1>1. BacktesterInv => BacktesterSound
  BY DEF BacktesterInv, BacktesterSound, HandlesHeard, BookSound, BacktesterTypeOK
<1> QED BY <1>1, BacktesterInvariant, PTL

(***************************************************************************)
(* The sink sees an unbroken run of ticks from the first one of the source *)
(* on, without the one LiveMap keeps for itself, for every source and      *)
(* start time and however often the backtest was paused and resumed.       *)
(***************************************************************************)
THEOREM SinkSeesRun == Spec => []SinkSeesUnbrokenRun
<1>1. ASSUME BacktesterInv PROVE SinkSeesUnbrokenRun
  <2> SUFFICES ASSUME NEW s \in Backtests, ticks[s].n > 0
               PROVE  ticks[s].last
                        = FirstTick(definition[s].source, definition[s].start_time)
                            + (IF definition[s].map = "LiveMap" THEN 1 ELSE 0) + ticks[s].n - 1
    BY DEF SinkSeesUnbrokenRun
  <2>1. /\ BookSound(s) /\ RunSound(stream[s], ticks[s]) /\ ticks[s].n \in Nat
    BY <1>1, StreamFacts, BacktesterAssumption
  <2>2. /\ stream[s].source = definition[s].source
        /\ stream[s].start = definition[s].start_time
        /\ stream[s].map = definition[s].map
    BY <2>1 DEF BookSound
  <2>3. ticks[s].last = FirstSent(stream[s]) + ticks[s].n - 1
    BY <2>1 DEF RunSound
  <2> QED BY <2>2, <2>3 DEF FirstSent
<1> QED BY <1>1, BacktesterInvariant, PTL

(***************************************************************************)
(* An exit condition holds from the first tick that meets it, however many *)
(* ticks the reader has sent by then.                                      *)
(***************************************************************************)
THEOREM ExitsAreEarly == Spec => []EarlyExitHolds
<1>1. ASSUME BacktesterInv PROVE EarlyExitHolds
  <2> SUFFICES ASSUME NEW s \in Backtests
               PROVE  ticks[s].n > 0 =>
                        LET d == definition[s]
                            first == ticks[s].last - ticks[s].n + 1
                        IN  /\ d.max_tick_n # None =>
                                  ticks[s].n <= (IF d.max_tick_n = 0 THEN 1 ELSE d.max_tick_n)
                            /\ d.max_timestamp # None =>
                                  ticks[s].last <= (IF first > d.max_timestamp THEN first
                                                                              ELSE d.max_timestamp)
    BY DEF EarlyExitHolds
  <2>1. BoundsKept(definition[s], ticks[s], consumer[s] = "waiting")
    BY <1>1, StreamFacts, BacktesterAssumption
  <2> QED BY <2>1 DEF BoundsKept
<1> QED BY <1>1, BacktesterInvariant, PTL
=============================================================================
