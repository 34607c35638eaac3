------------------------------ MODULE Transfer ------------------------------
(***************************************************************************)
(* Historical ticks on their way from one store to another:                *)
(* util/src/transport/data.rs.  transfer_data spawns a thread that reads   *)
(* ticks through the chunked buffer of a HistTickGen and passes each to    *)
(* the closure of its HistTickDst, which writes at once or in batches: to  *)
(* a file and to Redis itself, a panic if that fails, to Postgres through  *)
(* a QueryServer that inserts a batch some time later or not at all.       *)
(*                                                                         *)
(* A tick is its row number in the source.  Files, Redis and Postgres      *)
(* (external) may refuse to open, and each write may fail.                 *)
(***************************************************************************)
EXTENDS Integers, Sequences, SequencesExt

CONSTANTS
    Transfers,  \* the threads transfer_data spawns
    ChunkSize,  \* ticks a generator reads at a time: 500
    BatchSize,  \* ticks a closure collects before it writes: 5000
    RowCounts,  \* sizes of the sources
    Destinations    \* the HistTickDst that are asked for

VARIABLE transfer   \* thread -> its state

HistTickSrc == {"Flatfile", "Postgres"}     \* the other sources are unimplemented!()
HistTickDst == {"Console", "RedisChannel", "RedisSet", "Flatfile", "Postgres"}
Buffering == {"RedisChannel", "RedisSet", "Postgres"}
Refusing == HistTickDst \ {"Console"}       \* get_rx_closure may return Err or panic

Fates == {"underway", "stored", "lost"}     \* of a query that inserts a batch

ASSUME TransferAssumption ==
    /\ ChunkSize \in Nat \ {0} /\ BatchSize \in Nat \ {0}
    /\ RowCounts \subseteq Nat /\ Destinations \subseteq HistTickDst

Unspawned == [pc |-> "none", src |-> "Flatfile", dst |-> "Console", size |-> 0,
              rows |-> <<>>, buffer |-> <<>>, held |-> <<>>, stored |-> <<>>, queries |-> <<>>]

TransferInit == transfer = [t \in Transfers |-> Unspawned]

TransferData(t, src, dst, n) ==
    /\ transfer[t].pc = "none"
    /\ transfer' = [transfer EXCEPT ![t] =
                       [@ EXCEPT !.pc = "source", !.src = src, !.dst = dst, !.size = n,
                                 !.rows = [i \in 1..n |-> i]]]

\* File::open(..).expect, conn.unwrap().
OpenSource(t, available) ==
    /\ transfer[t].pc = "source"
    /\ transfer' = [transfer EXCEPT ![t].pc = IF available THEN "sink" ELSE "panicked"]

\* get_rx_closure(dst).unwrap()
OpenSink(t) ==
    /\ transfer[t].pc = "sink"
    /\ \E ok \in {TRUE} \cup (IF transfer[t].dst \in Refusing THEN {FALSE} ELSE {}) :
          transfer' = [transfer EXCEPT ![t].pc = IF ok THEN "read" ELSE "panicked"]

\* Mutant: at the end of the file there is nothing to do.
PopulateFromFileForgiving(t) ==
    /\ transfer[t].pc = "read" /\ transfer[t].buffer = <<>>
    /\ transfer[t].src = "Flatfile" /\ Len(transfer[t].rows) >= ChunkSize
    /\ transfer' = [transfer EXCEPT ![t] =
                       [@ EXCEPT !.buffer = SubSeq(transfer[t].rows, 1, ChunkSize),
                                 !.rows = SubSeq(@, ChunkSize + 1, Len(@))]]

(***************************************************************************)
(* populate_buffer of a file reads ChunkSize lines whatever is left: past  *)
(* the end of the file the line is empty and parsing it panics.  Rows it   *)
(* had read into the buffer are dropped with the thread.                   *)
(***************************************************************************)
PopulateFromFile(t) ==
    /\ transfer[t].pc = "read" /\ transfer[t].buffer = <<>>
    /\ transfer[t].src = "Flatfile"
    /\ LET rows == transfer[t].rows
       IN  transfer' = [transfer EXCEPT ![t] =
                           IF Len(rows) >= ChunkSize
                           THEN [@ EXCEPT !.buffer = SubSeq(rows, 1, ChunkSize),
                                          !.rows = SubSeq(rows, ChunkSize + 1, Len(rows))]
                           ELSE [@ EXCEPT !.pc = "panicked"]]

(***************************************************************************)
(* populate_buffer of a table assigns to buffer[i] of an empty Vec: the    *)
(* first row of an answer panics.  A failed query is logged; with it, as   *)
(* with an empty table, the buffer stays empty and the iterator ends.      *)
(***************************************************************************)
PopulateFromTable(t) ==
    /\ transfer[t].pc = "read" /\ transfer[t].buffer = <<>>
    /\ transfer[t].src = "Postgres"
    /\ \E answered \in BOOLEAN :
          transfer' = [transfer EXCEPT ![t].pc =
                          IF answered /\ transfer[t].rows # <<>> THEN "panicked" ELSE "ended"]

\* Mutant: a batch is written one tick late.
RxClosureLate(r, tick) ==
    LET held == Append(r.held, tick)
    IN  IF r.dst \notin Buffering THEN [r EXCEPT !.stored = Append(@, tick)]
        ELSE IF Len(held) <= BatchSize THEN [r EXCEPT !.held = held]
        ELSE IF r.dst = "Postgres"
             THEN [r EXCEPT !.held = <<>>,
                            !.queries = Append(@, [rows |-> held, fate |-> "underway"])]
        ELSE [r EXCEPT !.held = <<>>, !.stored = @ \o held]

(***************************************************************************)
(* The closures of get_rx_closure, on a record with the fields dst, held,  *)
(* stored and queries: Postgres' batches are handed to the QueryServer.    *)
(***************************************************************************)
RxClosure(r, tick) ==
    LET held == Append(r.held, tick)
    IN  IF r.dst \notin Buffering THEN [r EXCEPT !.stored = Append(@, tick)]
        ELSE IF Len(held) < BatchSize THEN [r EXCEPT !.held = held]
        ELSE IF r.dst = "Postgres"
             THEN [r EXCEPT !.held = <<>>,
                            !.queries = Append(@, [rows |-> held, fate |-> "underway"])]
        ELSE [r EXCEPT !.held = <<>>, !.stored = @ \o held]

(***************************************************************************)
(* What is left when the closure panics: write_all(..).expect loses the    *)
(* row, pipe.execute a batch of which Redis has taken the first k.         *)
(***************************************************************************)
RxPanics(r, tick) ==
    LET held == Append(r.held, tick)
    IN  IF r.dst = "Flatfile" THEN {r}
        ELSE IF r.dst \in {"RedisChannel", "RedisSet"} /\ Len(held) >= BatchSize
             THEN {[r EXCEPT !.held = <<>>, !.stored = @ \o SubSeq(held, 1, k)] :
                      k \in 0..Len(held)}
        ELSE {}

(***************************************************************************)
(* A query of the closure's QueryServer (external here, its own module):   *)
(* ten connections execute them in any order; an error of Postgres is      *)
(* dropped, and so is a query whose connection could not be made.          *)
(***************************************************************************)
Settled(r) ==
    {[r EXCEPT !.queries[k].fate = fate] :
        k \in {i \in DOMAIN r.queries : r.queries[i].fate = "underway"},
        fate \in {"stored", "lost"}}

QuerySettles(t) == \E r \in Settled(transfer[t]) : transfer' = [transfer EXCEPT ![t] = r]

\* HistTickGen::next takes ticks from the back of the buffer; rx_closure may panic.
NextHistTick(t) ==
    /\ transfer[t].pc = "read" /\ transfer[t].buffer # <<>>
    /\ LET r == [transfer[t] EXCEPT !.buffer = Front(@)]
           tick == Last(transfer[t].buffer)
       IN  \/ transfer' = [transfer EXCEPT ![t] = RxClosure(r, tick)]
           \/ \E left \in RxPanics(r, tick) :
                 transfer' = [transfer EXCEPT ![t] = [left EXCEPT !.pc = "unwritten"]]

TransferStep(t) ==
    OpenSink(t) \/ PopulateFromFile(t) \/ PopulateFromTable(t) \/ NextHistTick(t)

-----------------------------------------------------------------------------

\* The variable's type.
TransferTypeOK ==
    \A t \in Transfers :
        /\ transfer[t].pc \in {"none", "source", "sink", "read", "ended", "panicked", "unwritten"}
        /\ transfer[t].src \in HistTickSrc /\ transfer[t].dst \in HistTickDst
        /\ transfer[t].size \in RowCounts \cup {0}
        /\ \A s \in {transfer[t].rows, transfer[t].buffer, transfer[t].held, transfer[t].stored} :
              s \in Seq(1..transfer[t].size)
        /\ \A k \in DOMAIN transfer[t].queries :
              /\ transfer[t].queries[k].rows \in Seq(1..transfer[t].size)
              /\ transfer[t].queries[k].fate \in Fates

\* The first n rows with every chunk of them turned around.
ChunksReversed(n) ==
    [i \in 1..n |-> LET c == (i - 1) \div ChunkSize IN (2 * c + 1) * ChunkSize - i + 1]

(***************************************************************************)
(* Where the ticks are that a closure was given: written or held, in this  *)
(* order, or cut without a gap into the batches of its queries.            *)
(***************************************************************************)
Accounted(r, given) ==
    /\ Len(r.held) < BatchSize /\ (r.dst \notin Buffering => r.held = <<>>)
    /\ IF r.dst # "Postgres" THEN r.queries = <<>> /\ r.stored \o r.held = given
       ELSE /\ r.stored = <<>>
            /\ Len(given) = Len(r.queries) * BatchSize + Len(r.held)
            /\ r.held = SubSeq(given, Len(r.queries) * BatchSize + 1, Len(given))
            /\ \A k \in DOMAIN r.queries :
                  r.queries[k].rows = SubSeq(given, (k - 1) * BatchSize + 1, k * BatchSize)

(***************************************************************************)
(* What a file's transfer does with the rows it has read, exactly: every   *)
(* chunk back to front, one after the other, and none of them skipped or   *)
(* doubled on its way into the sink or into the batch that is collected,   *)
(* up to the write that fails; before that one all is written in order.    *)
(* Whether a batch reaches its table, and when, is the QueryServer's       *)
(* affair.  The thread never ends but by a panic.                          *)
(***************************************************************************)
FileTransferExact ==
    \A t \in Transfers :
        LET r == transfer[t]
            taken == r.size - Len(r.rows)
            given == SubSeq(ChunksReversed(taken), 1, taken - Len(r.buffer))
        IN  r.src = "Flatfile" =>
                /\ r.buffer = Reverse(SubSeq(ChunksReversed(taken), Len(given) + 1, taken))
                /\ IF r.pc = "unwritten" THEN IsPrefix(r.stored, given) ELSE Accounted(r, given)
                /\ r.pc # "ended"
=============================================================================
