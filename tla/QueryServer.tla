---------------------------- MODULE QueryServer ----------------------------
(***************************************************************************)
(* The QueryServer of util/src/transport/query_server.rs: threads that     *)
(* hold a clone of it hand queries to a pool of worker threads, each with  *)
(* a Postgres connection of its own.  execute checks for an idle           *)
(* connection, unlocks, and then either queues the query or takes the      *)
(* connection; a thread it spawns sends the query, waits until the worker  *)
(* is idle again and puts the worker's sender back.                        *)
(*                                                                         *)
(* A worker that cannot connect dies at once and its sender stays in       *)
(* conn_queue.  Postgres (external) executes a query or refuses it; the    *)
(* result is ignored either way.                                           *)
(***************************************************************************)
EXTENDS Integers, Sequences, FiniteSets

CONSTANTS
    Conns,      \* the worker threads, conn_count of them
    Queries,    \* the queries passed to execute, each by a thread of its own
    NoQuery

\* Whoever creates a QueryServer asks for at least one connection.
ASSUME QueryAssumption == IsFiniteSet(Conns) /\ Conns # {} /\ NoQuery \notin Queries

VARIABLES
    asker,          \* query -> where its caller is in execute
    courier,        \* query -> where the thread that execute spawned for it is
    sender,         \* query -> the worker whose sender that thread holds
    query_queue,
    conn_queue,     \* senders of idle workers
    conn_poisoned,  \* a thread panicked with conn_queue locked
    worker,         \* worker -> where it is
    inbox,          \* worker -> query in its channel
    task,           \* worker -> query it executes
    done_tx,        \* worker -> the query whose courier waits for it
    executed,       \* queries Postgres was given, in order
    overtaken       \* query -> dispatches executed while it was queued (history)

queryVars == <<asker, courier, sender, query_queue, conn_queue, conn_poisoned, worker, inbox,
               task, done_tx, executed, overtaken>>

Distinct(q) == \A i, j \in DOMAIN q : q[i] = q[j] => i = j
Queued(q) == \E i \in DOMAIN query_queue : query_queue[i] = q

QueryInit ==
    /\ asker = [q \in Queries |-> "new"]
    /\ courier = [q \in Queries |-> "none"]
    /\ sender \in [Queries -> {CHOOSE w \in Conns : TRUE}]
    /\ query_queue = <<>>
    /\ conn_queue \in {s \in [1..Cardinality(Conns) -> Conns] : Distinct(s)}
    /\ conn_poisoned = FALSE
    /\ worker = [w \in Conns |-> "connecting"]
    /\ inbox = [w \in Conns |-> NoQuery]
    /\ task = [w \in Conns |-> NoQuery]
    /\ done_tx = [w \in Conns |-> NoQuery]
    /\ executed = <<>>
    /\ overtaken = [q \in Queries |-> 0]

-----------------------------------------------------------------------------
(* execute *)

\* The first lock: is any connection idle?  The answer is used after the unlock.
CheckConns(q) ==
    /\ asker[q] = "new"
    /\ asker' = [asker EXCEPT ![q] = IF conn_poisoned THEN "panicked"
                                     ELSE IF conn_queue = <<>> THEN "enqueue" ELSE "take"]
    /\ UNCHANGED <<courier, sender, query_queue, conn_queue, conn_poisoned, worker, inbox,
                   task, done_tx, executed, overtaken>>

EnqueueQuery(q) ==
    /\ asker[q] = "enqueue"
    /\ asker' = [asker EXCEPT ![q] = "done"]
    /\ query_queue' = Append(query_queue, q)
    /\ UNCHANGED <<courier, sender, conn_queue, conn_poisoned, worker, inbox, task, done_tx,
                   executed, overtaken>>

\* The second lock: pop_front().unwrap() panics, the lock held, if the queue ran empty.
TakeConn(q) ==
    /\ asker[q] = "take"
    /\ IF conn_poisoned \/ conn_queue = <<>>
       THEN /\ asker' = [asker EXCEPT ![q] = "panicked"]
            /\ conn_poisoned' = TRUE
            /\ UNCHANGED <<courier, sender, conn_queue>>
       ELSE /\ asker' = [asker EXCEPT ![q] = "done"]
            /\ courier' = [courier EXCEPT ![q] = "send"]
            /\ sender' = [sender EXCEPT ![q] = Head(conn_queue)]
            /\ conn_queue' = Tail(conn_queue)
            /\ UNCHANGED conn_poisoned
    /\ UNCHANGED <<query_queue, worker, inbox, task, done_tx, executed, overtaken>>

\* The spawned thread: tx.send(..).unwrap() panics if the worker is dead.
SendQuery(q) ==
    /\ courier[q] = "send"
    /\ IF worker[sender[q]] = "dead"
       THEN courier' = [courier EXCEPT ![q] = "panicked"] /\ UNCHANGED inbox
       ELSE courier' = [courier EXCEPT ![q] = "wait"] /\ inbox' = [inbox EXCEPT ![sender[q]] = q]
    /\ UNCHANGED <<asker, sender, query_queue, conn_queue, conn_poisoned, worker, task, done_tx,
                   executed, overtaken>>

\* Mutant: the thread does not wait for the worker.
ReturnSenderEarly(q) ==
    /\ courier[q] \in {"wait", "return"}
    /\ courier' = [courier EXCEPT ![q] = "ended"]
    /\ conn_queue' = IF conn_poisoned THEN conn_queue ELSE Append(conn_queue, sender[q])
    /\ UNCHANGED <<asker, sender, query_queue, conn_poisoned, worker, inbox, task, done_tx,
                   executed, overtaken>>

\* The worker completed its oneshot, or dropped it: its sender goes back.
ReturnSender(q) ==
    /\ courier[q] = "return"
    /\ courier' = [courier EXCEPT ![q] = "ended"]
    /\ conn_queue' = IF conn_poisoned THEN conn_queue ELSE Append(conn_queue, sender[q])
    /\ UNCHANGED <<asker, sender, query_queue, conn_poisoned, worker, inbox, task, done_tx,
                   executed, overtaken>>

-----------------------------------------------------------------------------
(* init_query_processor *)

Connect(w) ==
    /\ worker[w] = "connecting"
    /\ worker' = [worker EXCEPT ![w] = "idle"]
    /\ UNCHANGED <<asker, courier, sender, query_queue, conn_queue, conn_poisoned, inbox, task,
                   done_tx, executed, overtaken>>

\* "Couldn't create postgres connection.": a query in the channel goes with its oneshot.
ConnectFails(w) ==
    /\ worker[w] = "connecting"
    /\ worker' = [worker EXCEPT ![w] = "dead"]
    /\ inbox' = [inbox EXCEPT ![w] = NoQuery]
    /\ courier' = [q \in Queries |-> IF inbox[w] = q THEN "return" ELSE courier[q]]
    /\ UNCHANGED <<asker, sender, query_queue, conn_queue, conn_poisoned, task, done_tx,
                   executed, overtaken>>

\* Mutant: the worker does not wait for a message.
ReceiveQueryAlways(w) ==
    /\ worker[w] = "idle"
    /\ worker' = [worker EXCEPT ![w] = "execute"]
    /\ task' = [task EXCEPT ![w] = inbox[w]]
    /\ done_tx' = [done_tx EXCEPT ![w] = inbox[w]]
    /\ inbox' = [inbox EXCEPT ![w] = NoQuery]
    /\ UNCHANGED <<asker, courier, sender, query_queue, conn_queue, conn_poisoned, executed,
                   overtaken>>

ReceiveQuery(w) ==
    /\ worker[w] = "idle" /\ inbox[w] # NoQuery
    /\ worker' = [worker EXCEPT ![w] = "execute"]
    /\ task' = [task EXCEPT ![w] = inbox[w]]
    /\ done_tx' = [done_tx EXCEPT ![w] = inbox[w]]
    /\ inbox' = [inbox EXCEPT ![w] = NoQuery]
    /\ overtaken' = [q \in Queries |-> IF Queued(q) THEN overtaken[q] + 1 ELSE overtaken[q]]
    /\ UNCHANGED <<asker, courier, sender, query_queue, conn_queue, conn_poisoned, executed>>

ExecuteQuery(w) ==
    /\ worker[w] = "execute"
    /\ worker' = [worker EXCEPT ![w] = "drain"]
    /\ executed' = Append(executed, task[w])
    /\ task' = [task EXCEPT ![w] = NoQuery]
    /\ UNCHANGED <<asker, courier, sender, query_queue, conn_queue, conn_poisoned, inbox,
                   done_tx, overtaken>>

\* Mutants: the next query is left in the queue; none is taken.
TryGetNewQueryPeeking(w) ==
    /\ worker[w] = "drain" /\ query_queue # <<>>
    /\ task' = [task EXCEPT ![w] = Head(query_queue)]
    /\ worker' = [worker EXCEPT ![w] = "execute"]
    /\ UNCHANGED <<asker, courier, sender, query_queue, conn_queue, conn_poisoned, inbox,
                   done_tx, executed, overtaken>>
TryGetNewQueryNever(w) == FALSE /\ UNCHANGED queryVars

\* try_get_new_query: another queued query is executed first ...
TryGetNewQuery(w) ==
    /\ worker[w] = "drain" /\ query_queue # <<>>
    /\ task' = [task EXCEPT ![w] = Head(query_queue)]
    /\ query_queue' = Tail(query_queue)
    /\ worker' = [worker EXCEPT ![w] = "execute"]
    /\ UNCHANGED <<asker, courier, sender, conn_queue, conn_poisoned, inbox, done_tx, executed,
                   overtaken>>

\* Mutant: the worker reports idle while queries are left.
CompleteQueryEager(w) ==
    /\ worker[w] = "drain"
    /\ worker' = [worker EXCEPT ![w] = "idle"]
    /\ courier' = [courier EXCEPT ![done_tx[w]] = "return"]
    /\ done_tx' = [done_tx EXCEPT ![w] = NoQuery]
    /\ UNCHANGED <<asker, sender, query_queue, conn_queue, conn_poisoned, inbox, task, executed,
                   overtaken>>

\* ... and when there is none, done_tx.complete(()).
CompleteQuery(w) ==
    /\ worker[w] = "drain" /\ query_queue = <<>>
    /\ worker' = [worker EXCEPT ![w] = "idle"]
    /\ courier' = [courier EXCEPT ![done_tx[w]] = "return"]
    /\ done_tx' = [done_tx EXCEPT ![w] = NoQuery]
    /\ UNCHANGED <<asker, sender, query_queue, conn_queue, conn_poisoned, inbox, task, executed,
                   overtaken>>

-----------------------------------------------------------------------------

ExecuteCall(q) == CheckConns(q) \/ EnqueueQuery(q) \/ TakeConn(q)
Courier(q) == SendQuery(q) \/ ReturnSender(q)
QueryWork(w) == ReceiveQuery(w) \/ ExecuteQuery(w) \/ TryGetNewQuery(w) \/ CompleteQuery(w)
Connecting(w) == Connect(w) \/ ConnectFails(w)

QueryNext ==
    \/ \E q \in Queries : ExecuteCall(q) \/ Courier(q)
    \/ \E w \in Conns : QueryWork(w) \/ Connecting(w)

QuerySpec == QueryInit /\ [][QueryNext]_queryVars

-----------------------------------------------------------------------------

\* The variables' types.
QueryTypeOK ==
    /\ asker \in [Queries -> {"new", "enqueue", "take", "done", "panicked"}]
    /\ courier \in [Queries -> {"none", "send", "wait", "return", "ended", "panicked"}]
    /\ sender \in [Queries -> Conns]
    /\ query_queue \in Seq(Queries)
    /\ conn_queue \in Seq(Conns)
    /\ conn_poisoned \in BOOLEAN
    /\ worker \in [Conns -> {"connecting", "idle", "execute", "drain", "dead"}]
    /\ inbox \in [Conns -> Queries \cup {NoQuery}]
    /\ task \in [Conns -> Queries \cup {NoQuery}]
    /\ done_tx \in [Conns -> Queries \cup {NoQuery}]
    /\ executed \in Seq(Queries)
    /\ overtaken \in [Queries -> Nat]

Holders(w) == {q \in Queries : courier[q] \in {"send", "wait", "return"} /\ sender[q] = w}
Places(w) == {i \in DOMAIN conn_queue : conn_queue[i] = w}

(***************************************************************************)
(* A worker's sender is in one place: idle in conn_queue, or with the one  *)
(* thread that waits for the worker.  It is gone only when that thread     *)
(* panicked on a dead worker or could not lock conn_queue to put it back,  *)
(* so connections leak only with a worker's death or a poisoned lock.      *)
(***************************************************************************)
SendersConserved ==
    \A w \in Conns :
        LET copies == Cardinality(Places(w)) + Cardinality(Holders(w))
        IN  /\ copies <= 1
            /\ copies = 0 => worker[w] = "dead" \/ conn_poisoned

(***************************************************************************)
(* execute returns before the query reaches Postgres, and a query queued   *)
(* just as the last worker went idle stays there: the queries that are     *)
(* dispatched after it are executed before it.  At most one per connection *)
(* can be, because a worker empties the queue after the one it was sent.   *)
(***************************************************************************)
BoundedOvertaking ==
    \A q \in Queries : Queued(q) => overtaken[q] <= Cardinality(Conns)

(***************************************************************************)
(* The pool of connections: senders are conserved, and a query that was    *)
(* left in the queue is overtaken only so often.                           *)
(***************************************************************************)
QueriesSound == QueryTypeOK /\ SendersConserved /\ BoundedOvertaking

\* A query of the pool: accepted, executing, executed, or lost with a panic or a dead worker.
QueryStatus ==
    [q \in Queries |->
        IF \E w \in Conns : task[w] = q THEN "running"
        ELSE IF \E i \in DOMAIN executed : executed[i] = q THEN "done"
        ELSE IF asker[q] = "panicked" THEN "lost"
        ELSE IF asker[q] # "done" THEN "new"
        ELSE IF Queued(q) \/ courier[q] = "send" \/ \E w \in Conns : inbox[w] = q THEN "waiting"
        ELSE "lost"]

Pool == INSTANCE WorkPool WITH Tasks <- Queries, Capacity <- Cardinality(Conns),
                               status <- QueryStatus

(***************************************************************************)
(* The QueryServer is a pool of conn_count workers: whatever the threads   *)
(* do, a query reaches Postgres at most once and in one piece of work, and *)
(* never after it was given up.                                            *)
(***************************************************************************)
QueriesArePooled == Pool!PoolSpec

(***************************************************************************)
(* Queries that wait in the queue while any worker is executing are        *)
(* executed: that worker, or others, empties the queue before reporting    *)
(* idle.  A query queued when all workers are past that check waits for    *)
(* the next call of execute, however long that takes.                      *)
(***************************************************************************)
BusyWorkersDrain ==
    (query_queue # <<>> /\ \E w \in Conns : worker[w] = "execute") ~> (query_queue = <<>>)
=============================================================================
