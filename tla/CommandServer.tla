--------------------------- MODULE CommandServer ---------------------------
(***************************************************************************)
(* The CommandServer of util/src/transport/command_server.rs: callers hand *)
(* commands to a pool of worker threads; a worker publishes its command on *)
(* Redis, starts a timeout on its sleeper thread, registers interest in    *)
(* the response's uuid in the AlertList and waits for whichever of the two *)
(* comes first.                                                            *)
(*                                                                         *)
(* A step ends where a thread takes a lock, blocks or hands something to   *)
(* another thread.  A command of a worker is identified by the uuid its    *)
(* wrapping gets: the command and the number of the attempt.  Redis        *)
(* pub/sub (external) may lose a request, and several instances may answer *)
(* one.  The contents of commands and responses are dropped.               *)
(*                                                                         *)
(* A panic while a Mutex is held poisons it: everyone who locks it later   *)
(* panics too.                                                             *)
(***************************************************************************)
EXTENDS Integers, Sequences, FiniteSets

CONSTANTS
    Workers,        \* the conn_senders worker threads
    Commands,       \* the commands passed to execute, one caller thread each
    Broadcasts,     \* the commands passed to broadcast
    Responders,     \* instances that may answer a published command
    MaxRetries,     \* CONF.cs_max_retries
    None

ASSUME CommandAssumption ==
    /\ MaxRetries \in Nat \ {0}
    /\ None \notin Commands \cup Broadcasts \cup Workers
    /\ Commands \cap Broadcasts = {}
    /\ IsFiniteSet(Workers)

VARIABLES
    caller,         \* command -> where its caller is in execute
    future,         \* command or broadcast -> what its future resolved to
    command_queue,  \* commands waiting for a worker
    conn_queue,     \* handles of idle workers
    returning,      \* workers whose idle oneshot fired, not yet back in conn_queue
    pc,             \* worker -> where it is
    cmd,            \* worker -> the command it works on
    attempts,       \* worker -> attempts made before the current one
    inbox,          \* worker -> a response is in its channel
    parked,         \* worker -> uuid its sleeper is parked for, or None
    token,          \* worker -> its sleeper's unpark token is set
    awake,          \* worker -> uuid its sleeper last timed out for
    alerts,         \* uuids in the AlertList
    published,      \* uuids sent over Redis
    answers,        \* responses received: <<uuid, responder>>
    bcast,          \* broadcast -> where it is
    collected,      \* broadcast -> responders heard / recorded in the container
    al_poisoned, conn_poisoned  \* the two mutexes

pool   == <<command_queue, conn_queue, returning, conn_poisoned>>
work   == <<pc, cmd, attempts, inbox>>
sleep  == <<parked, token, awake>>
bus    == <<published, answers>>
bcasts == <<bcast, collected>>
vars   == <<caller, future, pool, work, sleep, alerts, al_poisoned, bus, bcasts>>

Uuid(w) == <<cmd[w], attempts[w]>>
BUuid(b) == <<b, 0>>

-----------------------------------------------------------------------------

Init ==
    /\ caller = [c \in Commands |-> "new"]
    /\ future = [c \in Commands \cup Broadcasts |-> "pending"]
    /\ command_queue = <<>>
    /\ conn_queue \in {q \in [1..Cardinality(Workers) -> Workers] :
                          \A i, j \in DOMAIN q : q[i] = q[j] => i = j}
    /\ returning = {}
    /\ pc = [w \in Workers |-> "idle"]
    /\ cmd = [w \in Workers |-> None]
    /\ attempts = [w \in Workers |-> 0]
    /\ inbox = [w \in Workers |-> FALSE]
    /\ parked = [w \in Workers |-> None]
    /\ token = [w \in Workers |-> FALSE]
    /\ awake = [w \in Workers |-> None]
    /\ alerts = {}
    /\ published = {}
    /\ answers = {}
    /\ bcast = [b \in Broadcasts |-> "new"]
    /\ collected = [b \in Broadcasts |-> [heard |-> {}, recorded |-> {}]]
    /\ al_poisoned = FALSE
    /\ conn_poisoned = FALSE

-----------------------------------------------------------------------------
(* execute *)

\* The first lock: is any worker idle?  The answer is used after the unlock.
CheckIdle(c) ==
    /\ caller[c] = "new"
    /\ caller' = [caller EXCEPT ![c] = IF conn_poisoned THEN "panicked"
                                       ELSE IF conn_queue = <<>> THEN "enqueue" ELSE "take"]
    /\ UNCHANGED <<future, pool, work, sleep, alerts, al_poisoned, bus, bcasts>>

Enqueue(c) ==
    /\ caller[c] = "enqueue"
    /\ caller' = [caller EXCEPT ![c] = "done"]
    /\ command_queue' = Append(command_queue, c)
    /\ UNCHANGED <<future, conn_queue, returning, conn_poisoned, work, sleep, alerts,
                   al_poisoned, bus, bcasts>>

(***************************************************************************)
(* The second lock: pop_front().unwrap() panics with the lock held if the  *)
(* last idle worker was taken meanwhile; sending to a worker that died     *)
(* panics after the unlock.                                                *)
(***************************************************************************)
TakeWorker(c) ==
    /\ caller[c] = "take"
    /\ IF conn_poisoned \/ conn_queue = <<>>
       THEN /\ caller' = [caller EXCEPT ![c] = "panicked"]
            /\ conn_poisoned' = TRUE
            /\ UNCHANGED <<conn_queue, work>>
       ELSE LET w == Head(conn_queue)
                dead == pc[w] = "dead"
            IN  /\ conn_queue' = Tail(conn_queue)
                /\ caller' = [caller EXCEPT ![c] = IF dead THEN "panicked" ELSE "done"]
                /\ pc' = [pc EXCEPT ![w] = IF dead THEN "dead" ELSE "publish"]
                /\ cmd' = [cmd EXCEPT ![w] = IF dead THEN None ELSE c]
                /\ attempts' = [attempts EXCEPT ![w] = 0]
                /\ UNCHANGED <<inbox, conn_poisoned>>
    /\ UNCHANGED <<future, command_queue, returning, sleep, alerts, al_poisoned, bus, bcasts>>

\* Mutant: the handle is put back every time the waiting thread looks.
ReturnWorkerAgain(w) ==
    /\ w \in returning
    /\ conn_queue' = Append(conn_queue, w)
    /\ UNCHANGED <<caller, future, command_queue, returning, conn_poisoned, work, sleep, alerts,
                   al_poisoned, bus, bcasts>>

\* The waiting thread of execute puts the idle worker's handle back.
ReturnWorker(w) ==
    /\ w \in returning
    /\ returning' = returning \ {w}
    /\ conn_queue' = IF conn_poisoned THEN conn_queue ELSE Append(conn_queue, w)
    /\ UNCHANGED <<caller, future, command_queue, conn_poisoned, work, sleep, alerts,
                   al_poisoned, bus, bcasts>>

-----------------------------------------------------------------------------
(* send_command_outer *)

Publish(w) ==
    /\ pc[w] = "publish"
    /\ published' = published \cup {Uuid(w)}
    /\ pc' = [pc EXCEPT ![w] = "arm"]
    /\ UNCHANGED <<caller, future, pool, cmd, attempts, inbox, sleep, alerts, al_poisoned,
                   answers, bcasts>>

\* sleepy_o.wait(): the sleeper has to be done with earlier timeouts first.
Arm(w) ==
    /\ pc[w] = "arm"
    /\ parked[w] = None
    /\ parked' = [parked EXCEPT ![w] = Uuid(w)]
    /\ pc' = [pc EXCEPT ![w] = "register"]
    /\ UNCHANGED <<caller, future, pool, cmd, attempts, inbox, token, awake, alerts,
                   al_poisoned, bus, bcasts>>

\* The worker panics on the poisoned AlertList: its oneshots are dropped.
Die(w) ==
    /\ pc' = [pc EXCEPT ![w] = "dead"]
    /\ future' = [future EXCEPT ![cmd[w]] = "Canceled"]
    /\ cmd' = [cmd EXCEPT ![w] = None]
    /\ returning' = returning \cup {w}
    /\ UNCHANGED <<caller, command_queue, conn_queue, conn_poisoned, attempts, inbox, sleep,
                   alerts, al_poisoned, bus, bcasts>>

Register(w) ==
    /\ pc[w] = "register"
    /\ IF al_poisoned THEN Die(w)
       ELSE /\ alerts' = alerts \cup {Uuid(w)}
            /\ pc' = [pc EXCEPT ![w] = "wait"]
            /\ UNCHANGED <<caller, future, pool, cmd, attempts, inbox, sleep, al_poisoned, bus,
                           bcasts>>

\* select: the response if there is one, else the timeout; the response's receiver is dropped.
Select(w) ==
    /\ pc[w] = "wait"
    /\ inbox[w] \/ awake[w] = Uuid(w)
    /\ pc' = [pc EXCEPT ![w] = IF inbox[w] THEN "answered" ELSE "timed out"]
    /\ UNCHANGED <<caller, future, pool, cmd, attempts, inbox, sleep, alerts, al_poisoned,
                   bus, bcasts>>

\* Mutants: interest that is never given up, one retry too many, one too few.
DeregisterNothing(w) == UNCHANGED alerts
OutOfRetriesLate(w) == attempts[w] >= MaxRetries
OutOfRetriesEarly(w) == attempts[w] + 2 >= MaxRetries

\* AlertList::deregister
Deregister(w) == alerts' = alerts \ {Uuid(w)}

\* attempts += 1; if attempts >= CONF.cs_max_retries
OutOfRetries(w) == attempts[w] + 1 >= MaxRetries

\* The ends of the attempt's response channel and timeout oneshot go with it.
DropReceivers(w) ==
    /\ inbox' = [inbox EXCEPT ![w] = FALSE]
    /\ awake' = [awake EXCEPT ![w] = None]

\* A response came: deregister, end the timeout early, resolve the future.
Answered(w) ==
    /\ pc[w] = "answered"
    /\ IF al_poisoned THEN Die(w)
       ELSE /\ Deregister(w)
            /\ token' = [token EXCEPT ![w] = TRUE]
            /\ future' = [future EXCEPT ![cmd[w]] = "Ok"]
            /\ pc' = [pc EXCEPT ![w] = "drain"]
            /\ DropReceivers(w)
            /\ UNCHANGED <<caller, pool, cmd, attempts, parked, al_poisoned, bus, bcasts>>

\* No response came: deregister, then give up or send again under a new uuid.
TimedOut(w) ==
    /\ pc[w] = "timed out"
    /\ IF al_poisoned THEN Die(w)
       ELSE /\ Deregister(w)
            /\ IF OutOfRetries(w)
               THEN /\ future' = [future EXCEPT ![cmd[w]] = "Err"]
                    /\ pc' = [pc EXCEPT ![w] = "drain"]
                    /\ UNCHANGED attempts
               ELSE /\ attempts' = [attempts EXCEPT ![w] = @ + 1]
                    /\ pc' = [pc EXCEPT ![w] = "publish"]
                    /\ UNCHANGED future
            /\ DropReceivers(w)
            /\ UNCHANGED <<caller, pool, cmd, parked, token, al_poisoned, bus, bcasts>>

-----------------------------------------------------------------------------
(* dispatch_worker *)

\* Mutant: the next command is looked at and stays in the queue.
DrainPeeking(w) ==
    /\ pc[w] = "drain"
    /\ attempts' = [attempts EXCEPT ![w] = 0]
    /\ cmd' = [cmd EXCEPT ![w] = IF command_queue # <<>> THEN Head(command_queue) ELSE None]
    /\ pc' = [pc EXCEPT ![w] = IF command_queue # <<>> THEN "publish" ELSE "signal"]
    /\ UNCHANGED <<caller, future, pool, inbox, sleep, alerts, al_poisoned, bus, bcasts>>

\* try_get_new_command after a command: the next one, or none.
Drain(w) ==
    /\ pc[w] = "drain"
    /\ attempts' = [attempts EXCEPT ![w] = 0]
    /\ IF command_queue # <<>>
       THEN /\ cmd' = [cmd EXCEPT ![w] = Head(command_queue)]
            /\ command_queue' = Tail(command_queue)
            /\ pc' = [pc EXCEPT ![w] = "publish"]
       ELSE /\ cmd' = [cmd EXCEPT ![w] = None]
            /\ pc' = [pc EXCEPT ![w] = "signal"]
            /\ UNCHANGED command_queue
    /\ UNCHANGED <<caller, future, conn_queue, returning, conn_poisoned, inbox, sleep, alerts,
                   al_poisoned, bus, bcasts>>

\* idle_c.complete(()): the worker waits for its next task.
SignalIdle(w) ==
    /\ pc[w] = "signal"
    /\ pc' = [pc EXCEPT ![w] = "idle"]
    /\ returning' = returning \cup {w}
    /\ UNCHANGED <<caller, future, command_queue, conn_queue, conn_poisoned, cmd, attempts,
                   inbox, sleep, alerts, al_poisoned, bus, bcasts>>

\* Mutant: the sleeper goes on to its next request without completing the timeout.
SleeperWakesSilently(w) ==
    /\ parked[w] # None
    /\ parked' = [parked EXCEPT ![w] = None]
    /\ token' = [token EXCEPT ![w] = FALSE]
    /\ UNCHANGED <<caller, future, pool, work, awake, alerts, al_poisoned, bus, bcasts>>

(***************************************************************************)
(* init_sleeper: park_timeout returns, because the time is over or because *)
(* its token is set, and the timeout future is completed; that has no      *)
(* effect once the worker has dropped its end.                             *)
(***************************************************************************)
SleeperWakes(w) ==
    /\ parked[w] # None
    /\ parked' = [parked EXCEPT ![w] = None]
    /\ token' = [token EXCEPT ![w] = FALSE]
    /\ awake' = [awake EXCEPT ![w] =
                    IF pc[w] \in {"register", "wait", "answered", "timed out"} /\ parked[w] = Uuid(w)
                    THEN parked[w] ELSE @]
    /\ UNCHANGED <<caller, future, pool, work, alerts, al_poisoned, bus, bcasts>>

-----------------------------------------------------------------------------
(* Redis and the response thread *)

(***************************************************************************)
(* send_messages: a response to a published command arrives, from an       *)
(* instance that answers it once, at any time or never.  It goes to        *)
(* whoever registered its uuid.  A worker that has its answer but has not  *)
(* deregistered yet has dropped the receiver: the expect fires with the    *)
(* AlertList locked.                                                       *)
(***************************************************************************)
SendMessages(u, r) ==
    /\ ~al_poisoned
    /\ <<u, r>> \notin answers
    /\ answers' = answers \cup {<<u, r>>}
    /\ LET listening(w) == u \in alerts /\ Uuid(w) = u
           gone == \E w \in Workers : listening(w) /\ pc[w] = "answered"
       IN  /\ al_poisoned' = gone
           /\ inbox' = [w \in Workers |-> inbox[w] \/ (listening(w) /\ ~gone)]
           /\ collected' = [b \in Broadcasts |->
                               IF BUuid(b) = u /\ u \in alerts
                               THEN [collected[b] EXCEPT !.heard = @ \cup {r}] ELSE collected[b]]
    /\ UNCHANGED <<caller, future, pool, pc, cmd, attempts, sleep, alerts, published, bcast>>

-----------------------------------------------------------------------------
(* broadcast *)

\* Unlike a worker, broadcast registers before it publishes.
BroadcastRegister(b) ==
    /\ bcast[b] = "new"
    /\ bcast' = [bcast EXCEPT ![b] = IF al_poisoned THEN "panicked" ELSE "registered"]
    /\ alerts' = IF al_poisoned THEN alerts ELSE alerts \cup {BUuid(b)}
    /\ UNCHANGED <<caller, future, pool, work, sleep, al_poisoned, bus, collected>>

BroadcastPublish(b) ==
    /\ bcast[b] = "registered"
    /\ bcast' = [bcast EXCEPT ![b] = "published"]
    /\ published' = published \cup {BUuid(b)}
    /\ UNCHANGED <<caller, future, pool, work, sleep, alerts, al_poisoned, answers,
                   collected>>

\* The collecting thread moves a response from its channel to the container.
BroadcastCollect(b, r) ==
    /\ r \in collected[b].heard \ collected[b].recorded
    /\ collected' = [collected EXCEPT ![b].recorded = @ \cup {r}]
    /\ UNCHANGED <<caller, future, pool, work, sleep, alerts, al_poisoned, bus, bcast>>

\* The timeout is over: the waiting thread deregisters ...
BroadcastTimeout(b) ==
    /\ bcast[b] = "published"
    /\ bcast' = [bcast EXCEPT ![b] = IF al_poisoned THEN "panicked" ELSE "closing"]
    /\ alerts' = IF al_poisoned THEN alerts ELSE alerts \ {BUuid(b)}
    /\ future' = [future EXCEPT ![b] = IF al_poisoned THEN "Canceled" ELSE @]
    /\ UNCHANGED <<caller, pool, work, sleep, al_poisoned, bus, collected>>

\* ... and resolves the future with what the container holds.
BroadcastResolve(b) ==
    /\ bcast[b] = "closing"
    /\ bcast' = [bcast EXCEPT ![b] = "done"]
    /\ future' = [future EXCEPT ![b] = "Ok"]
    /\ UNCHANGED <<caller, pool, work, sleep, alerts, al_poisoned, bus, collected>>

-----------------------------------------------------------------------------

Execute(c) == CheckIdle(c) \/ Enqueue(c) \/ TakeWorker(c)

Work(w) == \/ Publish(w) \/ Arm(w) \/ Register(w) \/ Select(w) \/ Answered(w) \/ TimedOut(w)
           \/ Drain(w) \/ SignalIdle(w)

Broadcast(b) == BroadcastRegister(b) \/ BroadcastPublish(b) \/ BroadcastTimeout(b)
                    \/ BroadcastResolve(b)

Network == \E r \in Responders, u \in published : SendMessages(u, r)

Next ==
    \/ \E c \in Commands : Execute(c)
    \/ \E w \in Workers : Work(w) \/ SleeperWakes(w) \/ ReturnWorker(w)
    \/ \E b \in Broadcasts : Broadcast(b) \/ \E r \in Responders : BroadcastCollect(b, r)
    \/ Network

Spec == Init /\ [][Next]_vars

\* Threads run and timeouts end; nothing is assumed of the network.
FairSpec ==
    /\ Spec
    /\ \A c \in Commands : WF_vars(Execute(c))
    /\ \A w \in Workers : WF_vars(Work(w)) /\ WF_vars(SleeperWakes(w)) /\ WF_vars(ReturnWorker(w))
    /\ \A b \in Broadcasts : WF_vars(Broadcast(b))

-----------------------------------------------------------------------------
(* Safety *)

InFlight == {"publish", "arm", "register", "wait", "answered", "timed out"}
Registered == {"wait", "answered", "timed out"}

Places == {"idle", "drain", "signal", "dead"} \cup InFlight
Attempts == 0..(MaxRetries - 1)
UuidSet == (Commands \X Attempts) \cup (Broadcasts \X {0})

\* The variables' types.
TypeOK ==
    /\ caller \in [Commands -> {"new", "enqueue", "take", "done", "panicked"}]
    /\ future \in [Commands \cup Broadcasts -> {"pending", "Ok", "Err", "Canceled"}]
    /\ command_queue \in Seq(Commands)
    /\ conn_queue \in Seq(Workers)
    /\ returning \subseteq Workers
    /\ pc \in [Workers -> Places]
    /\ cmd \in [Workers -> Commands \cup {None}]
    /\ attempts \in [Workers -> Attempts]
    /\ inbox \in [Workers -> BOOLEAN]
    /\ parked \in [Workers -> UuidSet \cup {None}]
    /\ token \in [Workers -> BOOLEAN]
    /\ awake \in [Workers -> UuidSet \cup {None}]
    /\ alerts \subseteq UuidSet
    /\ published \subseteq UuidSet
    /\ answers \subseteq UuidSet \X Responders
    /\ bcast \in [Broadcasts -> {"new", "registered", "published", "closing", "done", "panicked"}]
    /\ collected \in [Broadcasts -> [heard : SUBSET Responders, recorded : SUBSET Responders]]
    /\ al_poisoned \in BOOLEAN /\ conn_poisoned \in BOOLEAN

(***************************************************************************)
(* The AlertList holds the uuids of the attempts and broadcasts that wait  *)
(* for a response right now: a retry, a timeout or an answer leaves no     *)
(* stale interest behind, so the list does not grow, and no waiting worker *)
(* is missing from it.                                                     *)
(***************************************************************************)
InterestTracked ==
    ~al_poisoned =>
        alerts = {Uuid(w) : w \in {v \in Workers : pc[v] \in Registered}}
                    \cup {BUuid(b) : b \in {a \in Broadcasts : bcast[a] \in {"registered", "published"}}}

Queued(w) == {i \in DOMAIN conn_queue : conn_queue[i] = w}

(***************************************************************************)
(* No worker is lost or handed out twice: while conn_queue is usable, an   *)
(* idle worker's handle is in it once or on its way back to it, and a      *)
(* working one's is nowhere in it.                                         *)
(***************************************************************************)
WorkersConserved ==
    \A w \in Workers :
        /\ Cardinality(Queued(w)) <= 1
        /\ pc[w] \in InFlight \cup {"drain", "signal"} => Queued(w) = {} /\ w \notin returning
        /\ pc[w] = "idle" /\ ~conn_poisoned => (Queued(w) = {}) = (w \in returning)

Holders(c) == {w \in Workers : cmd[w] = c /\ pc[w] \in InFlight}
Waiting(c) == {i \in DOMAIN command_queue : command_queue[i] = c}

(***************************************************************************)
(* No command is lost or sent by two workers at once: from execute's       *)
(* return until its future resolves it is in the queue once, or one worker *)
(* holds it, and after that it is nowhere.                                 *)
(***************************************************************************)
CommandsConserved ==
    \A c \in Commands :
        Cardinality(Holders(c)) + Cardinality(Waiting(c))
            = IF caller[c] = "done" /\ future[c] = "pending" THEN 1 ELSE 0

Sent(c) == {k \in Attempts : <<c, k>> \in published}

(***************************************************************************)
(* A future fails with "Timed out too many times!" only after all of       *)
(* cs_max_retries attempts were sent, and resolves to a response only if   *)
(* somebody answered one of the command's own attempts.                    *)
(***************************************************************************)
OutcomesEarned ==
    \A c \in Commands :
        /\ future[c] = "Err" => Sent(c) = Attempts
        /\ future[c] = "Ok" => \E k \in Attempts, r \in Responders : <<<<c, k>>, r>> \in answers

(***************************************************************************)
(* A worker about to wait has a timeout of its own attempt running or      *)
(* over: a response that is lost, or that came before the interest was     *)
(* registered, delays the worker and never blocks it for good.             *)
(***************************************************************************)
TimeoutArmed ==
    \A w \in Workers : pc[w] \in {"register", "wait"} =>
        parked[w] = Uuid(w) \/ awake[w] = Uuid(w)

(***************************************************************************)
(* Whatever panics, no worker and no command is lost or handed out twice.  *)
(***************************************************************************)
PoolSound == TypeOK /\ WorkersConserved /\ CommandsConserved

(***************************************************************************)
(* A worker that waits can be woken: its interest is registered, a timeout *)
(* is under way, and nobody else is registered.                            *)
(***************************************************************************)
WaitsBacked == InterestTracked /\ TimeoutArmed

\* A command as a task of a pool: queued, with a worker, resolved, or lost with a panic.
CommandStatus ==
    [c \in Commands |->
        IF Holders(c) # {} THEN "running"
        ELSE IF future[c] \in {"Ok", "Err"} THEN "done"
        ELSE IF future[c] = "Canceled" \/ caller[c] = "panicked" THEN "lost"
        ELSE IF caller[c] = "done" THEN "waiting" ELSE "new"]

Pool == INSTANCE WorkPool WITH Tasks <- Commands, Capacity <- Cardinality(Workers),
                               status <- CommandStatus

(***************************************************************************)
(* The CommandServer is a pool of conn_senders workers: retries and        *)
(* timeouts included, a command is one piece of work of one worker, and    *)
(* its outcome does not change once its future is resolved or dropped.     *)
(***************************************************************************)
CommandsArePooled == Pool!PoolSpec

-----------------------------------------------------------------------------
(* Liveness, under FairSpec *)

\* A command that a worker holds is resolved, whatever the network does.
DispatchedResolves ==
    \A c \in Commands : (Holders(c) # {}) ~> (future[c] # "pending")

-----------------------------------------------------------------------------
(* What the comments say of the server and the code does not do *)

(***************************************************************************)
(* "Returns a future that resolves to the returned response": the future   *)
(* execute returned is resolved in the end.                                *)
(***************************************************************************)
FutureResolves ==
    \A c \in Commands : (caller[c] = "done") ~> (future[c] # "pending")
=============================================================================
