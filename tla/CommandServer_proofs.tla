------------------------ MODULE CommandServer_proofs ------------------------
(***************************************************************************)
(* Proofs about the CommandServer for any number of workers, commands,     *)
(* broadcasts, responders and retries, whatever gets lost or poisoned.     *)
(*                                                                         *)
(* ServerInv is inductive.  Its parts say where a handle, a command and a  *)
(* registered interest are, as membership in queues and sets instead of    *)
(* the numbers the properties count; OutcomesEarned needs in addition that *)
(* a response only ever reaches the worker that registered for it, which   *)
(* holds because no two workers hold the same command.                     *)
(***************************************************************************)
EXTENDS CommandServer, QueueLemmas

\* A handle is in conn_queue once or on its way there, and only when its worker has no work.
HandlesKept ==
    /\ Unrepeated(conn_queue)
    /\ \A w \in Elements(conn_queue) : pc[w] \in {"idle", "dead"} /\ w \notin returning
    /\ \A w \in returning : pc[w] \in {"idle", "dead"}
    /\ ~conn_poisoned => \A w \in Workers :
          pc[w] = "idle" => w \in returning \/ w \in Elements(conn_queue)

\* Worker w works on its command.
Holds(w) == pc[w] \in InFlight

\* An accepted command without an outcome is queued once or held once, and no other is.
CommandsKept ==
    /\ Unrepeated(command_queue)
    /\ \A c \in Elements(command_queue) : caller[c] = "done" /\ future[c] = "pending"
    /\ \A w \in Workers : Holds(w) =>
          /\ cmd[w] \in Commands /\ cmd[w] \notin Elements(command_queue)
          /\ caller[cmd[w]] = "done" /\ future[cmd[w]] = "pending"
    /\ \A v, w \in Workers : Holds(v) /\ Holds(w) /\ cmd[v] = cmd[w] => v = w
    /\ \A c \in Commands :
          /\ caller[c] # "done" => future[c] = "pending"
          /\ caller[c] = "done" /\ future[c] = "pending" =>
                c \in Elements(command_queue) \/ \E w \in Workers : Holds(w) /\ cmd[w] = c

\* A worker without a command has given up its last one, resolved.
CommandsDropped ==
    \A w \in Workers :
        /\ pc[w] \in {"idle", "signal", "dead"} => cmd[w] = None
        /\ pc[w] = "drain" => cmd[w] \in Commands /\ future[cmd[w]] # "pending"

\* The first k attempts of a command were sent.
SentUpTo(c, k) == \A i \in 0..(k - 1) : <<c, i>> \in published

\* What a worker, and the outcome it leaves behind, owes to the network.
EarnedSoFar ==
    /\ \A w \in Workers :
          /\ Holds(w) => SentUpTo(cmd[w], attempts[w])
          /\ pc[w] \in {"arm", "register"} \cup Registered => Uuid(w) \in published
          /\ inbox[w] => pc[w] \in Registered \cup {"dead"}
          /\ pc[w] \in Registered /\ inbox[w] => \E r \in Responders : <<Uuid(w), r>> \in answers
          /\ pc[w] = "answered" => inbox[w]
    /\ OutcomesEarned

ServerInv ==
    /\ TypeOK
    /\ HandlesKept
    /\ CommandsKept
    /\ CommandsDropped
    /\ InterestTracked
    /\ TimeoutArmed
    /\ EarnedSoFar

-----------------------------------------------------------------------------
(* Types *)

(***************************************************************************)
(* There is a first attempt, and one more until they run out.              *)
(***************************************************************************)
LEMMA AttemptsCount ==
    /\ 0 \in Attempts
    /\ \A k \in Attempts : ~(k + 1 >= MaxRetries) => k + 1 \in Attempts
BY CommandAssumption DEF Attempts

(***************************************************************************)
(* The uuid of a worker with a command is a uuid, and so is a broadcast's. *)
(***************************************************************************)
LEMMA UuidType ==
    ASSUME TypeOK
    PROVE  /\ \A w \in Workers : cmd[w] \in Commands => Uuid(w) \in UuidSet
           /\ \A b \in Broadcasts : BUuid(b) \in UuidSet
BY AttemptsCount DEF TypeOK, Uuid, BUuid, UuidSet

(***************************************************************************)
(* Where a worker can be.                                                  *)
(***************************************************************************)
LEMMA PlaceNames ==
    /\ InFlight \subseteq Places
    /\ {"idle", "drain", "signal", "dead", "publish", "arm", "register", "wait", "answered",
        "timed out"} \subseteq Places
BY DEF Places, InFlight

(***************************************************************************)
(* A step keeps the types.                                                 *)
(***************************************************************************)
LEMMA TypeStep ==
    ASSUME TypeOK, CommandsKept, CommandsDropped, [Next]_vars
    PROVE  TypeOK'
<1> USE DEF pool, work, sleep, bus, bcasts
<1>a. pc \in [Workers -> Places]
  BY DEF TypeOK
<1>b. caller \in [Commands -> {"new", "enqueue", "take", "done", "panicked"}]
  BY DEF TypeOK
<1>c. future \in [Commands \cup Broadcasts -> {"pending", "Ok", "Err", "Canceled"}]
  BY DEF TypeOK
<1>d. cmd \in [Workers -> Commands \cup {None}] /\ attempts \in [Workers -> Attempts]
  BY DEF TypeOK
<1>e. inbox \in [Workers -> BOOLEAN] /\ awake \in [Workers -> UuidSet \cup {None}]
  BY DEF TypeOK
<1>f. command_queue \in Seq(Commands) /\ conn_queue \in Seq(Workers)
  BY DEF TypeOK
<1>g. \A w \in Workers : Holds(w) => cmd[w] \in Commands
  BY DEF CommandsKept
<1>h. \A w \in Workers :
        pc[w] \in {"publish", "arm", "register", "wait", "answered", "timed out"} => Holds(w)
  BY DEF Holds, InFlight
<1>1. ASSUME NEW c \in Commands, CheckIdle(c) PROVE TypeOK'
  BY <1>1 DEF TypeOK, CheckIdle
<1>2. ASSUME NEW c \in Commands, Enqueue(c) PROVE TypeOK'
  <2>1. command_queue' \in Seq(Commands)
    BY <1>2, <1>f, AppendElements DEF Enqueue
  <2> QED BY <1>2, <2>1 DEF TypeOK, Enqueue
<1>3. ASSUME NEW c \in Commands, TakeWorker(c) PROVE TypeOK'
  <2>1. CASE conn_poisoned \/ conn_queue = <<>>
    BY <1>3, <2>1 DEF TypeOK, TakeWorker
  <2>2. CASE ~(conn_poisoned \/ conn_queue = <<>>)
    <3>1. Head(conn_queue) \in Workers /\ Tail(conn_queue) \in Seq(Workers)
      BY <1>f, <2>2, TailElements
    <3>2. caller' \in [Commands -> {"new", "enqueue", "take", "done", "panicked"}]
      BY <1>3, <2>2, <1>b DEF TakeWorker
    <3>3. pc' \in [Workers -> Places]
      BY <1>3, <2>2, <1>a, PlaceNames DEF TakeWorker
    <3>4. cmd' \in [Workers -> Commands \cup {None}]
      BY <1>3, <2>2, <1>d DEF TakeWorker
    <3>5. attempts' \in [Workers -> Attempts]
      BY <1>3, <2>2, <1>d, AttemptsCount DEF TakeWorker
    <3> QED BY <1>3, <2>2, <3>1, <3>2, <3>3, <3>4, <3>5 DEF TypeOK, TakeWorker
  <2> QED BY <2>1, <2>2
<1>4. ASSUME NEW w \in Workers, Publish(w) PROVE TypeOK'
  <2>1. Uuid(w) \in UuidSet
    BY <1>4, <1>g, <1>h, UuidType DEF Publish
  <2> QED BY <1>4, <2>1, PlaceNames DEF TypeOK, Publish
<1>5. ASSUME NEW w \in Workers, Arm(w) PROVE TypeOK'
  <2>1. Uuid(w) \in UuidSet
    BY <1>5, <1>g, <1>h, UuidType DEF Arm
  <2> QED BY <1>5, <2>1, PlaceNames DEF TypeOK, Arm
<1>6. ASSUME NEW w \in Workers, Holds(w), Die(w) PROVE TypeOK'
  <2>1. pc' \in [Workers -> Places]
    BY <1>6, <1>a, PlaceNames DEF Die
  <2>2. future' \in [Commands \cup Broadcasts -> {"pending", "Ok", "Err", "Canceled"}]
    BY <1>6 DEF TypeOK, Die
  <2>3. cmd' \in [Workers -> Commands \cup {None}]
    BY <1>6 DEF TypeOK, Die
  <2>4. returning' \subseteq Workers
    BY <1>6 DEF TypeOK, Die
  <2> QED BY <1>6, <2>1, <2>2, <2>3, <2>4 DEF TypeOK, Die
<1>7. ASSUME NEW w \in Workers, Register(w) PROVE TypeOK'
  <2>1. Holds(w) /\ Uuid(w) \in UuidSet
    BY <1>7, <1>g, <1>h, UuidType DEF Register
  <2>2. CASE al_poisoned
    BY <1>7, <1>6, <2>1, <2>2 DEF TypeOK, Register
  <2>3. CASE ~al_poisoned
    <3>1. pc' \in [Workers -> Places]
      BY <1>7, <2>3, <1>a, PlaceNames DEF Register
    <3> QED BY <1>7, <2>1, <2>3, <3>1 DEF TypeOK, Register
  <2> QED BY <2>2, <2>3
<1>8. ASSUME NEW w \in Workers, Select(w) PROVE TypeOK'
  BY <1>8, PlaceNames DEF TypeOK, Select
<1>9. ASSUME NEW w \in Workers, Answered(w) PROVE TypeOK'
  <2>1. Holds(w)
    BY <1>9, <1>h DEF Answered
  <2>2. CASE al_poisoned
    BY <1>9, <1>6, <2>1, <2>2 DEF TypeOK, Answered
  <2>3. CASE ~al_poisoned
    <3>1. future' \in [Commands \cup Broadcasts -> {"pending", "Ok", "Err", "Canceled"}]
      BY <1>9, <2>3 DEF TypeOK, Answered
    <3>2. inbox' \in [Workers -> BOOLEAN] /\ awake' \in [Workers -> UuidSet \cup {None}]
      BY <1>9, <2>3 DEF TypeOK, Answered, DropReceivers
    <3>3. pc' \in [Workers -> Places]
      BY <1>9, <2>3, <1>a, PlaceNames DEF Answered
    <3>4. token' \in [Workers -> BOOLEAN]
      BY <1>9, <2>3 DEF TypeOK, Answered
    <3>5. alerts' \subseteq UuidSet
      BY <1>9, <2>3 DEF TypeOK, Answered, Deregister
    <3> QED BY <1>9, <2>3, <3>1, <3>2, <3>3, <3>4, <3>5 DEF TypeOK, Answered
  <2> QED BY <2>2, <2>3
<1>10. ASSUME NEW w \in Workers, TimedOut(w) PROVE TypeOK'
  <2>1. Holds(w)
    BY <1>10, <1>h DEF TimedOut
  <2>2. ~OutOfRetries(w) => attempts[w] + 1 \in Attempts
    BY AttemptsCount DEF TypeOK, OutOfRetries
  <2>3. CASE al_poisoned
    BY <1>10, <1>6, <2>1, <2>3 DEF TypeOK, TimedOut
  <2>4. CASE ~al_poisoned
    <3>1. /\ future' \in [Commands \cup Broadcasts -> {"pending", "Ok", "Err", "Canceled"}]
          /\ attempts' \in [Workers -> Attempts]
      BY ZenonT(60), <1>10, <2>2, <2>4 DEF TypeOK, TimedOut
    <3>2. inbox' \in [Workers -> BOOLEAN] /\ awake' \in [Workers -> UuidSet \cup {None}]
      BY <1>10, <2>4 DEF TypeOK, TimedOut, DropReceivers
    <3>3. pc' \in [Workers -> Places]
      BY <1>10, <2>4, <1>a, PlaceNames DEF TimedOut
    <3>4. alerts' \subseteq UuidSet
      BY <1>10, <2>4 DEF TypeOK, TimedOut, Deregister
    <3> QED BY <1>10, <2>4, <3>1, <3>2, <3>3, <3>4 DEF TypeOK, TimedOut
  <2> QED BY <2>3, <2>4
<1>11. ASSUME NEW w \in Workers, Drain(w) PROVE TypeOK'
  <2>1. command_queue # <<>> =>
          Head(command_queue) \in Commands /\ Tail(command_queue) \in Seq(Commands)
    BY <1>f, TailElements
  <2> QED BY ZenonT(60), <1>11, <2>1, AttemptsCount, PlaceNames DEF TypeOK, Drain
<1>12. ASSUME NEW w \in Workers, SignalIdle(w) PROVE TypeOK'
  BY <1>12, PlaceNames DEF TypeOK, SignalIdle
<1>13. ASSUME NEW w \in Workers, SleeperWakes(w) PROVE TypeOK'
  BY <1>13 DEF TypeOK, SleeperWakes
<1>14. ASSUME NEW w \in Workers, ReturnWorker(w) PROVE TypeOK'
  <2>1. conn_queue' \in Seq(Workers)
    BY <1>14, <1>f, AppendElements DEF ReturnWorker
  <2> QED BY <1>14, <2>1 DEF TypeOK, ReturnWorker
<1>15. ASSUME NEW r \in Responders, NEW u \in published, SendMessages(u, r) PROVE TypeOK'
  <2>1. inbox' \in [Workers -> BOOLEAN] /\ al_poisoned' \in BOOLEAN
    BY <1>15 DEF TypeOK, SendMessages
  <2>2. collected' \in [Broadcasts -> [heard : SUBSET Responders, recorded : SUBSET Responders]]
    BY SMTT(30), <1>15 DEF TypeOK, SendMessages
  <2>3. answers' \subseteq UuidSet \X Responders
    BY <1>15 DEF TypeOK, SendMessages
  <2> QED BY <1>15, <2>1, <2>2, <2>3 DEF TypeOK, SendMessages
<1>16. ASSUME NEW b \in Broadcasts, Broadcast(b) PROVE TypeOK'
  <2>1. BUuid(b) \in UuidSet
    BY UuidType
  <2>2. BroadcastRegister(b) => TypeOK'
    BY <2>1 DEF TypeOK, BroadcastRegister
  <2>3. BroadcastPublish(b) => TypeOK'
    BY <2>1 DEF TypeOK, BroadcastPublish
  <2>4. BroadcastTimeout(b) => TypeOK'
    BY DEF TypeOK, BroadcastTimeout
  <2>5. BroadcastResolve(b) => TypeOK'
    BY DEF TypeOK, BroadcastResolve
  <2> QED BY <1>16, <2>2, <2>3, <2>4, <2>5 DEF TypeOK, Broadcast
<1>17. ASSUME NEW b \in Broadcasts, NEW r \in Responders, BroadcastCollect(b, r) PROVE TypeOK'
  BY <1>17 DEF TypeOK, BroadcastCollect
<1>18. CASE UNCHANGED vars
  BY <1>18 DEF TypeOK, vars
<1> QED BY <1>1, <1>2, <1>3, <1>4, <1>5, <1>7, <1>8, <1>9, <1>10, <1>11, <1>12, <1>13, <1>14,
           <1>15, <1>16, <1>17, <1>18 DEF Next, Execute, Work, Network

-----------------------------------------------------------------------------
(* Handles *)

(***************************************************************************)
(* Handles stay where they are while workers go on with their work.        *)
(***************************************************************************)
LEMMA HandlesAtWork ==
    ASSUME TypeOK, HandlesKept, UNCHANGED <<conn_queue, returning, conn_poisoned>>,
           \A w \in Workers : \/ pc'[w] = pc[w]
                              \/ {pc[w], pc'[w]} \cap {"idle", "dead"} = {}
    PROVE  HandlesKept'
<1>1. Elements(conn_queue) \subseteq Workers /\ returning \subseteq Workers
  BY ElementsType DEF TypeOK
<1> QED BY <1>1 DEF HandlesKept

(***************************************************************************)
(* A worker that gets idle, or dies, gives its handle to a waiting thread. *)
(***************************************************************************)
LEMMA HandleReturns ==
    ASSUME TypeOK, HandlesKept, NEW w \in Workers, pc[w] \notin {"idle", "dead"},
           NEW place \in {"idle", "dead"}, pc' = [pc EXCEPT ![w] = place],
           returning' = returning \cup {w}, UNCHANGED <<conn_queue, conn_poisoned>>
    PROVE  HandlesKept'
<1>1. Elements(conn_queue) \subseteq Workers /\ returning \subseteq Workers
  BY ElementsType DEF TypeOK
<1>2. \A v \in Workers : pc'[v] = IF v = w THEN place ELSE pc[v]
  BY DEF TypeOK
<1> QED BY <1>1, <1>2 DEF HandlesKept

(***************************************************************************)
(* A step keeps the handles.                                               *)
(***************************************************************************)
LEMMA HandlesStep ==
    ASSUME TypeOK, TypeOK', HandlesKept, [Next]_vars
    PROVE  HandlesKept'
<1> USE DEF pool, work, sleep, bus, bcasts
<1>a. pc \in [Workers -> Places] /\ conn_queue \in Seq(Workers)
  BY DEF TypeOK
<1>b. Elements(conn_queue) \subseteq Workers /\ returning \subseteq Workers
  BY ElementsType DEF TypeOK
<1>1. ASSUME NEW c \in Commands, CheckIdle(c) \/ Enqueue(c) PROVE HandlesKept'
  BY <1>1, HandlesAtWork DEF CheckIdle, Enqueue
<1>2. ASSUME NEW c \in Commands, TakeWorker(c) PROVE HandlesKept'
  <2>1. CASE conn_poisoned \/ conn_queue = <<>>
    BY <1>2, <2>1 DEF TakeWorker, HandlesKept
  <2>2. CASE ~(conn_poisoned \/ conn_queue = <<>>)
    <3> DEFINE w == Head(conn_queue)
    <3>1. /\ w \in Workers /\ w \in Elements(conn_queue)
          /\ Elements(conn_queue) = Elements(Tail(conn_queue)) \cup {w}
          /\ Unrepeated(Tail(conn_queue)) /\ w \notin Elements(Tail(conn_queue))
      BY <1>a, <2>2, TailElements DEF HandlesKept
    <3>2. conn_queue' = Tail(conn_queue) /\ UNCHANGED <<returning, conn_poisoned>>
      BY <1>2, <2>2 DEF TakeWorker
    <3>3. pc' = [pc EXCEPT ![w] = IF pc[w] = "dead" THEN "dead" ELSE "publish"]
      BY <1>2, <2>2 DEF TakeWorker
    <3> HIDE DEF w
    <3>4. /\ pc'[w] # "idle"
          /\ \A v \in Workers : v # w => pc'[v] = pc[v]
      BY <1>a, <3>1, <3>3
    <3> QED BY <1>b, <3>1, <3>2, <3>4 DEF HandlesKept
  <2> QED BY <2>1, <2>2
<1>3. ASSUME NEW w \in Workers, ReturnWorker(w) PROVE HandlesKept'
  <2>1. CASE conn_poisoned
    BY <1>3, <2>1 DEF ReturnWorker, HandlesKept
  <2>2. CASE ~conn_poisoned
    <3>1. w \notin Elements(conn_queue)
      BY <1>3 DEF ReturnWorker, HandlesKept
    <3>2. /\ Elements(conn_queue') = Elements(conn_queue) \cup {w}
          /\ Unrepeated(conn_queue')
      BY <1>3, <1>a, <2>2, <3>1, AppendElements DEF ReturnWorker, HandlesKept
    <3> QED BY <1>3, <3>2 DEF ReturnWorker, HandlesKept
  <2> QED BY <2>1, <2>2
<1>4. ASSUME NEW w \in Workers, pc[w] \notin {"idle", "dead"}, Die(w) PROVE HandlesKept'
  BY <1>4, HandleReturns DEF Die
<1>5. ASSUME NEW w \in Workers, Publish(w) \/ Arm(w) \/ Select(w) PROVE HandlesKept'
  BY <1>5, <1>a, HandlesAtWork DEF Publish, Arm, Select
<1>6. ASSUME NEW w \in Workers, Register(w) PROVE HandlesKept'
  <2>1. CASE al_poisoned
    BY <1>4, <1>6, <2>1 DEF Register
  <2>2. CASE ~al_poisoned
    BY <1>6, <1>a, <2>2, HandlesAtWork DEF Register
  <2> QED BY <2>1, <2>2
<1>7. ASSUME NEW w \in Workers, Answered(w) PROVE HandlesKept'
  <2>1. CASE al_poisoned
    BY <1>4, <1>7, <2>1 DEF Answered
  <2>2. CASE ~al_poisoned
    BY <1>7, <1>a, <2>2, HandlesAtWork DEF Answered
  <2> QED BY <2>1, <2>2
<1>8. ASSUME NEW w \in Workers, TimedOut(w) PROVE HandlesKept'
  <2>1. CASE al_poisoned
    BY <1>4, <1>8, <2>1 DEF TimedOut
  <2>2. CASE ~al_poisoned
    <3>1. pc' = [pc EXCEPT ![w] = "drain"] \/ pc' = [pc EXCEPT ![w] = "publish"]
      BY <1>8, <2>2 DEF TimedOut
    <3> QED BY <1>8, <1>a, <2>2, <3>1, HandlesAtWork DEF TimedOut
  <2> QED BY <2>1, <2>2
<1>9. ASSUME NEW w \in Workers, Drain(w) PROVE HandlesKept'
  <2>1. pc' = [pc EXCEPT ![w] = "publish"] \/ pc' = [pc EXCEPT ![w] = "signal"]
    BY <1>9 DEF Drain
  <2> QED BY <1>9, <1>a, <2>1, HandlesAtWork DEF Drain
<1>10. ASSUME NEW w \in Workers, SignalIdle(w) PROVE HandlesKept'
  BY <1>10, HandleReturns DEF SignalIdle
<1>11. ASSUME NEW w \in Workers, SleeperWakes(w) PROVE HandlesKept'
  BY <1>11, HandlesAtWork DEF SleeperWakes
<1>12. ASSUME NEW r \in Responders, NEW u \in published, SendMessages(u, r) PROVE HandlesKept'
  BY <1>12, HandlesAtWork DEF SendMessages
<1>13. ASSUME NEW b \in Broadcasts,
              Broadcast(b) \/ \E r \in Responders : BroadcastCollect(b, r)
       PROVE  HandlesKept'
  BY <1>13, HandlesAtWork DEF Broadcast, BroadcastRegister, BroadcastPublish, BroadcastTimeout,
                              BroadcastResolve, BroadcastCollect
<1>14. CASE UNCHANGED vars
  BY <1>14, HandlesAtWork DEF vars
<1> QED BY <1>1, <1>2, <1>3, <1>5, <1>6, <1>7, <1>8, <1>9, <1>10, <1>11, <1>12, <1>13, <1>14
        DEF Next, Execute, Work, Network

-----------------------------------------------------------------------------
(* Commands *)

(***************************************************************************)
(* Commands stay where they are while workers work on theirs.              *)
(***************************************************************************)
LEMMA CommandsAtWork ==
    ASSUME TypeOK, CommandsKept, CommandsDropped, UNCHANGED <<caller, command_queue, cmd>>,
           \A c \in Commands : future'[c] = future[c],
           \A w \in Workers : pc'[w] = pc[w] \/ {pc[w], pc'[w]} \subseteq InFlight
    PROVE  CommandsKept' /\ CommandsDropped'
<1>1. Elements(command_queue) \subseteq Commands
  BY ElementsType DEF TypeOK
<1>2. \A w \in Workers : Holds(w)' = Holds(w)
  BY DEF Holds
<1>3. CommandsKept'
  BY <1>1, <1>2 DEF CommandsKept
<1>4. CommandsDropped'
  BY DEF CommandsDropped, InFlight
<1> QED BY <1>3, <1>4

(***************************************************************************)
(* A worker resolves its command, or dies and cancels it.                  *)
(***************************************************************************)
LEMMA CommandEnds ==
    ASSUME TypeOK, CommandsKept, CommandsDropped, NEW w \in Workers, Holds(w),
           NEW place \in {"drain", "dead"}, pc' = [pc EXCEPT ![w] = place],
           cmd' = IF place = "dead" THEN [cmd EXCEPT ![w] = None] ELSE cmd,
           NEW outcome \in {"Ok", "Err", "Canceled"},
           future' = [future EXCEPT ![cmd[w]] = outcome],
           UNCHANGED <<caller, command_queue>>
    PROVE  CommandsKept' /\ CommandsDropped'
<1>1. Elements(command_queue) \subseteq Commands
  BY ElementsType DEF TypeOK
<1>2. /\ pc'[w] = place
      /\ \A v \in Workers : v # w => pc'[v] = pc[v] /\ cmd'[v] = cmd[v]
      /\ place = "dead" => cmd'[w] = None
      /\ place = "drain" => cmd'[w] = cmd[w]
  BY DEF TypeOK
<1>3. /\ cmd[w] \in Commands
      /\ \A c \in Commands : future'[c] = IF c = cmd[w] THEN outcome ELSE future[c]
  BY DEF TypeOK, CommandsKept
<1>4. /\ ~Holds(w)'
      /\ \A v \in Workers : v # w => Holds(v)' = Holds(v)
  BY <1>2 DEF Holds, InFlight
<1>5. \A v \in Workers : v # w /\ Holds(v) => cmd[v] # cmd[w]
  BY DEF CommandsKept
<1>6. CommandsKept'
  BY <1>1, <1>2, <1>3, <1>4, <1>5 DEF CommandsKept
<1>7. CommandsDropped'
  BY <1>2, <1>3 DEF CommandsDropped
<1> QED BY <1>6, <1>7

(***************************************************************************)
(* A worker that works on nothing is given a command nobody else has.      *)
(***************************************************************************)
LEMMA CommandStarts ==
    ASSUME TypeOK, CommandsKept, CommandsDropped, NEW w \in Workers, ~Holds(w),
           NEW c \in Commands, future[c] = "pending", caller'[c] = "done",
           \A v \in Workers : Holds(v) => cmd[v] # c,
           Unrepeated(command_queue'), c \notin Elements(command_queue'),
           Elements(command_queue') = Elements(command_queue) \ {c},
           \A d \in Commands : d # c => caller'[d] = caller[d],
           pc' = [pc EXCEPT ![w] = "publish"], cmd' = [cmd EXCEPT ![w] = c],
           UNCHANGED future
    PROVE  CommandsKept' /\ CommandsDropped'
<1>1. Elements(command_queue) \subseteq Commands
  BY ElementsType DEF TypeOK
<1>2. /\ pc'[w] = "publish" /\ cmd'[w] = c
      /\ \A v \in Workers : v # w => pc'[v] = pc[v] /\ cmd'[v] = cmd[v]
  BY DEF TypeOK
<1>3. /\ Holds(w)'
      /\ \A v \in Workers : v # w => Holds(v)' = Holds(v)
  BY <1>2 DEF Holds, InFlight
<1>4. CommandsKept'
  BY <1>1, <1>2, <1>3 DEF CommandsKept
<1>5. CommandsDropped'
  BY <1>2 DEF CommandsDropped
<1> QED BY <1>4, <1>5

(***************************************************************************)
(* A step keeps the commands.                                              *)
(***************************************************************************)
LEMMA CommandsStep ==
    ASSUME TypeOK, HandlesKept, CommandsKept, CommandsDropped, [Next]_vars
    PROVE  CommandsKept' /\ CommandsDropped'
<1> DEFINE Goal == CommandsKept' /\ CommandsDropped'
<1> USE DEF pool, work, sleep, bus, bcasts
<1>a. /\ pc \in [Workers -> Places] /\ cmd \in [Workers -> Commands \cup {None}]
      /\ caller \in [Commands -> {"new", "enqueue", "take", "done", "panicked"}]
      /\ future \in [Commands \cup Broadcasts -> {"pending", "Ok", "Err", "Canceled"}]
  BY DEF TypeOK
<1>b. command_queue \in Seq(Commands) /\ Elements(command_queue) \subseteq Commands
  BY ElementsType DEF TypeOK
<1>c. \A w \in Workers : Holds(w) <=> pc[w] \in InFlight
  BY DEF Holds
<1>d. /\ Unrepeated(command_queue)
      /\ \A v \in Workers : Holds(v) => /\ caller[cmd[v]] = "done"
                                       /\ cmd[v] \notin Elements(command_queue)
      /\ \A c \in Elements(command_queue) : caller[c] = "done" /\ future[c] = "pending"
      /\ \A c \in Commands : caller[c] # "done" => future[c] = "pending"
  BY DEF CommandsKept
<1>1. ASSUME NEW c \in Commands, CheckIdle(c) PROVE Goal
  <2>1. \A d \in Commands : (caller'[d] = "done") = (caller[d] = "done")
    BY <1>1, <1>a DEF CheckIdle
  <2>2. \A w \in Workers : Holds(w)' = Holds(w)
    BY <1>1 DEF CheckIdle, Holds
  <2>3. CommandsKept'
    BY <1>1, <1>b, <2>1, <2>2 DEF CheckIdle, CommandsKept
  <2>4. CommandsDropped'
    BY <1>1 DEF CheckIdle, CommandsDropped
  <2> QED BY <2>3, <2>4
<1>2. ASSUME NEW c \in Commands, Enqueue(c) PROVE Goal
  <2>1. c \notin Elements(command_queue)
    BY <1>2, <1>d DEF Enqueue
  <2>2. /\ Elements(command_queue') = Elements(command_queue) \cup {c}
        /\ Unrepeated(command_queue')
    BY <1>2, <1>b, <1>d, <2>1, AppendElements DEF Enqueue
  <2>3. \A d \in Commands : caller'[d] = IF d = c THEN "done" ELSE caller[d]
    BY <1>2, <1>a DEF Enqueue
  <2>4. \A w \in Workers : Holds(w)' = Holds(w) /\ (Holds(w) => cmd[w] # c)
    BY <1>2, <1>d DEF Enqueue, Holds
  <2>5. CommandsKept'
    BY <1>2, <1>b, <2>2, <2>3, <2>4 DEF Enqueue, CommandsKept
  <2>6. CommandsDropped'
    BY <1>2 DEF Enqueue, CommandsDropped
  <2> QED BY <2>5, <2>6
<1>3. ASSUME NEW c \in Commands, TakeWorker(c) PROVE Goal
  <2> DEFINE w == Head(conn_queue)
  <2>1. caller[c] = "take" /\ future[c] = "pending"
    BY <1>3, <1>d DEF TakeWorker
  <2>2. ASSUME UNCHANGED <<command_queue, future, pc, cmd>>,
               caller' = [caller EXCEPT ![c] = "panicked"]
        PROVE  Goal
    <3>1. \A d \in Commands : (caller'[d] = "done") = (caller[d] = "done")
      BY <1>a, <2>1, <2>2
    <3>2. \A v \in Workers : Holds(v)' = Holds(v)
      BY <2>2 DEF Holds
    <3>3. CommandsKept'
      BY <1>b, <2>2, <3>1, <3>2 DEF CommandsKept
    <3>4. CommandsDropped'
      BY <2>2 DEF CommandsDropped
    <3> QED BY <3>3, <3>4
  <2>3. CASE conn_poisoned \/ conn_queue = <<>>
    BY <1>3, <2>2, <2>3 DEF TakeWorker
  <2>4. CASE ~(conn_poisoned \/ conn_queue = <<>>)
    <3>1. w \in Workers /\ pc[w] \in {"idle", "dead"}
      BY <2>4, TailElements DEF TypeOK, HandlesKept
    <3>2. UNCHANGED <<command_queue, future>>
      BY <1>3, <2>4 DEF TakeWorker
    <3>3. CASE pc[w] = "dead"
      <4>1. cmd[w] = None
        BY <3>1, <3>3 DEF CommandsDropped
      <4>2. /\ pc' = [pc EXCEPT ![w] = "dead"] /\ cmd' = [cmd EXCEPT ![w] = None]
            /\ caller' = [caller EXCEPT ![c] = "panicked"]
        BY <1>3, <2>4, <3>3 DEF TakeWorker
      <4>3. pc' = pc /\ cmd' = cmd
        BY <1>a, <3>1, <3>3, <4>1, <4>2
      <4> QED BY <2>2, <3>2, <4>2, <4>3
    <3>4. CASE pc[w] # "dead"
      <4>1. /\ pc' = [pc EXCEPT ![w] = "publish"] /\ cmd' = [cmd EXCEPT ![w] = c]
            /\ caller' = [caller EXCEPT ![c] = "done"]
        BY <1>3, <2>4, <3>4 DEF TakeWorker
      <4>2. ~Holds(w)
        BY <3>1, <3>4 DEF Holds, InFlight
      <4>3. c \notin Elements(command_queue) /\ \A v \in Workers : Holds(v) => cmd[v] # c
        BY <1>d, <2>1
      <4>4. caller'[c] = "done" /\ \A d \in Commands : d # c => caller'[d] = caller[d]
        BY <1>a, <4>1
      <4> HIDE DEF w
      <4> QED BY <1>d, <2>1, <3>1, <3>2, <4>1, <4>2, <4>3, <4>4, CommandStarts
    <3> QED BY <3>3, <3>4
  <2> QED BY <2>3, <2>4
<1>4. ASSUME NEW w \in Workers, Holds(w), Die(w) PROVE Goal
  BY <1>4, CommandEnds DEF Die
<1>5. ASSUME NEW w \in Workers, Publish(w) \/ Arm(w) \/ Select(w) PROVE Goal
  BY <1>5, <1>a, CommandsAtWork DEF Publish, Arm, Select, InFlight
<1>6. ASSUME NEW w \in Workers, Register(w) PROVE Goal
  <2>1. CASE al_poisoned
    BY <1>4, <1>6, <1>c, <2>1 DEF Register, InFlight
  <2>2. CASE ~al_poisoned
    BY <1>6, <1>a, <2>2, CommandsAtWork DEF Register, InFlight
  <2> QED BY <2>1, <2>2
<1>7. ASSUME NEW w \in Workers, Answered(w) PROVE Goal
  <2>0. Holds(w)
    BY <1>7, <1>c DEF Answered, InFlight
  <2>1. CASE al_poisoned
    BY <1>4, <1>7, <2>0, <2>1 DEF Answered
  <2>2. CASE ~al_poisoned
    BY <1>7, <2>0, <2>2, CommandEnds DEF Answered
  <2> QED BY <2>1, <2>2
<1>8. ASSUME NEW w \in Workers, TimedOut(w) PROVE Goal
  <2>0. Holds(w)
    BY <1>8, <1>c DEF TimedOut, InFlight
  <2>1. CASE al_poisoned
    BY <1>4, <1>8, <2>0, <2>1 DEF TimedOut
  <2>2. CASE ~al_poisoned /\ OutOfRetries(w)
    BY <1>8, <2>0, <2>2, CommandEnds DEF TimedOut
  <2>3. CASE ~al_poisoned /\ ~OutOfRetries(w)
    <3>1. pc' = [pc EXCEPT ![w] = "publish"] /\ UNCHANGED <<caller, command_queue, cmd, future>>
      BY <1>8, <2>3 DEF TimedOut
    <3> QED BY <1>8, <1>a, <3>1, CommandsAtWork DEF TimedOut, InFlight
  <2> QED BY <2>1, <2>2, <2>3
<1>9. ASSUME NEW w \in Workers, Drain(w) PROVE Goal
  <2>0. ~Holds(w)
    BY <1>9, <1>c DEF Drain, InFlight
  <2>1. CASE command_queue # <<>>
    <3> DEFINE c == Head(command_queue)
    <3>1. /\ c \in Commands /\ c \in Elements(command_queue)
          /\ Unrepeated(Tail(command_queue)) /\ c \notin Elements(Tail(command_queue))
          /\ Elements(command_queue) = Elements(Tail(command_queue)) \cup {c}
      BY <1>b, <1>d, <2>1, TailElements
    <3>2. /\ pc' = [pc EXCEPT ![w] = "publish"] /\ cmd' = [cmd EXCEPT ![w] = c]
          /\ command_queue' = Tail(command_queue) /\ UNCHANGED <<caller, future>>
      BY <1>9, <2>1 DEF Drain
    <3> HIDE DEF c
    <3>3. /\ caller[c] = "done" /\ future[c] = "pending"
          /\ \A v \in Workers : Holds(v) => cmd[v] # c
      BY <1>d, <3>1
    <3> QED BY <2>0, <3>1, <3>2, <3>3, CommandStarts
  <2>2. CASE command_queue = <<>>
    <3>1. /\ pc' = [pc EXCEPT ![w] = "signal"] /\ cmd' = [cmd EXCEPT ![w] = None]
          /\ UNCHANGED <<caller, future, command_queue>>
      BY <1>9, <2>2 DEF Drain
    <3>a. /\ pc'[w] = "signal"
          /\ \A v \in Workers : v # w => pc'[v] = pc[v] /\ cmd'[v] = cmd[v]
      BY <1>a, <3>1
    <3>b. ~Holds(w)'
      BY <3>a DEF Holds, InFlight
    <3>2. \A v \in Workers : /\ Holds(v)' = Holds(v)
                             /\ Holds(v) => cmd'[v] = cmd[v]
      BY <2>0, <3>a, <3>b DEF Holds
    <3>3. CommandsKept'
      BY <1>b, <3>1, <3>2 DEF CommandsKept
    <3>4. CommandsDropped'
      BY <1>a, <3>1 DEF CommandsDropped
    <3> QED BY <3>3, <3>4
  <2> QED BY <2>1, <2>2
<1>10. ASSUME NEW w \in Workers, SignalIdle(w) PROVE Goal
  <2>1. pc[w] = "signal" /\ pc' = [pc EXCEPT ![w] = "idle"]
        /\ UNCHANGED <<caller, future, command_queue, cmd>>
    BY <1>10 DEF SignalIdle
  <2>a. pc'[w] = "idle" /\ \A v \in Workers : v # w => pc'[v] = pc[v]
    BY <1>a, <2>1
  <2>b. ~Holds(w) /\ ~Holds(w)'
    BY <2>1, <2>a DEF Holds, InFlight
  <2>2. \A v \in Workers : Holds(v)' = Holds(v)
    BY <2>a, <2>b DEF Holds
  <2>3. CommandsKept'
    BY <1>b, <2>1, <2>2 DEF CommandsKept
  <2>4. CommandsDropped'
    BY <1>a, <2>1 DEF CommandsDropped
  <2> QED BY <2>3, <2>4
<1>11. ASSUME NEW w \in Workers, SleeperWakes(w) \/ ReturnWorker(w) PROVE Goal
  BY <1>11, CommandsAtWork DEF SleeperWakes, ReturnWorker
<1>12. ASSUME NEW r \in Responders, NEW u \in published, SendMessages(u, r) PROVE Goal
  BY <1>12, CommandsAtWork DEF SendMessages
<1>13. ASSUME NEW b \in Broadcasts,
              Broadcast(b) \/ \E r \in Responders : BroadcastCollect(b, r)
       PROVE  Goal
  <2>1. /\ UNCHANGED <<caller, command_queue, cmd, pc>>
        /\ future' = future \/ \E outcome : future' = [future EXCEPT ![b] = outcome]
    BY <1>13 DEF Broadcast, BroadcastRegister, BroadcastPublish, BroadcastTimeout,
                 BroadcastResolve, BroadcastCollect
  <2>2. b \notin Commands
    BY CommandAssumption
  <2>3. \A c \in Commands : future'[c] = future[c]
    BY <1>a, <2>1, <2>2
  <2> QED BY <2>1, <2>3, CommandsAtWork
<1>14. CASE UNCHANGED vars
  BY <1>14, CommandsAtWork DEF vars
<1> QED BY <1>1, <1>2, <1>3, <1>5, <1>6, <1>7, <1>8, <1>9, <1>10, <1>11, <1>12, <1>13, <1>14
        DEF Next, Execute, Work, Network

-----------------------------------------------------------------------------
(* Interest and timeouts *)

\* Worker w, broadcast b wait for a response.
Waits(w) == pc[w] \in Registered
Listens(b) == bcast[b] \in {"registered", "published"}

(***************************************************************************)
(* Who has the same uuid is the same worker, and no broadcast has it.      *)
(***************************************************************************)
LEMMA OwnUuid ==
    ASSUME CommandsKept
    PROVE  /\ \A v, w \in Workers : Holds(v) /\ Holds(w) /\ Uuid(v) = Uuid(w) => v = w
           /\ \A w \in Workers, b \in Broadcasts : Holds(w) => Uuid(w) # BUuid(b)
           /\ \A a, b \in Broadcasts : BUuid(a) = BUuid(b) => a = b
           /\ \A w \in Workers : Waits(w) => Holds(w)
<1>1. \A v, w \in Workers : Uuid(v) = Uuid(w) => cmd[v] = cmd[w]
  BY DEF Uuid
<1>2. \A w \in Workers, b \in Broadcasts : Uuid(w) = BUuid(b) => cmd[w] = b
  BY DEF Uuid, BUuid
<1>3. \A w \in Workers : Holds(w) => cmd[w] \in Commands
  BY DEF CommandsKept
<1>4. \A w \in Workers, b \in Broadcasts : Holds(w) => Uuid(w) # BUuid(b)
  BY <1>2, <1>3, CommandAssumption
<1>5. \A v, w \in Workers : Holds(v) /\ Holds(w) /\ Uuid(v) = Uuid(w) => v = w
  BY <1>1 DEF CommandsKept
<1>6. \A a, b \in Broadcasts : BUuid(a) = BUuid(b) => a = b
  BY DEF BUuid
<1> QED BY <1>4, <1>5, <1>6 DEF Waits, Holds, Registered, InFlight

(***************************************************************************)
(* The same workers and broadcasts wait for the same as before.            *)
(***************************************************************************)
LEMMA InterestStays ==
    ASSUME InterestTracked, al_poisoned' \/ UNCHANGED <<alerts, al_poisoned>>,
           \A w \in Workers : /\ Waits(w)' = Waits(w)
                              /\ Waits(w) => Uuid(w)' = Uuid(w),
           \A b \in Broadcasts : Listens(b)' = Listens(b)
    PROVE  InterestTracked'
<1> SUFFICES ASSUME ~al_poisoned' PROVE InterestTracked'
  BY DEF InterestTracked
<1>1. {Uuid(w) : w \in {v \in Workers : Waits(v)}}'
        = {Uuid(w) : w \in {v \in Workers : Waits(v)}}
  OBVIOUS
<1>2. {BUuid(b) : b \in {a \in Broadcasts : Listens(a)}}'
        = {BUuid(b) : b \in {a \in Broadcasts : Listens(a)}}
  BY DEF BUuid
<1> QED BY <1>1, <1>2 DEF InterestTracked, Waits, Listens

(***************************************************************************)
(* A worker registers, or gives its interest up.                           *)
(***************************************************************************)
LEMMA WorkerInterest ==
    ASSUME CommandsKept, InterestTracked, UNCHANGED <<al_poisoned, bcast>>, ~al_poisoned,
           NEW w \in Workers,
           \A v \in Workers : v # w => Waits(v)' = Waits(v) /\ Uuid(v)' = Uuid(v),
           \/ ~Waits(w) /\ Waits(w)' /\ Uuid(w)' = Uuid(w) /\ alerts' = alerts \cup {Uuid(w)}
           \/ Waits(w) /\ ~Waits(w)' /\ alerts' = alerts \ {Uuid(w)}
    PROVE  InterestTracked'
<1> DEFINE mine == {Uuid(v) : v \in {x \in Workers : Waits(x)}}
           theirs == {BUuid(b) : b \in {a \in Broadcasts : Listens(a)}}
<1>1. alerts = mine \cup theirs
  BY DEF InterestTracked, Waits, Listens
<1>2. theirs' = theirs
  BY DEF BUuid, Listens
<1>3. CASE ~Waits(w) /\ Waits(w)' /\ Uuid(w)' = Uuid(w) /\ alerts' = alerts \cup {Uuid(w)}
  <2>1. mine' = mine \cup {Uuid(w)}
    BY <1>3
  <2> QED BY <1>1, <1>2, <1>3, <2>1 DEF InterestTracked, Waits, Listens
<1>4. CASE Waits(w) /\ ~Waits(w)' /\ alerts' = alerts \ {Uuid(w)}
  <2>1. \A v \in Workers : v # w /\ Waits(v) => Uuid(v) # Uuid(w)
    BY <1>4, OwnUuid
  <2>2. Uuid(w) \notin theirs
    BY <1>4, OwnUuid
  <2>3. mine' = mine \ {Uuid(w)}
    BY <1>4, <2>1
  <2> QED BY <1>1, <1>2, <1>4, <2>2, <2>3 DEF InterestTracked, Waits, Listens
<1> QED BY <1>3, <1>4

(***************************************************************************)
(* A broadcast registers, or gives its interest up.                        *)
(***************************************************************************)
LEMMA BroadcastInterest ==
    ASSUME CommandsKept, InterestTracked, UNCHANGED <<al_poisoned, pc, cmd, attempts>>,
           ~al_poisoned, NEW b \in Broadcasts,
           \A a \in Broadcasts : a # b => Listens(a)' = Listens(a),
           \/ ~Listens(b) /\ Listens(b)' /\ alerts' = alerts \cup {BUuid(b)}
           \/ Listens(b) /\ ~Listens(b)' /\ alerts' = alerts \ {BUuid(b)}
    PROVE  InterestTracked'
<1> DEFINE mine == {Uuid(v) : v \in {x \in Workers : Waits(x)}}
           theirs == {BUuid(c) : c \in {a \in Broadcasts : Listens(a)}}
<1>1. alerts = mine \cup theirs
  BY DEF InterestTracked, Waits, Listens
<1>2. mine' = mine
  BY DEF Uuid, Waits
<1>3. CASE ~Listens(b) /\ Listens(b)' /\ alerts' = alerts \cup {BUuid(b)}
  <2>1. theirs' = theirs \cup {BUuid(b)}
    BY <1>3 DEF BUuid
  <2> QED BY <1>1, <1>2, <1>3, <2>1 DEF InterestTracked, Waits, Listens
<1>4. CASE Listens(b) /\ ~Listens(b)' /\ alerts' = alerts \ {BUuid(b)}
  <2>1. BUuid(b) \notin mine
    BY OwnUuid
  <2>2. theirs' = theirs \ {BUuid(b)}
    BY <1>4 DEF BUuid
  <2> QED BY <1>1, <1>2, <1>4, <2>1, <2>2 DEF InterestTracked, Waits, Listens
<1> QED BY <1>3, <1>4

(***************************************************************************)
(* A step keeps the AlertList in line with who waits.                      *)
(***************************************************************************)
LEMMA InterestStep ==
    ASSUME TypeOK, HandlesKept, CommandsKept, CommandsDropped, InterestTracked, [Next]_vars
    PROVE  InterestTracked'
<1> USE DEF pool, work, sleep, bus, bcasts
<1>a. /\ pc \in [Workers -> Places] /\ cmd \in [Workers -> Commands \cup {None}]
      /\ attempts \in [Workers -> Attempts]
      /\ bcast \in [Broadcasts -> {"new", "registered", "published", "closing", "done", "panicked"}]
  BY DEF TypeOK
<1>b. \A w \in Workers : Waits(w) <=> pc[w] \in {"wait", "answered", "timed out"}
  BY DEF Waits, Registered
<1>c. \A w \in Workers : Waits(w)' <=> pc'[w] \in {"wait", "answered", "timed out"}
  BY DEF Waits, Registered
<1>d. ASSUME UNCHANGED <<pc, cmd, attempts>>
      PROVE  \A w \in Workers : Waits(w)' = Waits(w) /\ Uuid(w)' = Uuid(w)
  BY <1>d DEF Waits, Uuid
<1>e. ASSUME UNCHANGED bcast PROVE \A b \in Broadcasts : Listens(b)' = Listens(b)
  BY <1>e DEF Listens
\* a worker's step that neither registers nor gives up interest
<1>f. ASSUME NEW w \in Workers, UNCHANGED <<bcast, alerts, al_poisoned>>,
             \A v \in Workers : v # w => /\ pc'[v] = pc[v] /\ cmd'[v] = cmd[v]
                                         /\ attempts'[v] = attempts[v],
             \/ ~Waits(w) /\ ~Waits(w)'
             \/ Waits(w) /\ Waits(w)' /\ cmd'[w] = cmd[w] /\ attempts'[w] = attempts[w]
      PROVE  InterestTracked'
  <2>1. \A v \in Workers : Waits(v)' = Waits(v) /\ (Waits(v) => Uuid(v)' = Uuid(v))
    BY <1>f DEF Waits, Uuid
  <2> QED BY <1>e, <1>f, <2>1, InterestStays
<1>1. ASSUME NEW c \in Commands, CheckIdle(c) \/ Enqueue(c) PROVE InterestTracked'
  BY <1>1, <1>d, <1>e, InterestStays DEF CheckIdle, Enqueue
<1>2. ASSUME NEW c \in Commands, TakeWorker(c) PROVE InterestTracked'
  <2>1. CASE conn_poisoned \/ conn_queue = <<>>
    BY <1>2, <2>1, <1>d, <1>e, InterestStays DEF TakeWorker
  <2>2. CASE ~(conn_poisoned \/ conn_queue = <<>>)
    <3> DEFINE w == Head(conn_queue)
    <3>1. w \in Workers /\ pc[w] \in {"idle", "dead"}
      BY <2>2, TailElements DEF TypeOK, HandlesKept
    <3>2. /\ pc' = [pc EXCEPT ![w] = IF pc[w] = "dead" THEN "dead" ELSE "publish"]
          /\ cmd' = [cmd EXCEPT ![w] = IF pc[w] = "dead" THEN None ELSE c]
          /\ attempts' = [attempts EXCEPT ![w] = 0]
          /\ UNCHANGED <<bcast, alerts, al_poisoned>>
      BY <1>2, <2>2 DEF TakeWorker
    <3> HIDE DEF w
    <3>3. /\ pc'[w] \in {"dead", "publish"}
          /\ \A v \in Workers : v # w => /\ pc'[v] = pc[v] /\ cmd'[v] = cmd[v]
                                         /\ attempts'[v] = attempts[v]
      BY <1>a, <3>1, <3>2
    <3> QED BY <1>b, <1>c, <1>f, <3>1, <3>2, <3>3
  <2> QED BY <2>1, <2>2
<1>3. ASSUME NEW w \in Workers, al_poisoned, Die(w) PROVE InterestTracked'
  BY <1>3 DEF Die, InterestTracked
<1>4. ASSUME NEW w \in Workers, Publish(w) \/ Arm(w) \/ SignalIdle(w) PROVE InterestTracked'
  <2>1. /\ pc[w] \in {"publish", "arm", "signal"} /\ pc'[w] \in {"arm", "register", "idle"}
        /\ UNCHANGED <<bcast, alerts, al_poisoned, cmd, attempts>>
        /\ \A v \in Workers : v # w => pc'[v] = pc[v]
    BY <1>4, <1>a DEF Publish, Arm, SignalIdle
  <2> QED BY <1>b, <1>c, <1>f, <2>1
<1>5. ASSUME NEW w \in Workers, Select(w) PROVE InterestTracked'
  <2>1. /\ pc[w] = "wait" /\ pc'[w] \in {"answered", "timed out"}
        /\ UNCHANGED <<bcast, alerts, al_poisoned, cmd, attempts>>
        /\ \A v \in Workers : v # w => pc'[v] = pc[v]
    BY <1>5, <1>a DEF Select
  <2> QED BY <1>b, <1>c, <1>f, <2>1
<1>6. ASSUME NEW w \in Workers, Register(w) PROVE InterestTracked'
  <2>1. CASE al_poisoned
    BY <1>3, <1>6, <2>1 DEF Register
  <2>2. CASE ~al_poisoned
    <3>1. /\ pc[w] = "register" /\ pc'[w] = "wait" /\ alerts' = alerts \cup {Uuid(w)}
          /\ UNCHANGED <<bcast, al_poisoned, cmd, attempts>>
          /\ \A v \in Workers : v # w => pc'[v] = pc[v]
      BY <1>6, <1>a, <2>2 DEF Register
    <3>2. \A v \in Workers : Uuid(v)' = Uuid(v) /\ (v # w => Waits(v)' = Waits(v))
      BY <3>1 DEF Uuid, Waits
    <3> QED BY <1>b, <1>c, <2>2, <3>1, <3>2, WorkerInterest
  <2> QED BY <2>1, <2>2
\* what answered and timed-out workers have in common
<1>7. ASSUME NEW w \in Workers, ~al_poisoned, Deregister(w), Waits(w),
             UNCHANGED <<bcast, al_poisoned, cmd>>, pc'[w] \in {"drain", "publish"},
             \A v \in Workers : v # w => pc'[v] = pc[v] /\ attempts'[v] = attempts[v]
      PROVE  InterestTracked'
  <2>1. \A v \in Workers : v # w => Uuid(v)' = Uuid(v) /\ Waits(v)' = Waits(v)
    BY <1>7 DEF Uuid, Waits
  <2>2. ~Waits(w)' /\ alerts' = alerts \ {Uuid(w)}
    BY <1>7, <1>c DEF Deregister
  <2> QED BY <1>7, <2>1, <2>2, WorkerInterest
<1>8. ASSUME NEW w \in Workers, Answered(w) PROVE InterestTracked'
  <2>1. CASE al_poisoned
    BY <1>3, <1>8, <2>1 DEF Answered
  <2>2. CASE ~al_poisoned
    <3>1. /\ pc[w] = "answered" /\ pc'[w] = "drain" /\ Deregister(w)
          /\ UNCHANGED <<bcast, al_poisoned, cmd, attempts>>
          /\ \A v \in Workers : v # w => pc'[v] = pc[v]
      BY <1>8, <1>a, <2>2 DEF Answered
    <3> QED BY <1>b, <1>7, <2>2, <3>1
  <2> QED BY <2>1, <2>2
<1>9. ASSUME NEW w \in Workers, TimedOut(w) PROVE InterestTracked'
  <2>1. CASE al_poisoned
    BY <1>3, <1>9, <2>1 DEF TimedOut
  <2>2. CASE ~al_poisoned
    <3>1. /\ pc[w] = "timed out" /\ pc'[w] \in {"drain", "publish"} /\ Deregister(w)
          /\ UNCHANGED <<bcast, al_poisoned, cmd>>
          /\ \A v \in Workers : v # w => pc'[v] = pc[v] /\ attempts'[v] = attempts[v]
      BY <1>9, <1>a, <2>2 DEF TimedOut
    <3> QED BY <1>b, <1>7, <2>2, <3>1
  <2> QED BY <2>1, <2>2
<1>10. ASSUME NEW w \in Workers, Drain(w) PROVE InterestTracked'
  <2>1. /\ pc[w] = "drain" /\ pc'[w] \in {"publish", "signal"}
        /\ UNCHANGED <<bcast, alerts, al_poisoned>>
        /\ \A v \in Workers : v # w => /\ pc'[v] = pc[v] /\ cmd'[v] = cmd[v]
                                       /\ attempts'[v] = attempts[v]
    BY <1>10, <1>a DEF Drain
  <2> QED BY <1>b, <1>c, <1>f, <2>1
<1>11. ASSUME NEW w \in Workers, SleeperWakes(w) \/ ReturnWorker(w) PROVE InterestTracked'
  BY <1>11, <1>d, <1>e, InterestStays DEF SleeperWakes, ReturnWorker
<1>12. ASSUME NEW r \in Responders, NEW u \in published, SendMessages(u, r)
       PROVE  InterestTracked'
  <2>1. /\ UNCHANGED <<pc, cmd, attempts, bcast, alerts>>
        /\ ~al_poisoned /\ al_poisoned' \in BOOLEAN
    BY <1>12 DEF SendMessages
  <2>2. al_poisoned' \/ al_poisoned' = al_poisoned
    BY <2>1 DEF TypeOK
  <2> QED BY <1>d, <1>e, <2>1, <2>2, InterestStays
<1>13. ASSUME NEW b \in Broadcasts, BroadcastRegister(b) \/ BroadcastTimeout(b)
       PROVE  InterestTracked'
  <2>1. CASE al_poisoned
    BY <1>13, <2>1 DEF BroadcastRegister, BroadcastTimeout, InterestTracked
  <2>2. CASE ~al_poisoned
    <3>1. /\ UNCHANGED <<al_poisoned, pc, cmd, attempts>>
          /\ \A a \in Broadcasts : a # b => bcast'[a] = bcast[a]
          /\ \/ bcast[b] = "new" /\ bcast'[b] = "registered" /\ alerts' = alerts \cup {BUuid(b)}
             \/ bcast[b] = "published" /\ bcast'[b] = "closing" /\ alerts' = alerts \ {BUuid(b)}
      BY <1>13, <1>a, <2>2 DEF BroadcastRegister, BroadcastTimeout
    <3> QED BY <2>2, <3>1, BroadcastInterest DEF Listens
  <2> QED BY <2>1, <2>2
<1>14. ASSUME NEW b \in Broadcasts,
              \/ BroadcastPublish(b) \/ BroadcastResolve(b)
              \/ \E r \in Responders : BroadcastCollect(b, r)
       PROVE  InterestTracked'
  <2>1. UNCHANGED <<alerts, al_poisoned, pc, cmd, attempts>>
    BY <1>14 DEF BroadcastPublish, BroadcastResolve, BroadcastCollect
  <2>2. \A a \in Broadcasts : Listens(a)' = Listens(a)
    BY <1>14, <1>a DEF BroadcastPublish, BroadcastResolve, BroadcastCollect, Listens
  <2> QED BY <1>d, <2>1, <2>2, InterestStays
<1>15. CASE UNCHANGED vars
  BY <1>15, <1>d, <1>e, InterestStays DEF vars
<1> QED BY <1>1, <1>2, <1>4, <1>5, <1>6, <1>8, <1>9, <1>10, <1>11, <1>12, <1>13, <1>14, <1>15
        DEF Next, Execute, Work, Network, Broadcast

(***************************************************************************)
(* A step keeps a timeout behind every worker that is about to wait.       *)
(***************************************************************************)
LEMMA TimeoutStep ==
    ASSUME TypeOK, HandlesKept, TimeoutArmed, [Next]_vars
    PROVE  TimeoutArmed'
<1> USE DEF pool, work, sleep, bus, bcasts
<1>a. /\ pc \in [Workers -> Places] /\ cmd \in [Workers -> Commands \cup {None}]
      /\ attempts \in [Workers -> Attempts]
      /\ parked \in [Workers -> UuidSet \cup {None}]
      /\ awake \in [Workers -> UuidSet \cup {None}]
  BY DEF TypeOK
<1> DEFINE Armed(w) == pc[w] \in {"register", "wait"} => parked[w] = Uuid(w) \/ awake[w] = Uuid(w)
<1>b. \A w \in Workers : Armed(w)
  BY DEF TimeoutArmed
<1>c. ASSUME NEW w \in Workers,
             \A v \in Workers : v # w => /\ pc'[v] = pc[v] /\ cmd'[v] = cmd[v]
                                         /\ attempts'[v] = attempts[v]
                                         /\ parked'[v] = parked[v] /\ awake'[v] = awake[v],
             Armed(w)'
      PROVE  TimeoutArmed'
  BY <1>b, <1>c DEF TimeoutArmed, Uuid
<1>d. ASSUME UNCHANGED <<pc, cmd, attempts, sleep>> PROVE TimeoutArmed'
  BY <1>d DEF TimeoutArmed, Uuid
<1>1. ASSUME NEW c \in Commands, TakeWorker(c) PROVE TimeoutArmed'
  <2>1. CASE conn_poisoned \/ conn_queue = <<>>
    BY <1>1, <1>d, <2>1 DEF TakeWorker
  <2>2. CASE ~(conn_poisoned \/ conn_queue = <<>>)
    <3> DEFINE w == Head(conn_queue)
    <3>1. w \in Workers
      BY <2>2, TailElements DEF TypeOK
    <3>2. /\ pc' = [pc EXCEPT ![w] = IF pc[w] = "dead" THEN "dead" ELSE "publish"]
          /\ cmd' = [cmd EXCEPT ![w] = IF pc[w] = "dead" THEN None ELSE c]
          /\ attempts' = [attempts EXCEPT ![w] = 0]
          /\ UNCHANGED <<parked, awake>>
      BY <1>1, <2>2 DEF TakeWorker
    <3> HIDE DEF w
    <3>3. /\ pc'[w] \in {"dead", "publish"}
          /\ \A v \in Workers : v # w => /\ pc'[v] = pc[v] /\ cmd'[v] = cmd[v]
                                         /\ attempts'[v] = attempts[v]
      BY <1>a, <3>1, <3>2
    <3> QED BY <1>c, <3>1, <3>2, <3>3
  <2> QED BY <2>1, <2>2
<1>2. ASSUME NEW w \in Workers, Publish(w) \/ SignalIdle(w) \/ Drain(w) \/ Die(w)
      PROVE  TimeoutArmed'
  <2>1. /\ pc'[w] \in {"arm", "idle", "publish", "signal", "dead"}
        /\ UNCHANGED <<parked, awake>>
        /\ \A v \in Workers : v # w => /\ pc'[v] = pc[v] /\ cmd'[v] = cmd[v]
                                       /\ attempts'[v] = attempts[v]
    BY <1>2, <1>a DEF Publish, SignalIdle, Drain, Die
  <2> QED BY <1>c, <2>1
<1>3. ASSUME NEW w \in Workers, Arm(w) PROVE TimeoutArmed'
  <2>1. /\ UNCHANGED <<cmd, attempts, awake>> /\ parked'[w] = Uuid(w)
        /\ \A v \in Workers : v # w => pc'[v] = pc[v] /\ parked'[v] = parked[v]
    BY <1>3, <1>a DEF Arm
  <2>2. parked'[w] = Uuid(w)'
    BY <2>1 DEF Uuid
  <2> QED BY <1>c, <2>1, <2>2
<1>4. ASSUME NEW w \in Workers, ~al_poisoned, Register(w) PROVE TimeoutArmed'
  <2>1. /\ UNCHANGED <<cmd, attempts, parked, awake>> /\ pc[w] = "register"
        /\ \A v \in Workers : v # w => pc'[v] = pc[v]
    BY <1>4, <1>a DEF Register
  <2>2. Armed(w)'
    BY <1>b, <2>1 DEF Uuid
  <2> QED BY <1>c, <2>1, <2>2
<1>5. ASSUME NEW w \in Workers, Select(w) PROVE TimeoutArmed'
  <2>1. /\ UNCHANGED <<cmd, attempts, parked, awake>> /\ pc'[w] \in {"answered", "timed out"}
        /\ \A v \in Workers : v # w => pc'[v] = pc[v]
    BY <1>5, <1>a DEF Select
  <2> QED BY <1>c, <2>1
<1>6. ASSUME NEW w \in Workers, ~al_poisoned, Answered(w) \/ TimedOut(w) PROVE TimeoutArmed'
  <2>1. /\ UNCHANGED <<cmd, parked>> /\ pc'[w] \in {"drain", "publish"}
        /\ \A v \in Workers : v # w => /\ pc'[v] = pc[v] /\ attempts'[v] = attempts[v]
                                       /\ awake'[v] = awake[v]
    BY ZenonT(60), <1>6, <1>a DEF Answered, TimedOut, DropReceivers
  <2> QED BY <1>c, <2>1
<1>7. ASSUME NEW w \in Workers, SleeperWakes(w) PROVE TimeoutArmed'
  <2>1. /\ UNCHANGED <<pc, cmd, attempts>>
        /\ \A v \in Workers : v # w => parked'[v] = parked[v] /\ awake'[v] = awake[v]
    BY <1>7, <1>a DEF SleeperWakes
  <2>2. ASSUME pc[w] \in {"register", "wait"} PROVE awake'[w] = Uuid(w)
    <3>1. CASE parked[w] = Uuid(w)
      BY <1>7, <1>a, <2>2, <3>1 DEF SleeperWakes
    <3>2. CASE parked[w] # Uuid(w)
      <4>1. awake[w] = Uuid(w)
        BY <1>b, <2>2, <3>2
      <4>2. awake'[w] = awake[w]
        BY <1>7, <1>a, <3>2 DEF SleeperWakes
      <4> QED BY <4>1, <4>2
    <3> QED BY <3>1, <3>2
  <2>3. Armed(w)'
    BY <2>1, <2>2 DEF Uuid
  <2> QED BY <1>c, <2>1, <2>3
<1>8. ASSUME NEW w \in Workers, Register(w) \/ Answered(w) \/ TimedOut(w) PROVE TimeoutArmed'
  <2>1. al_poisoned => Die(w)
    BY <1>8 DEF Register, Answered, TimedOut
  <2> QED BY <1>2, <1>4, <1>6, <1>8, <2>1
<1>9. ASSUME NEW c \in Commands, CheckIdle(c) \/ Enqueue(c) PROVE TimeoutArmed'
  BY <1>9, <1>d DEF CheckIdle, Enqueue
<1>10. ASSUME NEW w \in Workers, ReturnWorker(w) PROVE TimeoutArmed'
  BY <1>10, <1>d DEF ReturnWorker
<1>11. ASSUME NEW r \in Responders, NEW u \in published, SendMessages(u, r) PROVE TimeoutArmed'
  BY <1>11, <1>d DEF SendMessages
<1>12. ASSUME NEW b \in Broadcasts,
              Broadcast(b) \/ \E r \in Responders : BroadcastCollect(b, r)
       PROVE  TimeoutArmed'
  BY <1>12, <1>d DEF Broadcast, BroadcastRegister, BroadcastPublish, BroadcastTimeout,
                     BroadcastResolve, BroadcastCollect
<1>13. CASE UNCHANGED vars
  BY <1>13, <1>d DEF vars
<1> QED BY <1>1, <1>2, <1>3, <1>5, <1>7, <1>8, <1>9, <1>10, <1>11, <1>12, <1>13
        DEF Next, Execute, Work, Network

-----------------------------------------------------------------------------
(* Outcomes *)

\* What a worker owes to the network at its place.
Earned(w) ==
    /\ Holds(w) => SentUpTo(cmd[w], attempts[w])
    /\ pc[w] \in {"arm", "register"} \cup Registered => Uuid(w) \in published
    /\ inbox[w] => pc[w] \in Registered \cup {"dead"}
    /\ pc[w] \in Registered /\ inbox[w] => \E r \in Responders : <<Uuid(w), r>> \in answers
    /\ pc[w] = "answered" => inbox[w]

(***************************************************************************)
(* What was published and answered stays published and answered, and only  *)
(* one worker moves.                                                       *)
(***************************************************************************)
LEMMA EarnedByOthers ==
    ASSUME EarnedSoFar, published \subseteq published', answers \subseteq answers',
           NEW w \in Workers,
           \A v \in Workers : v # w => /\ pc'[v] = pc[v] /\ cmd'[v] = cmd[v]
                                       /\ attempts'[v] = attempts[v] /\ inbox'[v] = inbox[v],
           Earned(w)', OutcomesEarned'
    PROVE  EarnedSoFar'
<1>1. ASSUME NEW v \in Workers, v # w PROVE Earned(v)'
  BY <1>1 DEF EarnedSoFar, Earned, SentUpTo, Uuid, Holds
<1> QED BY <1>1 DEF EarnedSoFar, Earned

(***************************************************************************)
(* No command gets an outcome, or the one that does deserves it.           *)
(***************************************************************************)
LEMMA OutcomesStay ==
    ASSUME OutcomesEarned, published \subseteq published', answers \subseteq answers',
           NEW c, \A d \in Commands : d # c => future'[d] \in {future[d], "Canceled"},
           c \in Commands /\ future'[c] \notin {future[c], "Canceled"} =>
              \/ future'[c] = "Err" /\ Attempts \subseteq Sent(c)
              \/ future'[c] = "Ok" /\ \E k \in Attempts, r \in Responders :
                                           <<<<c, k>>, r>> \in answers
    PROVE  OutcomesEarned'
<1>1. \A d : Sent(d) \subseteq Sent(d)' /\ Sent(d)' \subseteq Attempts
  BY DEF Sent, Attempts
<1>2. ASSUME NEW d \in Commands, future'[d] = "Err" PROVE Sent(d)' = Attempts
  <2>1. Attempts \subseteq Sent(d)
    BY <1>2 DEF OutcomesEarned
  <2> QED BY <1>1, <2>1
<1>3. ASSUME NEW d \in Commands, future'[d] = "Ok"
      PROVE  \E k \in Attempts, r \in Responders : <<<<d, k>>, r>> \in answers'
  <2>1. \E k \in Attempts, r \in Responders : <<<<d, k>>, r>> \in answers
    BY <1>3 DEF OutcomesEarned
  <2> QED BY <2>1
<1>4. Attempts' = Attempts
  BY DEF Attempts
<1> QED BY <1>2, <1>3, <1>4 DEF OutcomesEarned

(***************************************************************************)
(* A response to a registered uuid goes to the worker that registered it   *)
(* and to no other.                                                        *)
(***************************************************************************)
LEMMA ListenerWaits ==
    ASSUME TypeOK, CommandsKept, CommandsDropped, InterestTracked, ~al_poisoned,
           NEW w \in Workers, Uuid(w) \in alerts
    PROVE  Waits(w)
<1>1. cmd[w] \in Commands \cup {None} /\ pc[w] \in Places
  BY DEF TypeOK
<1>2. ASSUME NEW b \in Broadcasts, Uuid(w) = BUuid(b) PROVE FALSE
  BY <1>1, <1>2, CommandAssumption DEF Uuid, BUuid
<1>3. PICK v \in Workers : Waits(v) /\ Uuid(v) = Uuid(w)
  BY <1>2 DEF InterestTracked, Waits
<1>4. Holds(v) /\ cmd[v] = cmd[w]
  BY <1>3, OwnUuid DEF Uuid
<1>5. cmd[w] \in Commands /\ future[cmd[w]] = "pending"
  BY <1>4 DEF CommandsKept
<1>6. pc[w] \notin {"idle", "signal", "dead", "drain"}
  BY <1>5, CommandAssumption DEF CommandsDropped
<1>7. Holds(w)
  BY <1>1, <1>6 DEF Places, Holds
<1> QED BY <1>3, <1>4, <1>7 DEF CommandsKept

(***************************************************************************)
(* An attempt that was sent adds itself to those before it.                *)
(***************************************************************************)
LEMMA SentNext ==
    ASSUME NEW c, NEW k \in Attempts, SentUpTo(c, k), <<c, k>> \in published
    PROVE  /\ SentUpTo(c, k + 1)
           /\ k + 1 >= MaxRetries => Attempts \subseteq Sent(c)
<1>1. MaxRetries \in Nat \ {0} /\ k \in 0..(MaxRetries - 1)
  BY CommandAssumption DEF Attempts
<1>2. SentUpTo(c, k + 1)
  BY <1>1 DEF SentUpTo
<1>3. k + 1 >= MaxRetries => Attempts \subseteq Sent(c)
  BY <1>1, <1>2 DEF Attempts, Sent, SentUpTo
<1> QED BY <1>2, <1>3

(***************************************************************************)
(* Before its first attempt nothing of a command needs to have been sent.  *)
(***************************************************************************)
LEMMA SentNone == \A c : SentUpTo(c, 0)
BY DEF SentUpTo

(***************************************************************************)
(* A step resolves no future without reason.                               *)
(***************************************************************************)
LEMMA EarnedStep ==
    ASSUME TypeOK, HandlesKept, CommandsKept, CommandsDropped, InterestTracked, EarnedSoFar,
           [Next]_vars
    PROVE  EarnedSoFar'
<1> USE DEF pool, work, sleep, bus, bcasts
<1>a. /\ pc \in [Workers -> Places] /\ cmd \in [Workers -> Commands \cup {None}]
      /\ attempts \in [Workers -> Attempts] /\ inbox \in [Workers -> BOOLEAN]
      /\ future \in [Commands \cup Broadcasts -> {"pending", "Ok", "Err", "Canceled"}]
  BY DEF TypeOK
<1>b. \A w \in Workers : Earned(w)
  BY DEF EarnedSoFar, Earned
<1>c. OutcomesEarned
  BY DEF EarnedSoFar
<1>d. ASSUME UNCHANGED <<pc, cmd, attempts, inbox>>, published \subseteq published',
             answers \subseteq answers', \A c \in Commands : future'[c] = future[c]
      PROVE  EarnedSoFar'
  <2>1. OutcomesEarned'
    BY <1>c, <1>d, OutcomesStay
  <2>2. \A w \in Workers : Earned(w)'
    BY <1>b, <1>d DEF Earned, SentUpTo, Uuid, Holds
  <2> QED BY <2>1, <2>2 DEF EarnedSoFar, Earned
<1>e. \A w \in Workers : Holds(w) => cmd[w] \in Commands
  BY DEF CommandsKept
<1>f. UNCHANGED <<published, answers, future>> => OutcomesEarned'
  BY <1>c, OutcomesStay
<1>g. UNCHANGED <<published, answers>> =>
         published \subseteq published' /\ answers \subseteq answers'
  OBVIOUS
<1>1. ASSUME NEW c \in Commands, TakeWorker(c) PROVE EarnedSoFar'
  <2>1. CASE conn_poisoned \/ conn_queue = <<>>
    BY <1>1, <1>d, <2>1 DEF TakeWorker
  <2>2. CASE ~(conn_poisoned \/ conn_queue = <<>>)
    <3>0. /\ Head(conn_queue) \in Workers /\ pc[Head(conn_queue)] \in {"idle", "dead"}
      BY <2>2, TailElements DEF TypeOK, HandlesKept
    <3>1. PICK w \in Workers : w = Head(conn_queue) /\ pc[w] \in {"idle", "dead"}
      BY <3>0
    <3>2. /\ pc' = [pc EXCEPT ![w] = IF pc[w] = "dead" THEN "dead" ELSE "publish"]
          /\ cmd' = [cmd EXCEPT ![w] = IF pc[w] = "dead" THEN None ELSE c]
          /\ attempts' = [attempts EXCEPT ![w] = 0]
          /\ UNCHANGED <<inbox, published, answers, future>>
      BY <1>1, <2>2, <3>1 DEF TakeWorker
    <3>3. /\ pc'[w] = (IF pc[w] = "dead" THEN "dead" ELSE "publish") /\ attempts'[w] = 0
          /\ \A v \in Workers : v # w => /\ pc'[v] = pc[v] /\ cmd'[v] = cmd[v]
                                         /\ attempts'[v] = attempts[v] /\ inbox'[v] = inbox[v]
      BY <1>a, <3>1, <3>2
    <3>4. inbox'[w] => pc[w] = "dead"
      BY <1>b, <3>1, <3>2 DEF Earned, Registered
    <3>5. Earned(w)'
      BY <3>1, <3>3, <3>4, SentNone DEF Earned, Registered, SentUpTo, Holds, InFlight
    <3> QED BY <1>f, <1>g, <3>1, <3>2, <3>3, <3>5, EarnedByOthers
  <2> QED BY <2>1, <2>2
<1>2. ASSUME NEW w \in Workers, Publish(w) PROVE EarnedSoFar'
  <2>1. /\ pc[w] = "publish" /\ pc'[w] = "arm" /\ UNCHANGED <<cmd, attempts, inbox, answers, future>>
        /\ published' = published \cup {Uuid(w)}
        /\ \A v \in Workers : v # w => pc'[v] = pc[v]
    BY <1>2, <1>a DEF Publish
  <2>2. Holds(w) /\ ~inbox[w]
    BY <1>b, <2>1 DEF Earned, Registered, Holds, InFlight
  <2>3. Earned(w)'
    BY <1>b, <2>1, <2>2 DEF Earned, SentUpTo, Uuid, Registered
  <2>4. OutcomesEarned'
    BY <1>c, <2>1, OutcomesStay
  <2> QED BY <2>1, <2>3, <2>4, EarnedByOthers
<1>3. ASSUME NEW w \in Workers, Arm(w) \/ (~al_poisoned /\ Register(w)) PROVE EarnedSoFar'
  <2>1. /\ \/ pc[w] = "arm" /\ pc'[w] = "register"
           \/ pc[w] = "register" /\ pc'[w] = "wait"
        /\ UNCHANGED <<cmd, attempts, inbox, published, answers, future>>
        /\ \A v \in Workers : v # w => pc'[v] = pc[v]
    BY <1>3, <1>a DEF Arm, Register
  <2>2. Holds(w) /\ ~inbox[w]
    BY <1>b, <2>1 DEF Earned, Registered, Holds, InFlight
  <2>3. Earned(w)'
    BY <1>b, <2>1, <2>2 DEF Earned, SentUpTo, Uuid, Registered
  <2> QED BY <1>f, <1>g, <2>1, <2>3, EarnedByOthers
<1>4. ASSUME NEW w \in Workers, Select(w) PROVE EarnedSoFar'
  <2>1. /\ pc[w] = "wait" /\ pc'[w] = (IF inbox[w] THEN "answered" ELSE "timed out")
        /\ UNCHANGED <<cmd, attempts, inbox, published, answers, future>>
        /\ \A v \in Workers : v # w => pc'[v] = pc[v]
    BY <1>4, <1>a DEF Select
  <2>2. Holds(w)
    BY <2>1 DEF Holds, InFlight
  <2>3. Earned(w)'
    BY <1>b, <2>1, <2>2 DEF Earned, SentUpTo, Uuid, Registered
  <2> QED BY <1>f, <1>g, <2>1, <2>3, EarnedByOthers
<1>5. ASSUME NEW w \in Workers, Holds(w), Die(w) PROVE EarnedSoFar'
  <2>1. /\ pc'[w] = "dead" /\ UNCHANGED <<attempts, inbox, published, answers>>
        /\ \A v \in Workers : v # w => pc'[v] = pc[v] /\ cmd'[v] = cmd[v]
    BY <1>5, <1>a DEF Die
  <2>2. \A d \in Commands : future'[d] \in {future[d], "Canceled"}
    BY <1>5, <1>a DEF Die
  <2>3. OutcomesEarned'
    BY <1>c, <1>g, <2>1, <2>2, OutcomesStay
  <2>4. Earned(w)'
    BY <2>1 DEF Earned, Holds, InFlight, Registered
  <2> QED BY <1>g, <2>1, <2>3, <2>4, EarnedByOthers
<1>6. ASSUME NEW w \in Workers, ~al_poisoned, Answered(w) PROVE EarnedSoFar'
  <2>1. /\ pc[w] = "answered" /\ pc'[w] = "drain" /\ inbox'[w] = FALSE
        /\ UNCHANGED <<cmd, attempts, published, answers>>
        /\ \A v \in Workers : v # w => pc'[v] = pc[v] /\ inbox'[v] = inbox[v]
    BY <1>6, <1>a DEF Answered, DropReceivers
  <2>2. cmd[w] \in Commands /\ attempts[w] \in Attempts
    BY <1>a, <1>e, <2>1 DEF Holds, InFlight
  <2>3. \E r \in Responders : <<Uuid(w), r>> \in answers
    BY <1>b, <2>1 DEF Earned, Registered
  <2>4. /\ future'[cmd[w]] = "Ok"
        /\ \A d \in Commands : d # cmd[w] => future'[d] = future[d]
    BY <1>6, <1>a, <2>2 DEF Answered
  <2>5. OutcomesEarned'
    BY <1>c, <1>g, <2>1, <2>2, <2>3, <2>4, OutcomesStay DEF Uuid
  <2>6. Earned(w)'
    BY <2>1 DEF Earned, Holds, InFlight, Registered
  <2> QED BY <1>g, <2>1, <2>5, <2>6, EarnedByOthers
<1>7. ASSUME NEW w \in Workers, ~al_poisoned, TimedOut(w) PROVE EarnedSoFar'
  <2>1. /\ pc[w] = "timed out" /\ pc'[w] = (IF OutOfRetries(w) THEN "drain" ELSE "publish")
        /\ inbox'[w] = FALSE
        /\ attempts'[w] = (IF OutOfRetries(w) THEN attempts[w] ELSE attempts[w] + 1)
        /\ UNCHANGED <<cmd, published, answers>>
        /\ \A v \in Workers : v # w => /\ pc'[v] = pc[v] /\ inbox'[v] = inbox[v]
                                       /\ attempts'[v] = attempts[v]
    BY <1>7, <1>a DEF TimedOut, DropReceivers
  <2>2. Holds(w) /\ cmd[w] \in Commands /\ attempts[w] \in Attempts
    BY <1>a, <1>e, <2>1 DEF Holds, InFlight
  <2>3. /\ SentUpTo(cmd[w], attempts[w] + 1)
        /\ OutOfRetries(w) => Attempts \subseteq Sent(cmd[w])
    <3>1. SentUpTo(cmd[w], attempts[w]) /\ <<cmd[w], attempts[w]>> \in published
      BY <1>b, <2>1, <2>2 DEF Earned, Registered, Uuid
    <3> QED BY <2>2, <3>1, SentNext DEF OutOfRetries
  <2>4. Earned(w)'
    BY <2>1, <2>3 DEF Earned, Holds, InFlight, Registered, SentUpTo
  <2>5. CASE OutOfRetries(w)
    <3>1. /\ future'[cmd[w]] = "Err"
          /\ \A d \in Commands : d # cmd[w] => future'[d] = future[d]
      BY <1>7, <1>a, <2>2, <2>5 DEF TimedOut
    <3>2. OutcomesEarned'
      BY <1>c, <1>g, <2>1, <2>3, <2>5, <3>1, OutcomesStay
    <3> QED BY <1>g, <2>1, <2>4, <3>2, EarnedByOthers
  <2>6. CASE ~OutOfRetries(w)
    <3>1. UNCHANGED future
      BY <1>7, <2>6 DEF TimedOut
    <3> QED BY <1>f, <1>g, <2>1, <2>4, <3>1, EarnedByOthers
  <2> QED BY <2>5, <2>6
<1>8. ASSUME NEW w \in Workers, Register(w) \/ Answered(w) \/ TimedOut(w) PROVE EarnedSoFar'
  <2>1. al_poisoned => Die(w)
    BY <1>8 DEF Register, Answered, TimedOut
  <2>2. Holds(w)
    BY <1>8 DEF Register, Answered, TimedOut, Holds, InFlight
  <2> QED BY <1>3, <1>5, <1>6, <1>7, <1>8, <2>1, <2>2
<1>9. ASSUME NEW w \in Workers, Drain(w) \/ SignalIdle(w) PROVE EarnedSoFar'
  <2>1. /\ pc[w] \in {"drain", "signal"} /\ pc'[w] \in {"publish", "signal", "idle"}
        /\ pc'[w] = "publish" => attempts'[w] = 0
        /\ UNCHANGED <<inbox, published, answers, future>>
        /\ \A v \in Workers : v # w => /\ pc'[v] = pc[v] /\ cmd'[v] = cmd[v]
                                       /\ attempts'[v] = attempts[v]
    BY <1>9, <1>a DEF Drain, SignalIdle
  <2>2. ~inbox[w]
    BY <1>b, <2>1 DEF Earned, Registered
  <2>3. Earned(w)'
    BY <2>1, <2>2, SentNone DEF Earned, Holds, InFlight, Registered, SentUpTo
  <2> QED BY <1>f, <1>g, <2>1, <2>3, EarnedByOthers
<1>10. ASSUME NEW r \in Responders, NEW u \in published, SendMessages(u, r)
       PROVE  EarnedSoFar'
  <2>1. /\ UNCHANGED <<pc, cmd, attempts, published, future>> /\ ~al_poisoned
        /\ answers' = answers \cup {<<u, r>>}
    BY <1>10 DEF SendMessages
  <2>a. \A w \in Workers : /\ inbox'[w] => inbox[w] \/ (u \in alerts /\ Uuid(w) = u)
                           /\ inbox[w] => inbox'[w]
    <3> DEFINE listening(w) == u \in alerts /\ Uuid(w) = u
               gone == \E w \in Workers : listening(w) /\ pc[w] = "answered"
    <3>1. inbox' = [w \in Workers |-> inbox[w] \/ (listening(w) /\ ~gone)]
      BY <1>10 DEF SendMessages
    <3>2. ASSUME NEW w \in Workers PROVE inbox'[w] <=> inbox[w] \/ (listening(w) /\ ~gone)
      <4> HIDE DEF gone, listening
      <4> QED BY <3>1, Zenon
    <3> HIDE DEF gone
    <3> QED BY <3>2, Zenon
  <2>2. OutcomesEarned'
    BY <1>c, <2>1, OutcomesStay
  <2>3. ASSUME NEW w \in Workers PROVE Earned(w)'
    <3>1. CASE inbox'[w] /\ ~inbox[w]
      <4>1. Uuid(w) = u /\ pc[w] \in Registered
        BY <2>1, <2>a, <3>1, ListenerWaits DEF Waits
      <4> QED BY <1>b, <2>1, <3>1, <4>1 DEF Earned, SentUpTo, Uuid, Holds
    <3>2. CASE inbox'[w] => inbox[w]
      BY <1>b, <2>1, <2>a, <3>2 DEF Earned, SentUpTo, Uuid, Holds
    <3> QED BY <3>1, <3>2
  <2> QED BY <2>2, <2>3 DEF EarnedSoFar, Earned
<1>11. ASSUME NEW c \in Commands, CheckIdle(c) \/ Enqueue(c) PROVE EarnedSoFar'
  BY <1>11, <1>d DEF CheckIdle, Enqueue
<1>12. ASSUME NEW w \in Workers, SleeperWakes(w) \/ ReturnWorker(w) PROVE EarnedSoFar'
  BY <1>12, <1>d DEF SleeperWakes, ReturnWorker
<1>13. ASSUME NEW b \in Broadcasts,
              Broadcast(b) \/ \E r \in Responders : BroadcastCollect(b, r)
       PROVE  EarnedSoFar'
  <2>1. /\ UNCHANGED <<pc, cmd, attempts, inbox, answers>> /\ published \subseteq published'
        /\ future' = future \/ \E outcome : future' = [future EXCEPT ![b] = outcome]
    BY <1>13 DEF Broadcast, BroadcastRegister, BroadcastPublish, BroadcastTimeout,
                 BroadcastResolve, BroadcastCollect
  <2>2. b \notin Commands
    BY CommandAssumption
  <2>3. \A c \in Commands : future'[c] = future[c]
    BY <1>a, <2>1, <2>2
  <2> QED BY <1>d, <2>1, <2>3
<1>14. CASE UNCHANGED vars
  BY <1>14, <1>d DEF vars
<1>15. ASSUME NEW w \in Workers, Work(w) PROVE EarnedSoFar'
  BY <1>2, <1>3, <1>4, <1>8, <1>9, <1>15 DEF Work
<1>16. ASSUME NEW c \in Commands, Execute(c) PROVE EarnedSoFar'
  BY <1>1, <1>11, <1>16 DEF Execute
<1> QED BY <1>10, <1>12, <1>13, <1>14, <1>15, <1>16 DEF Next, Network

-----------------------------------------------------------------------------
(* The theorems *)

(***************************************************************************)
(* The server starts with all workers idle in conn_queue and no command.   *)
(***************************************************************************)
LEMMA ServerInit == Init => ServerInv
<1> SUFFICES ASSUME Init PROVE ServerInv
  OBVIOUS
<1>1. /\ conn_queue \in [1..Cardinality(Workers) -> Workers] /\ Unrepeated(conn_queue)
  BY DEF Init, Unrepeated
<1>2. conn_queue \in Seq(Workers) /\ Elements(conn_queue) = Workers
  BY <1>1, CommandAssumption, FullQueue
<1>3. TypeOK
  <2>1. command_queue \in Seq(Commands)
    BY DEF Init
  <2>2. pc \in [Workers -> Places] /\ attempts \in [Workers -> Attempts]
    BY PlaceNames, AttemptsCount DEF Init
  <2> QED BY <1>2, <2>1, <2>2 DEF Init, TypeOK
<1>4. HandlesKept
  BY <1>1, <1>2 DEF Init, HandlesKept
<1>5. Elements(command_queue) = {} /\ Unrepeated(command_queue)
  BY DEF Init, Elements, Unrepeated
<1>6. \A w \in Workers : pc[w] = "idle" /\ ~Holds(w) /\ ~Waits(w)
  BY DEF Init, Holds, InFlight, Waits, Registered
<1>7. CommandsKept
  BY <1>5, <1>6 DEF Init, CommandsKept
<1>8. CommandsDropped
  BY DEF Init, CommandsDropped
<1>9. InterestTracked
  BY <1>6 DEF Init, InterestTracked, Waits
<1>10. TimeoutArmed
  BY DEF Init, TimeoutArmed
<1>11. OutcomesEarned
  BY DEF Init, OutcomesEarned
<1>12. EarnedSoFar
  BY <1>6, <1>11 DEF Init, EarnedSoFar, Registered
<1> QED BY <1>3, <1>4, <1>7, <1>8, <1>9, <1>10, <1>12 DEF ServerInv

(***************************************************************************)
(* Every reachable state of the server is one ServerInv describes.         *)
(***************************************************************************)
THEOREM ServerSound == Spec => []ServerInv
<1>1. ServerInv /\ [Next]_vars => ServerInv'
  BY TypeStep, HandlesStep, CommandsStep, InterestStep, TimeoutStep, EarnedStep DEF ServerInv
<1> QED BY ServerInit, <1>1, PTL DEF Spec

(***************************************************************************)
(* A waiting worker's interest is registered and its timeout runs, and     *)
(* nobody else's interest is left in the AlertList.                        *)
(***************************************************************************)
THEOREM ServerWaitsBacked == Spec => []WaitsBacked
<1>1. ServerInv => WaitsBacked
  BY DEF ServerInv, WaitsBacked
<1> QED BY <1>1, ServerSound, PTL

(***************************************************************************)
(* send_command_outer fails a command after all of its attempts, and       *)
(* resolves it with an answer to one of them.                              *)
(***************************************************************************)
THEOREM ServerOutcomesEarned == Spec => []OutcomesEarned
<1>1. ServerInv => OutcomesEarned
  BY DEF ServerInv, EarnedSoFar
<1> QED BY <1>1, ServerSound, PTL

(***************************************************************************)
(* Nothing is in a queue without repetitions twice, no worker's handle and *)
(* no command is in two places, and none is lost.                          *)
(***************************************************************************)
LEMMA PlacesCounted ==
    ASSUME ServerInv
    PROVE  WorkersConserved /\ CommandsConserved
<1>1. /\ Unrepeated(conn_queue) /\ Unrepeated(command_queue)
      /\ \A w \in Workers : Queued(w) = At(conn_queue, w)
      /\ \A c \in Commands : Waiting(c) = At(command_queue, c)
  BY DEF ServerInv, HandlesKept, CommandsKept, Queued, Waiting, At
<1>2. WorkersConserved
  <2> SUFFICES ASSUME NEW w \in Workers
               PROVE  /\ Cardinality(Queued(w)) <= 1
                      /\ pc[w] \in InFlight \cup {"drain", "signal"} =>
                             Queued(w) = {} /\ w \notin returning
                      /\ pc[w] = "idle" /\ ~conn_poisoned => (Queued(w) = {}) = (w \in returning)
    BY DEF WorkersConserved
  <2>1. /\ Cardinality(Queued(w)) = IF w \in Elements(conn_queue) THEN 1 ELSE 0
        /\ Queued(w) = {} <=> w \notin Elements(conn_queue)
    BY <1>1, OnePlace
  <2>2. /\ w \in Elements(conn_queue) => pc[w] \in {"idle", "dead"} /\ w \notin returning
        /\ w \in returning => pc[w] \in {"idle", "dead"}
        /\ pc[w] = "idle" /\ ~conn_poisoned => w \in returning \/ w \in Elements(conn_queue)
    BY DEF ServerInv, HandlesKept
  <2>3. Cardinality(Queued(w)) <= 1
    BY <2>1
  <2>4. pc[w] \in InFlight \cup {"drain", "signal"} => pc[w] \notin {"idle", "dead"}
    BY DEF InFlight
  <2> QED BY <2>1, <2>2, <2>3, <2>4
<1>3. CommandsConserved
  <2> SUFFICES ASSUME NEW c \in Commands
               PROVE  Cardinality(Holders(c)) + Cardinality(Waiting(c))
                          = IF caller[c] = "done" /\ future[c] = "pending" THEN 1 ELSE 0
    BY DEF CommandsConserved
  <2>1. Cardinality(Waiting(c)) = IF c \in Elements(command_queue) THEN 1 ELSE 0
    BY <1>1, OnePlace
  <2>2. Holders(c) = {w \in Workers : Holds(w) /\ cmd[w] = c}
    BY DEF Holders, Holds
  <2>3. /\ c \in Elements(command_queue) => caller[c] = "done" /\ future[c] = "pending"
        /\ \A w \in Holders(c) : /\ c \notin Elements(command_queue)
                                 /\ caller[c] = "done" /\ future[c] = "pending"
        /\ \A v, w \in Holders(c) : v = w
        /\ caller[c] = "done" /\ future[c] = "pending" =>
              c \in Elements(command_queue) \/ Holders(c) # {}
    BY <2>2 DEF ServerInv, CommandsKept
  <2>4. CASE Holders(c) = {}
    <3>1. Cardinality(Holders(c)) = 0
      BY <2>4, FS_EmptySet
    <3> QED BY <2>1, <2>3, <2>4, <3>1
  <2>5. CASE Holders(c) # {}
    <3>1. PICK w : Holders(c) = {w}
      BY <2>3, <2>5
    <3>2. Cardinality(Holders(c)) = 1
      BY <3>1, FS_Singleton
    <3> QED BY <2>1, <2>3, <2>5, <3>2
  <2> QED BY <2>4, <2>5
<1> QED BY <1>2, <1>3

(***************************************************************************)
(* Whatever panics, execute, the workers and the waiting threads neither   *)
(* lose nor double a worker or a command.                                  *)
(***************************************************************************)
THEOREM ServerPoolSound == Spec => []PoolSound
<1>1. ServerInv => PoolSound
  BY PlacesCounted DEF ServerInv, PoolSound
<1> QED BY <1>1, ServerSound, PTL

-----------------------------------------------------------------------------
(* Refinement *)

\* Command c is somebody's work.
Held(c) == \E w \in Workers : Holds(w) /\ cmd[w] = c

(***************************************************************************)
(* How far a command is, by who holds it, its future and its caller.       *)
(***************************************************************************)
LEMMA StatusOf ==
    /\ CommandStatus =
         [c \in Commands |->
            IF Held(c) THEN "running"
            ELSE IF future[c] \in {"Ok", "Err"} THEN "done"
            ELSE IF future[c] = "Canceled" \/ caller[c] = "panicked" THEN "lost"
            ELSE IF caller[c] = "done" THEN "waiting" ELSE "new"]
    /\ CommandStatus' =
         [c \in Commands |->
            IF Held(c)' THEN "running"
            ELSE IF future'[c] \in {"Ok", "Err"} THEN "done"
            ELSE IF future'[c] = "Canceled" \/ caller'[c] = "panicked" THEN "lost"
            ELSE IF caller'[c] = "done" THEN "waiting" ELSE "new"]
<1>1. \A c \in Commands : (Holders(c) # {}) <=> Held(c)
  BY DEF Holders, Held, Holds
<1>2. \A c \in Commands : (Holders(c)' # {}) <=> Held(c)'
  BY DEF Holders, Held, Holds
<1> QED BY <1>1, <1>2 DEF CommandStatus

(***************************************************************************)
(* Nothing happened to the commands that the pool's users could notice.    *)
(***************************************************************************)
LEMMA StatusSame ==
    ASSUME \A c \in Commands : /\ Held(c)' = Held(c) /\ future'[c] = future[c]
                               /\ caller'[c] = caller[c]
    PROVE  CommandStatus' = CommandStatus
BY StatusOf

(***************************************************************************)
(* Something happened to one command.                                      *)
(***************************************************************************)
LEMMA StatusMoves ==
    ASSUME NEW c \in Commands,
           \A d \in Commands : d # c => /\ Held(d)' = Held(d) /\ future'[d] = future[d]
                                        /\ caller'[d] = caller[d]
    PROVE  CommandStatus' = [CommandStatus EXCEPT ![c] = CommandStatus'[c]]
BY StatusOf

(***************************************************************************)
(* The pool counts like everybody else.                                    *)
(***************************************************************************)
LEMMA PoolCounts == \A S : Pool!Cardinality(S) = Cardinality(S)
BY DEF Pool!Cardinality, Cardinality

(***************************************************************************)
(* Who works on nothing leaves room in the pool.                           *)
(***************************************************************************)
LEMMA RoomForWork ==
    ASSUME ServerInv, NEW w \in Workers, ~Holds(w)
    PROVE  Pool!Cardinality(Pool!Running) < Cardinality(Workers)
<1>1. Pool!Running = {c \in Commands : Held(c)}
  BY StatusOf DEF Pool!Running
<1> DEFINE holder == [c \in Pool!Running |-> CHOOSE v \in Workers : Holds(v) /\ cmd[v] = c]
<1>2. \A c \in Pool!Running : holder[c] \in Workers /\ Holds(holder[c]) /\ cmd[holder[c]] = c
  BY <1>1 DEF Held
<1>3. holder \in [Pool!Running -> Workers \ {w}]
  BY <1>2
<1>4. \A c, d \in Pool!Running : holder[c] = holder[d] => c = d
  BY <1>2
<1> HIDE DEF holder
<1> QED BY <1>3, <1>4, RoomToStart, PoolCounts, CommandAssumption

(***************************************************************************)
(* A caller's step accepts its command, starts it, or loses it.            *)
(***************************************************************************)
LEMMA CallerRefines ==
    ASSUME ServerInv, NEW c \in Commands, Execute(c)
    PROVE  [Pool!PoolNext]_CommandStatus
<1> USE DEF pool, work, sleep, bus, bcasts
<1>a. /\ pc \in [Workers -> Places] /\ cmd \in [Workers -> Commands \cup {None}]
      /\ caller \in [Commands -> {"new", "enqueue", "take", "done", "panicked"}]
      /\ conn_queue \in Seq(Workers)
  BY DEF ServerInv, TypeOK
<1>b. /\ caller[c] \in {"new", "enqueue", "take"} => future[c] = "pending" /\ ~Held(c)
      /\ \A w \in Workers : pc[w] = "dead" => cmd[w] = None
  BY DEF ServerInv, CommandsKept, CommandsDropped, Held
<1>c. ASSUME caller[c] \in {"new", "enqueue", "take"}, UNCHANGED <<pc, cmd, future>>,
             NEW place \in {"enqueue", "take", "done", "panicked"},
             caller' = [caller EXCEPT ![c] = place]
      PROVE  [Pool!PoolNext]_CommandStatus
  <2>1. CommandStatus[c] = "new"
    BY <1>b, <1>c, StatusOf
  <2>2. \A d \in Commands : /\ Held(d)' = Held(d) /\ future'[d] = future[d]
                            /\ d # c => caller'[d] = caller[d]
    BY <1>a, <1>c DEF Held, Holds
  <2>3. CommandStatus' = [CommandStatus EXCEPT ![c] = CommandStatus'[c]]
    BY <2>2, StatusMoves
  <2>4. CommandStatus'[c] \in {"new", "waiting", "lost"}
    BY <1>a, <1>b, <1>c, <2>2, StatusOf
  <2>5. CASE CommandStatus'[c] = "new"
    BY <2>1, <2>3, <2>5, StatusOf
  <2>6. CASE CommandStatus'[c] = "waiting"
    BY <2>1, <2>3, <2>6 DEF Pool!PoolNext, Pool!Accept, Pool!Move
  <2>7. CASE CommandStatus'[c] = "lost"
    BY <2>1, <2>3, <2>7 DEF Pool!PoolNext, Pool!Lose, Pool!Move
  <2> QED BY <2>4, <2>5, <2>6, <2>7
<1>1. CASE CheckIdle(c) \/ Enqueue(c)
  BY <1>1, <1>c DEF CheckIdle, Enqueue
<1>2. CASE TakeWorker(c)
  <2>1. CASE conn_poisoned \/ conn_queue = <<>>
    BY <1>2, <1>c, <2>1 DEF TakeWorker
  <2>2. CASE ~(conn_poisoned \/ conn_queue = <<>>)
    <3>0. Head(conn_queue) \in Workers /\ pc[Head(conn_queue)] \in {"idle", "dead"}
      BY <1>a, <2>2, TailElements DEF ServerInv, HandlesKept
    <3>1. PICK w \in Workers : w = Head(conn_queue) /\ pc[w] \in {"idle", "dead"}
      BY <3>0
    <3>2. UNCHANGED future /\ caller[c] = "take"
      BY <1>2, <2>2 DEF TakeWorker
    <3>3. CASE pc[w] = "dead"
      <4>1. /\ pc' = [pc EXCEPT ![w] = "dead"] /\ cmd' = [cmd EXCEPT ![w] = None]
            /\ caller' = [caller EXCEPT ![c] = "panicked"]
        BY <1>2, <2>2, <3>1, <3>3 DEF TakeWorker
      <4>2. pc' = pc /\ cmd' = cmd
        BY <1>a, <1>b, <3>3, <4>1
      <4> QED BY <1>c, <3>2, <4>1, <4>2
    <3>4. CASE pc[w] = "idle"
      <4>1. /\ pc' = [pc EXCEPT ![w] = "publish"] /\ cmd' = [cmd EXCEPT ![w] = c]
            /\ caller' = [caller EXCEPT ![c] = "done"]
        BY <1>2, <2>2, <3>1, <3>4 DEF TakeWorker
      <4>2. /\ pc'[w] = "publish" /\ cmd'[w] = c
            /\ \A v \in Workers : v # w => pc'[v] = pc[v] /\ cmd'[v] = cmd[v]
            /\ \A d \in Commands : d # c => caller'[d] = caller[d]
        BY <1>a, <4>1
      <4>3. ~Holds(w) /\ Holds(w)'
        BY <3>4, <4>2 DEF Holds, InFlight
      <4>4. Held(c)' /\ \A d \in Commands : d # c => Held(d)' = Held(d)
        BY <4>2, <4>3 DEF Held, Holds
      <4>5. CommandStatus[c] = "new" /\ CommandStatus'[c] = "running"
        BY <1>b, <3>2, <4>4, StatusOf
      <4>6. CommandStatus' = [CommandStatus EXCEPT ![c] = "running"]
        BY <3>2, <4>2, <4>4, <4>5, StatusMoves
      <4>7. Pool!Cardinality(Pool!Running) < Cardinality(Workers)
        BY <4>3, RoomForWork
      <4> QED BY <4>5, <4>6, <4>7 DEF Pool!PoolNext, Pool!Start, Pool!Move
    <3> QED BY <3>1, <3>3, <3>4
  <2> QED BY <2>1, <2>2
<1> QED BY <1>1, <1>2 DEF Execute

(***************************************************************************)
(* A worker's step finishes its command, loses it, starts the next one, or *)
(* is one of the many in between.                                          *)
(***************************************************************************)
LEMMA WorkerRefines ==
    ASSUME ServerInv, NEW w \in Workers, Work(w)
    PROVE  [Pool!PoolNext]_CommandStatus
<1> USE DEF pool, work, sleep, bus, bcasts
<1>a. /\ pc \in [Workers -> Places] /\ cmd \in [Workers -> Commands \cup {None}]
      /\ future \in [Commands \cup Broadcasts -> {"pending", "Ok", "Err", "Canceled"}]
      /\ command_queue \in Seq(Commands)
  BY DEF ServerInv, TypeOK
<1>b. /\ Holds(w) => cmd[w] \in Commands /\ future[cmd[w]] = "pending"
      /\ \A v \in Workers : v # w /\ Holds(v) /\ Holds(w) => cmd[v] # cmd[w]
      /\ \A c \in Elements(command_queue) : /\ caller[c] = "done" /\ future[c] = "pending"
                                            /\ ~Held(c)
  BY DEF ServerInv, CommandsKept, Held
\* the command stays where it is
<1>c. ASSUME UNCHANGED <<caller, future>>,
             \A v \in Workers : v # w => pc'[v] = pc[v] /\ cmd'[v] = cmd[v],
             \/ ~Holds(w) /\ ~Holds(w)'
             \/ Holds(w) /\ Holds(w)' /\ cmd'[w] = cmd[w]
      PROVE  [Pool!PoolNext]_CommandStatus
  <2>1. \A v \in Workers : Holds(v)' = Holds(v) /\ (Holds(v) => cmd'[v] = cmd[v])
    BY <1>c DEF Holds
  <2>2. \A d \in Commands : Held(d)' = Held(d)
    BY <2>1 DEF Held
  <2> QED BY <1>c, <2>2, StatusSame
\* the command comes to an end
<1>d. ASSUME Holds(w), ~Holds(w)', UNCHANGED caller,
             \A v \in Workers : v # w => pc'[v] = pc[v] /\ cmd'[v] = cmd[v],
             NEW outcome \in {"Ok", "Err", "Canceled"},
             future' = [future EXCEPT ![cmd[w]] = outcome]
      PROVE  [Pool!PoolNext]_CommandStatus
  <2>1. PICK c \in Commands : c = cmd[w]
    BY <1>b, <1>d
  <2>2. /\ future'[c] = outcome
        /\ \A d \in Commands : d # c => future'[d] = future[d]
    BY <1>a, <1>d, <2>1
  <2>3. Held(c) /\ ~Held(c)' /\ \A d \in Commands : d # c => Held(d)' = Held(d)
    BY <1>b, <1>d, <2>1 DEF Held, Holds
  <2>4. CommandStatus[c] = "running" /\ CommandStatus'[c] \in {"done", "lost"}
    BY <2>2, <2>3, StatusOf
  <2>5. CommandStatus' = [CommandStatus EXCEPT ![c] = CommandStatus'[c]]
    BY <1>d, <2>2, <2>3, StatusMoves
  <2>6. CASE CommandStatus'[c] = "done"
    BY <2>4, <2>5, <2>6 DEF Pool!PoolNext, Pool!Finish, Pool!Move
  <2>7. CASE CommandStatus'[c] = "lost"
    BY <2>4, <2>5, <2>7 DEF Pool!PoolNext, Pool!Lose, Pool!Move
  <2> QED BY <2>4, <2>6, <2>7
<1>1. CASE Publish(w) \/ Arm(w) \/ Select(w)
  <2>1. /\ pc[w] \in InFlight /\ pc'[w] \in InFlight /\ UNCHANGED <<caller, future, cmd>>
        /\ \A v \in Workers : v # w => pc'[v] = pc[v]
    BY <1>1, <1>a DEF Publish, Arm, Select, InFlight
  <2> QED BY <1>c, <2>1 DEF Holds
<1>2. ASSUME Holds(w), Die(w) PROVE [Pool!PoolNext]_CommandStatus
  <2>1. /\ pc'[w] = "dead" /\ UNCHANGED caller
        /\ future' = [future EXCEPT ![cmd[w]] = "Canceled"]
        /\ \A v \in Workers : v # w => pc'[v] = pc[v] /\ cmd'[v] = cmd[v]
    BY <1>2, <1>a DEF Die
  <2>2. ~Holds(w)'
    BY <2>1 DEF Holds, InFlight
  <2> QED BY <1>2, <1>d, <2>1, <2>2
<1>3. CASE Register(w)
  <2>0. Holds(w)
    BY <1>3 DEF Register, Holds, InFlight
  <2>1. CASE al_poisoned
    BY <1>2, <1>3, <2>0, <2>1 DEF Register
  <2>2. CASE ~al_poisoned
    <3>1. /\ pc'[w] = "wait" /\ UNCHANGED <<caller, future, cmd>>
          /\ \A v \in Workers : v # w => pc'[v] = pc[v]
      BY <1>3, <1>a, <2>2 DEF Register
    <3>2. Holds(w)'
      BY <3>1 DEF Holds, InFlight
    <3> QED BY <1>c, <2>0, <3>1, <3>2
  <2> QED BY <2>1, <2>2
<1>4. CASE Answered(w)
  <2>0. Holds(w)
    BY <1>4 DEF Answered, Holds, InFlight
  <2>1. CASE al_poisoned
    BY <1>2, <1>4, <2>0, <2>1 DEF Answered
  <2>2. CASE ~al_poisoned
    <3>1. /\ pc'[w] = "drain" /\ UNCHANGED <<caller, cmd>>
          /\ future' = [future EXCEPT ![cmd[w]] = "Ok"]
          /\ \A v \in Workers : v # w => pc'[v] = pc[v]
      BY <1>4, <1>a, <2>2 DEF Answered
    <3>2. ~Holds(w)'
      BY <3>1 DEF Holds, InFlight
    <3> QED BY <1>d, <2>0, <3>1, <3>2
  <2> QED BY <2>1, <2>2
<1>5. CASE TimedOut(w)
  <2>0. Holds(w)
    BY <1>5 DEF TimedOut, Holds, InFlight
  <2>1. CASE al_poisoned
    BY <1>2, <1>5, <2>0, <2>1 DEF TimedOut
  <2>2. CASE ~al_poisoned /\ OutOfRetries(w)
    <3>1. /\ pc'[w] = "drain" /\ UNCHANGED <<caller, cmd>>
          /\ future' = [future EXCEPT ![cmd[w]] = "Err"]
          /\ \A v \in Workers : v # w => pc'[v] = pc[v]
      BY <1>5, <1>a, <2>2 DEF TimedOut
    <3>2. ~Holds(w)'
      BY <3>1 DEF Holds, InFlight
    <3> QED BY <1>d, <2>0, <3>1, <3>2
  <2>3. CASE ~al_poisoned /\ ~OutOfRetries(w)
    <3>1. /\ pc'[w] = "publish" /\ UNCHANGED <<caller, cmd, future>>
          /\ \A v \in Workers : v # w => pc'[v] = pc[v]
      BY <1>5, <1>a, <2>3 DEF TimedOut
    <3>2. Holds(w)'
      BY <3>1 DEF Holds, InFlight
    <3> QED BY <1>c, <2>0, <3>1, <3>2
  <2> QED BY <2>1, <2>2, <2>3
<1>6. CASE Drain(w)
  <2>0. ~Holds(w) /\ UNCHANGED <<caller, future>>
        /\ \A v \in Workers : v # w => pc'[v] = pc[v] /\ cmd'[v] = cmd[v]
    BY <1>6, <1>a DEF Drain, Holds, InFlight
  <2>1. CASE command_queue = <<>>
    <3>1. pc'[w] = "signal"
      BY <1>6, <1>a, <2>1 DEF Drain
    <3>2. ~Holds(w)'
      BY <3>1 DEF Holds, InFlight
    <3> QED BY <1>c, <2>0, <3>2
  <2>2. CASE command_queue # <<>>
    <3>0. Head(command_queue) \in Commands /\ Head(command_queue) \in Elements(command_queue)
      BY <1>a, <2>2, TailElements
    <3>1. PICK c \in Commands : c = Head(command_queue) /\ c \in Elements(command_queue)
      BY <3>0
    <3>2. pc'[w] = "publish" /\ cmd'[w] = c
      BY <1>6, <1>a, <2>2, <3>1 DEF Drain
    <3>3. Holds(w)'
      BY <3>2 DEF Holds, InFlight
    <3>4. Held(c)' /\ ~Held(c) /\ \A d \in Commands : d # c => Held(d)' = Held(d)
      BY <1>b, <2>0, <3>1, <3>2, <3>3 DEF Held, Holds
    <3>5. CommandStatus[c] = "waiting" /\ CommandStatus'[c] = "running"
      BY <1>b, <3>1, <3>4, StatusOf
    <3>6. CommandStatus' = [CommandStatus EXCEPT ![c] = "running"]
      BY <2>0, <3>4, <3>5, StatusMoves
    <3>7. Pool!Cardinality(Pool!Running) < Cardinality(Workers)
      BY <2>0, RoomForWork
    <3> QED BY <3>5, <3>6, <3>7 DEF Pool!PoolNext, Pool!Start, Pool!Move
  <2> QED BY <2>1, <2>2
<1>7. CASE SignalIdle(w)
  <2>1. /\ pc[w] = "signal" /\ pc'[w] = "idle" /\ UNCHANGED <<caller, future, cmd>>
        /\ \A v \in Workers : v # w => pc'[v] = pc[v]
    BY <1>7, <1>a DEF SignalIdle
  <2>2. ~Holds(w) /\ ~Holds(w)'
    BY <2>1 DEF Holds, InFlight
  <2> QED BY <1>c, <2>1, <2>2
<1> QED BY <1>1, <1>3, <1>4, <1>5, <1>6, <1>7 DEF Work

(***************************************************************************)
(* The CommandServer implements the pool of work: with all its retries and *)
(* timeouts, a command is one task of one worker, of which no more run     *)
(* than there are workers, and its outcome is final.                       *)
(***************************************************************************)
THEOREM ServerImplementsPool == Spec => CommandsArePooled
<1> USE DEF pool, work, sleep, bus, bcasts
<1>1. Init => Pool!PoolInit
  <2> SUFFICES ASSUME Init PROVE Pool!PoolInit
    OBVIOUS
  <2>1. \A c \in Commands : ~Held(c) /\ future[c] = "pending" /\ caller[c] = "new"
    BY DEF Init, Held, Holds, InFlight
  <2> QED BY <2>1, StatusOf DEF Pool!PoolInit
<1>2. ServerInv /\ [Next]_vars => [Pool!PoolNext]_CommandStatus
  <2> SUFFICES ASSUME ServerInv, [Next]_vars PROVE [Pool!PoolNext]_CommandStatus
    OBVIOUS
  <2>a. ASSUME UNCHANGED <<pc, cmd, caller>>, \A c \in Commands : future'[c] = future[c]
        PROVE  [Pool!PoolNext]_CommandStatus
    <3>1. \A c \in Commands : Held(c)' = Held(c)
      BY <2>a DEF Held, Holds
    <3> QED BY <2>a, <3>1, StatusSame
  <2>1. ASSUME NEW w \in Workers, SleeperWakes(w) \/ ReturnWorker(w)
        PROVE  [Pool!PoolNext]_CommandStatus
    BY <2>1, <2>a DEF SleeperWakes, ReturnWorker
  <2>2. ASSUME NEW r \in Responders, NEW u \in published, SendMessages(u, r)
        PROVE  [Pool!PoolNext]_CommandStatus
    BY <2>2, <2>a DEF SendMessages
  <2>3. ASSUME NEW b \in Broadcasts,
               Broadcast(b) \/ \E r \in Responders : BroadcastCollect(b, r)
        PROVE  [Pool!PoolNext]_CommandStatus
    <3>1. /\ UNCHANGED <<pc, cmd, caller>>
          /\ future' = future \/ \E outcome : future' = [future EXCEPT ![b] = outcome]
      BY <2>3 DEF Broadcast, BroadcastRegister, BroadcastPublish, BroadcastTimeout,
                  BroadcastResolve, BroadcastCollect
    <3>2. b \notin Commands
      BY CommandAssumption
    <3>3. \A c \in Commands : future'[c] = future[c]
      BY <3>1, <3>2 DEF ServerInv, TypeOK
    <3> QED BY <2>a, <3>1, <3>3
  <2>4. CASE UNCHANGED vars
    BY <2>4, <2>a DEF vars
  <2> QED BY <2>1, <2>2, <2>3, <2>4, CallerRefines, WorkerRefines DEF Next, Network
<1> QED BY <1>1, <1>2, ServerSound, PTL DEF Spec, CommandsArePooled, Pool!PoolSpec
=============================================================================
