----------------------------- MODULE RedisProxy -----------------------------
(***************************************************************************)
(* The bridge between Redis and websockets: spawner/src/redis_proxy.rs.    *)
(* A message that a websocket client sends is broadcast to all clients,    *)
(* one of which is the proxy's own, and that one publishes it on Redis; a  *)
(* message from Redis is broadcast.  Both ways come back to the proxy, and *)
(* two collections of the MaxSize newest messages keep it from sending a   *)
(* message round again.                                                    *)
(*                                                                         *)
(* A message stands for its uuid, channel and text; messages that cannot   *)
(* be parsed are logged and dropped.  Redis and the websocket connections  *)
(* (external) keep the order of what they carry.                           *)
(***************************************************************************)
EXTENDS Integers, Sequences, FiniteSets

CONSTANTS
    ClientMsgs,     \* messages of websocket clients, the management interface
    PlatformMsgs,   \* messages published on Redis by other instances
    Unread,         \* those of them that cannot be parsed
    MaxSize,        \* ReceivedMessages::MAX_SIZE, 10000
    Window          \* how many of the newest messages may be on their way when another comes

ASSUME ProxyAssumption ==
    /\ ClientMsgs \cap PlatformMsgs = {} /\ Unread \subseteq PlatformMsgs
    /\ MaxSize \in Nat /\ Window \in Nat
    /\ 2 * Window < MaxSize

VARIABLES
    ws, redis,      \* the two ReceivedMessages
    toServer,       \* sent by clients, not yet handled by the server
    toProxy,        \* broadcast, not yet seen by the proxy's client
    fromRedis,      \* published, not yet seen by proxy_redis
    entered,        \* messages in the order they were sent (history)
    broadcasts, publishes,  \* message -> times the proxy sent it on (history)
    proxyPanic      \* add found no oldest entry

proxyVars == <<ws, redis, toServer, toProxy, fromRedis, entered, broadcasts, publishes, proxyPanic>>

Msgs == ClientMsgs \cup PlatformMsgs
Elems(s) == {s[i] : i \in DOMAIN s}
Empty == [hm |-> <<>>, first_id |-> 0, last_id |-> 0]

ProxyInit ==
    /\ ws = Empty /\ redis = Empty
    /\ toServer = <<>> /\ toProxy = <<>> /\ fromRedis = <<>>
    /\ entered = <<>>
    /\ broadcasts = [m \in Msgs |-> 0] /\ publishes = [m \in Msgs |-> 0]
    /\ proxyPanic = FALSE

-----------------------------------------------------------------------------
(* ReceivedMessages *)

Holds(c, m) == m \in DOMAIN c.hm

\* hm.insert: a message that is there already gets a new id.
Inserted(c, m) ==
    [c EXCEPT !.hm = [k \in DOMAIN @ \cup {m} |-> IF k = m THEN c.last_id ELSE @[k]],
              !.last_id = @ + 1]

Overfull(c) == Cardinality(DOMAIN c.hm) > MaxSize
Oldest(c) == {m \in DOMAIN c.hm : c.hm[m] = c.first_id}

\* Mutant: first_id stays where it is.
TrimmedStill(c) ==
    IF Overfull(c) THEN [c EXCEPT !.hm = [m \in DOMAIN @ \ Oldest(c) |-> @[m]]] ELSE c

Trimmed(c) ==
    IF Overfull(c)
    THEN [c EXCEPT !.hm = [m \in DOMAIN @ \ Oldest(c) |-> @[m]], !.first_id = @ + 1]
    ELSE c

\* "No entry in the `HashMap` where value == `first_id`!"
AddPanics(c, m) == Overfull(Inserted(c, m)) /\ Oldest(Inserted(c, m)) = {}
Add(c, m) == Trimmed(Inserted(c, m))

-----------------------------------------------------------------------------
(* The senders around the proxy *)

OnTheWay(m) ==
    \/ m \in Elems(toServer) \/ m \in Elems(toProxy) \/ m \in Elems(fromRedis)

\* The next message is sent when all but the Window newest have got round.
Timely == \A i \in DOMAIN entered : OnTheWay(entered[i]) => Len(entered) - i < Window

ClientSends(m) ==
    /\ m \notin Elems(entered) /\ Timely
    /\ entered' = Append(entered, m)
    /\ toServer' = Append(toServer, m)
    /\ UNCHANGED <<ws, redis, toProxy, fromRedis, broadcasts, publishes, proxyPanic>>

PlatformPublishes(m) ==
    /\ m \notin Elems(entered) /\ Timely
    /\ entered' = Append(entered, m)
    /\ fromRedis' = Append(fromRedis, m)
    /\ UNCHANGED <<ws, redis, toServer, toProxy, broadcasts, publishes, proxyPanic>>

-----------------------------------------------------------------------------
(* The proxy's threads.  A thread that panics in add poisons the lock it holds. *)

Broadcast(m) ==
    /\ toProxy' = Append(toProxy, m)
    /\ broadcasts' = [broadcasts EXCEPT ![m] = @ + 1]

\* Mutant: the message is remembered and not sent on.
ServerHandlesQuietly ==
    /\ ~proxyPanic /\ toServer # <<>>
    /\ toServer' = Tail(toServer)
    /\ ws' = IF Holds(ws, Head(toServer)) THEN ws ELSE Add(ws, Head(toServer))
    /\ UNCHANGED <<redis, toProxy, fromRedis, entered, broadcasts, publishes, proxyPanic>>

\* WsServerHandler::on_message
ServerHandles ==
    /\ ~proxyPanic /\ toServer # <<>>
    /\ toServer' = Tail(toServer)
    /\ LET m == Head(toServer)
       IN  IF m \in Unread \/ Holds(ws, m)
           THEN UNCHANGED <<ws, toProxy, broadcasts, proxyPanic>>
           ELSE /\ proxyPanic' = AddPanics(ws, m)
                /\ ws' = Add(ws, m)
                /\ IF proxyPanic' THEN UNCHANGED <<toProxy, broadcasts>> ELSE Broadcast(m)
    /\ UNCHANGED <<redis, fromRedis, entered, publishes>>

\* WsProxy::on_message: publish with the collection locked.
ProxyHandles ==
    /\ ~proxyPanic /\ toProxy # <<>>
    /\ toProxy' = Tail(toProxy)
    /\ LET m == Head(toProxy)
       IN  IF Holds(redis, m)
           THEN UNCHANGED <<redis, fromRedis, publishes, proxyPanic>>
           ELSE /\ proxyPanic' = AddPanics(redis, m)
                /\ redis' = Add(redis, m)
                /\ IF proxyPanic' THEN UNCHANGED <<fromRedis, publishes>>
                   ELSE /\ fromRedis' = Append(fromRedis, m)
                        /\ publishes' = [publishes EXCEPT ![m] = @ + 1]
    /\ UNCHANGED <<ws, toServer, entered, broadcasts>>

\* Mutant: only the websocket's collection remembers a message from Redis.
RedisHandlesHalf ==
    /\ ~proxyPanic /\ fromRedis # <<>>
    /\ fromRedis' = Tail(fromRedis)
    /\ LET m == Head(fromRedis)
       IN  IF m \in Unread \/ Holds(ws, m)
           THEN UNCHANGED <<ws, toProxy, broadcasts>>
           ELSE ws' = Add(ws, m) /\ Broadcast(m)
    /\ UNCHANGED <<redis, toServer, entered, publishes, proxyPanic>>

\* proxy_redis: locks ws, then redis.
RedisHandles ==
    /\ ~proxyPanic /\ fromRedis # <<>>
    /\ fromRedis' = Tail(fromRedis)
    /\ LET m == Head(fromRedis)
       IN  IF m \in Unread \/ Holds(ws, m)
           THEN UNCHANGED <<ws, redis, toProxy, broadcasts, proxyPanic>>
           ELSE /\ proxyPanic' = (AddPanics(ws, m) \/ AddPanics(redis, m))
                /\ ws' = Add(ws, m)
                /\ redis' = Add(redis, m)
                /\ IF proxyPanic' THEN UNCHANGED <<toProxy, broadcasts>> ELSE Broadcast(m)
    /\ UNCHANGED <<toServer, entered, publishes>>

-----------------------------------------------------------------------------

ProxyNext ==
    \/ \E m \in ClientMsgs : ClientSends(m)
    \/ \E m \in PlatformMsgs : PlatformPublishes(m)
    \/ ServerHandles \/ ProxyHandles \/ RedisHandles

ProxySpec == ProxyInit /\ [][ProxyNext]_proxyVars

-----------------------------------------------------------------------------

(***************************************************************************)
(* The ids in a collection are first_id to last_id - 1, each once, and     *)
(* there are at most MaxSize: add finds its oldest entry when it trims,    *)
(* although it would overwrite the id of a message that is there already.  *)
(***************************************************************************)
IdsContiguous ==
    /\ ~proxyPanic
    /\ \A c \in {ws, redis} :
          /\ {c.hm[m] : m \in DOMAIN c.hm} = c.first_id .. (c.last_id - 1)
          /\ Cardinality(DOMAIN c.hm) <= MaxSize
          /\ Cardinality(DOMAIN c.hm) = c.last_id - c.first_id

(***************************************************************************)
(* No message goes round: each is broadcast at most once, and each reaches *)
(* Redis once, from its sender or from the proxy, although every one of    *)
(* them comes back to the proxy on the other side.                         *)
(***************************************************************************)
NoEcho ==
    /\ \A m \in Msgs : broadcasts[m] <= 1
    /\ \A m \in ClientMsgs : publishes[m] <= 1
    /\ \A m \in PlatformMsgs : publishes[m] = 0

(***************************************************************************)
(* Trimming never meets a hole, and what it forgets does not come back.    *)
(***************************************************************************)
ProxySound == IdsContiguous /\ NoEcho

(***************************************************************************)
(* A client's message arrives on Redis, and a message from Redis at the    *)
(* clients.                                                                *)
(***************************************************************************)
MessagesCross ==
    []<>(\A m \in Elems(entered) \ Unread :
            IF m \in ClientMsgs THEN publishes[m] = 1 ELSE broadcasts[m] = 1)
=============================================================================
