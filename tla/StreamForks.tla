---------------------------- MODULE StreamForks ----------------------------
(***************************************************************************)
(* The streams a SimBrokerClient hands out (broker_shims/simbroker/src/    *)
(* client.rs).  A stream can be consumed once, so sub_ticks and get_stream *)
(* give away the stream the client holds, mapped to send a copy of every   *)
(* message into a new channel(0), and keep that channel's receiver for the *)
(* next caller.  The streams form a chain: whoever consumes one feeds the  *)
(* next, if the AtomicBool between them says that it has been given away.  *)
(* init_sim_loop forks every stream once more and consumes it in a thread. *)
(*                                                                         *)
(* The broker and the methods of the client run in one thread, the caller; *)
(* every consumer is a thread of its own.  A futures channel(0) holds one  *)
(* message of its one sender.  push_msg sends nothing: its body is         *)
(* commented out.                                                          *)
(***************************************************************************)
EXTENDS Integers, Sequences, FiniteSets

CONSTANTS
    TickSymbols,    \* symbols that may have a tickstream
    Pushstream,     \* the stream of broker messages
    MaxLinks,       \* stream -> the length of its chain up to which it is given away
    MaxSent         \* ticks the broker sends

ASSUME ForksAssumption ==
    /\ Pushstream \notin TickSymbols /\ MaxSent \in Nat
    /\ MaxLinks \in [TickSymbols \cup {Pushstream} -> Nat]

VARIABLES
    registered,     \* the symbols of the broker's settings
    chain,          \* stream -> its links, the broker's own channel first
    tailFlag,       \* stream -> the AtomicBool of the stream the client holds
    raised,         \* stream -> the AtomicBools that are true
    caller,         \* what the caller is doing: [pc, stream]
    unforked,       \* symbols init_sim_loop has still to fork
    handed,         \* tails sent to the consumer thread and not yet received
    in_loop,
    sent            \* stream -> ticks the broker sent

forkVars == <<registered, chain, tailFlag, raised, caller, unforked, handed, in_loop, sent>>

Forkable == registered \cup {Pushstream}

\* A channel and the one who consumes it: the message at hand, the first and the last it
\* got, their number, and the AtomicBool that guards the copy to the next link.
NewLink == [by |-> "held", chan |-> <<>>, hand |-> 0, first |-> 0, last |-> 0, n |-> 0, gate |-> 0]

Idle == [pc |-> "idle", stream |-> Pushstream]

ForksInit ==
    /\ registered \in SUBSET TickSymbols
    /\ chain = [s \in Forkable |-> <<NewLink>>]
    /\ tailFlag = [s \in Forkable |-> 0]
    /\ raised = [s \in Forkable |-> {}]
    /\ caller = Idle
    /\ unforked = {} /\ handed = 0 /\ in_loop = FALSE
    /\ sent = [s \in Forkable |-> 0]

\* The held link of s gets a consumer and, behind the given AtomicBool, a successor.
ForkedTo(s, by, flag) ==
    [chain EXCEPT ![s] = Append([@ EXCEPT ![Len(@)].by = by, ![Len(@)].gate = flag], NewLink)]

-----------------------------------------------------------------------------
(* The methods of the client, and send_client in the broker's loop *)

\* sub_ticks, and get_stream when s is the Pushstream: the AtomicBool of the stream that
\* is given away becomes true, its successor gets a new one.
SubTicks(s) ==
    /\ caller.pc = "idle" /\ Len(chain[s]) < MaxLinks[s]
    /\ chain' = ForkedTo(s, "client", Len(chain[s]))
    /\ tailFlag' = [tailFlag EXCEPT ![s] = Len(chain[s])]
    /\ raised' = [raised EXCEPT ![s] = @ \cup {tailFlag[s]}]
    /\ UNCHANGED <<registered, caller, unforked, handed, in_loop, sent>>

\* init_sim_loop, called once, forks the Pushstream; old and new fork share one AtomicBool.
InitSimLoop ==
    /\ caller.pc = "idle" /\ ~in_loop
    /\ chain' = ForkedTo(Pushstream, "thread", tailFlag[Pushstream])
    /\ caller' = [caller EXCEPT !.pc = "fork"]
    /\ unforked' = registered
    /\ UNCHANGED <<registered, tailFlag, raised, handed, in_loop, sent>>

\* Mutant: init_sim_loop sets the AtomicBool, as sub_ticks does.
ForkTickstreamRaised(s) ==
    /\ caller.pc = "fork" /\ s \in unforked
    /\ chain' = ForkedTo(s, "thread", tailFlag[s])
    /\ raised' = [raised EXCEPT ![s] = @ \cup {tailFlag[s]}]
    /\ caller' = [pc |-> "hand", stream |-> s]
    /\ unforked' = unforked \ {s}
    /\ UNCHANGED <<registered, tailFlag, handed, in_loop, sent>>

\* Then every tickstream, in the order of the HashMap's keys ...
ForkTickstream(s) ==
    /\ caller.pc = "fork" /\ s \in unforked
    /\ chain' = ForkedTo(s, "thread", tailFlag[s])
    /\ caller' = [pc |-> "hand", stream |-> s]
    /\ unforked' = unforked \ {s}
    /\ UNCHANGED <<registered, tailFlag, raised, handed, in_loop, sent>>

\* Mutant: a channel(0) without the slot of its sender.
HandTailRendezvous ==
    /\ caller.pc = "hand" /\ in_loop
    /\ handed' = handed + 1
    /\ caller' = [caller EXCEPT !.pc = "fork"]
    /\ UNCHANGED <<registered, chain, tailFlag, raised, unforked, in_loop, sent>>

\* ... and hands its tail to a thread that does not exist yet, through a channel(0).
HandTail ==
    /\ caller.pc = "hand" /\ handed = 0
    /\ handed' = handed + 1
    /\ caller' = [caller EXCEPT !.pc = "fork"]
    /\ UNCHANGED <<registered, chain, tailFlag, raised, unforked, in_loop, sent>>

\* The threads that consume the tails are spawned last.
SpawnConsumers ==
    /\ caller.pc = "fork" /\ unforked = {}
    /\ caller' = Idle /\ in_loop' = TRUE
    /\ handed' = 0
    /\ UNCHANGED <<registered, chain, tailFlag, raised, unforked, sent>>

\* A ClientTick of the simulation loop.
ClientTick(s) ==
    /\ caller.pc = "idle" /\ in_loop
    /\ s \in registered /\ sent[s] < MaxSent
    /\ caller' = [pc |-> "send", stream |-> s]
    /\ UNCHANGED <<registered, chain, tailFlag, raised, unforked, handed, in_loop, sent>>

\* Mutant: a channel(1).
RoomForTwo(s, i) == Len(chain[s][i].chan) < 2

Room(s, i) == Len(chain[s][i].chan) = 0

\* send_client waits for room; it panics when no one is left to consume the stream.
SendClient ==
    LET s == caller.stream
        gone == chain[s][1].by = "gone"
    IN  /\ caller.pc = "send"
        /\ gone \/ Room(s, 1)
        /\ sent' = IF gone THEN sent ELSE [sent EXCEPT ![s] = @ + 1]
        /\ chain' = IF gone THEN chain ELSE [chain EXCEPT ![s][1].chan = Append(@, sent[s] + 1)]
        /\ caller' = IF gone THEN [caller EXCEPT !.pc = "panicked"] ELSE Idle
        /\ UNCHANGED <<registered, tailFlag, raised, unforked, handed, in_loop>>

-----------------------------------------------------------------------------
(* The consumers: clients, and the threads of init_sim_loop *)

Consumed(s, i) == chain[s][i].by = "client" \/ (chain[s][i].by = "thread" /\ in_loop)

Take(s, i) ==
    /\ Consumed(s, i)
    /\ chain[s][i].hand = 0 /\ chain[s][i].chan # <<>>
    /\ chain' = [chain EXCEPT ![s][i].hand = Head(chain[s][i].chan), ![s][i].chan = Tail(@)]
    /\ UNCHANGED <<registered, tailFlag, raised, caller, unforked, handed, in_loop, sent>>

Got(link) ==
    [link EXCEPT !.hand = 0, !.n = @ + 1, !.last = link.hand,
                 !.first = IF link.n = 0 THEN link.hand ELSE @]

\* Mutant: try_send, a full fork misses the message.
CopyOnTrying(s, i) ==
    /\ Consumed(s, i) /\ chain[s][i].hand # 0
    /\ chain' = IF chain[s][i].gate \in raised[s] /\ Room(s, i + 1)
                THEN [chain EXCEPT ![s][i] = Got(@), ![s][i + 1].chan = Append(@, chain[s][i].hand)]
                ELSE [chain EXCEPT ![s][i] = Got(@)]
    /\ UNCHANGED <<registered, tailFlag, raised, caller, unforked, handed, in_loop, sent>>

\* The mapped closure: once the next link was given away, a copy has to get into its
\* channel before the consumer gets its message; the unwrap fails when it was dropped.
CopyOn(s, i) ==
    LET copy == chain[s][i].gate \in raised[s]
        gone == chain[s][i + 1].by = "gone"
    IN  /\ Consumed(s, i) /\ chain[s][i].hand # 0
        /\ copy => gone \/ Room(s, i + 1)
        /\ chain' = CASE copy /\ gone -> [chain EXCEPT ![s][i].by = "gone"]
                      [] copy /\ ~gone -> [chain EXCEPT ![s][i] = Got(@),
                                              ![s][i + 1].chan = Append(@, chain[s][i].hand)]
                      [] OTHER -> [chain EXCEPT ![s][i] = Got(@)]
        /\ UNCHANGED <<registered, tailFlag, raised, caller, unforked, handed, in_loop, sent>>

\* A client drops its stream.
DropStream(s, i) ==
    /\ chain[s][i].by = "client"
    /\ chain' = [chain EXCEPT ![s][i].by = "gone"]
    /\ UNCHANGED <<registered, tailFlag, raised, caller, unforked, handed, in_loop, sent>>

ClientMethod ==
    \/ \E s \in Forkable : SubTicks(s) \/ ClientTick(s)
    \/ InitSimLoop

CallerStep ==
    \/ \E s \in Forkable : ForkTickstream(s)
    \/ HandTail \/ SpawnConsumers \/ SendClient

Consume(s, i) == Take(s, i) \/ CopyOn(s, i)

ForksNext ==
    \/ ClientMethod \/ CallerStep
    \/ \E s \in Forkable : \E i \in DOMAIN chain[s] : Consume(s, i) \/ DropStream(s, i)

ForksSpec == ForksInit /\ [][ForksNext]_forkVars

-----------------------------------------------------------------------------
(* Properties *)

\* Streams the client gave away, and the ones their receivers dropped.
Dropped == \E s \in Forkable : \E i \in DOMAIN chain[s] : chain[s][i].by = "gone"

(***************************************************************************)
(* A consumer sees every tick once and in order from the first one it gets *)
(* on, however late it subscribed and however slow those behind it are.    *)
(***************************************************************************)
ForksUnbroken ==
    \A s \in Forkable : \A i \in DOMAIN chain[s] :
        LET l == chain[s][i] IN l.n > 0 => l.last = l.first + l.n - 1

(***************************************************************************)
(* What the channels really bound: along a chain of clients the broker is  *)
(* never more than two ticks per link ahead of the slowest of them (one in *)
(* its channel, one in its hand).  Less than the comment of send_client    *)
(* says, which "will block until the client consumes the tick": a send is  *)
(* over as soon as the tick is queued.                                     *)
(***************************************************************************)
BrokerHeldBack ==
    \A s \in Forkable : \A i \in DOMAIN chain[s] :
        LET l == chain[s][i] IN l.n > 0 /\ l.by # "gone" => sent[s] <= l.last + 2 * i

(***************************************************************************)
(* What consumers see, and how far the broker runs ahead of them.          *)
(***************************************************************************)
ForksSound == ForksUnbroken /\ BrokerHeldBack

(***************************************************************************)
(* As long as clients drive the streams they were given and drop none, the *)
(* broker is never stuck in a send: a fork that nobody took is not sent to *)
(* ("will cause the ENTIRE future tree to block").                         *)
(***************************************************************************)
NoForkStalls == []<>(caller.pc # "send" \/ Dropped)

(***************************************************************************)
(* With at most one symbol init_sim_loop returns.  (With two it waits for  *)
(* a thread that it would spawn itself a few lines further down.)          *)
(***************************************************************************)
OneSymbolStarts == []<>(caller.pc \notin {"fork", "hand"} \/ Cardinality(registered) > 1)

(***************************************************************************)
(* With one symbol, and clients that drive and keep their streams, the     *)
(* thread that runs the broker is never blocked for good.                  *)
(***************************************************************************)
CallerNeverStuck == NoForkStalls /\ OneSymbolStarts
=============================================================================
