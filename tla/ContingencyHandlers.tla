------------------------ MODULE ContingencyHandlers ------------------------
(***************************************************************************)
(* The ContingencyHandlerManager of util/src/strategies.rs: handlers live  *)
(* in a vector, a map leads from their uuids to their places in it, and a  *)
(* second vector says who is to hear of which tickstream.                  *)
(*                                                                         *)
(* A handler is its uuid, and the n-th uuid is n; a tickstream is its      *)
(* index; both vectors are counted from 0 as in the code. What a handler   *)
(* does with a tick is its own.                                            *)
(***************************************************************************)
EXTENDS Integers, Sequences, FiniteSets

CONSTANTS
    MaxHandlers,        \* how many handlers are added
    TickstreamIndices   \* the tickstreams ticks may come from

ASSUME HandlersAssumption == MaxHandlers \in Nat /\ TickstreamIndices \subseteq Nat

VARIABLES
    hm, data,       \* Handlers
    subscriptions,  \* one row for every handler ever added
    manager,        \* "debug" or "release" while it runs, or how it panicked
    wanted,         \* uuid -> the tickstreams it was added for (history)
    heard           \* the handlers that got the last tick, and the ones it was due to (history)

handlerVars == <<hm, data, subscriptions, manager, wanted, heard>>

NoTick == [to |-> {}, due |-> {}]

Running == manager \in {"debug", "release"}

HandlersInit ==
    /\ hm = [u \in {} |-> 0] /\ data = <<>>
    /\ subscriptions = <<>>
    /\ manager \in {"debug", "release"}
    /\ wanted = <<>> /\ heard = NoTick

Panics(how) ==
    /\ manager' = how
    /\ UNCHANGED <<hm, data, subscriptions, wanted, heard>>

-----------------------------------------------------------------------------

\* Mutant: a handler that wants no stream gets no row.
AddHandlerUnsubscribed(streams) ==
    /\ Running /\ Len(wanted) < MaxHandlers
    /\ wanted' = Append(wanted, streams)
    /\ subscriptions' = IF streams = {} THEN subscriptions ELSE Append(subscriptions, streams)
    /\ hm' = [v \in DOMAIN hm \cup {Len(wanted')} |-> IF v \in DOMAIN hm THEN hm[v] ELSE Len(data)]
    /\ data' = Append(data, Len(wanted'))
    /\ manager' = IF manager = "debug" /\ Len(data') # Len(subscriptions') THEN "assert" ELSE manager
    /\ UNCHANGED heard

\* Handlers::insert in add_handler, and the debug_assert_eq! behind it.
AddHandler(streams) ==
    /\ Running /\ Len(wanted) < MaxHandlers
    /\ wanted' = Append(wanted, streams)
    /\ subscriptions' = Append(subscriptions, streams)
    /\ hm' = [v \in DOMAIN hm \cup {Len(wanted')} |-> IF v \in DOMAIN hm THEN hm[v] ELSE Len(data)]
    /\ data' = Append(data, Len(wanted'))
    /\ manager' = IF manager = "debug" /\ Len(data') # Len(subscriptions') THEN "assert" ELSE manager
    /\ UNCHANGED heard

\* Mutant: the place of the removed handler's successor is not corrected.
ShiftedLate(m, ix) == [v \in DOMAIN m |-> IF m[v] > ix + 1 THEN m[v] - 1 ELSE m[v]]

\* The places behind the removed one move up.
Shifted(m, ix) == [v \in DOMAIN m |-> IF m[v] > ix THEN m[v] - 1 ELSE m[v]]

\* Mutant: swap_remove, with the map kept in step.
RemoveHandlerSwapping(u) ==
    /\ Running /\ u \in DOMAIN hm
    /\ LET ix == hm[u]
           last == data[Len(data)]
       IN  /\ hm' = [v \in DOMAIN hm \ {u} |-> IF v = last THEN ix ELSE hm[v]]
           /\ data' = SubSeq([data EXCEPT ![ix + 1] = last], 1, Len(data) - 1)
    /\ UNCHANGED <<subscriptions, manager, wanted, heard>>

\* Handlers::remove: the row in subscriptions stays.
RemoveHandler(u) ==
    /\ Running /\ u \in DOMAIN hm
    /\ LET ix == hm[u]
       IN  /\ hm' = Shifted([v \in DOMAIN hm \ {u} |-> hm[v]], ix)
           /\ data' = SubSeq(data, 1, ix) \o SubSeq(data, ix + 2, Len(data))
    /\ UNCHANGED <<subscriptions, manager, wanted, heard>>

\* remove, get_mut and the indices by uuid unwrap: a handler that was removed before.
UnknownHandler(u) ==
    /\ Running /\ u \in DOMAIN wanted \ DOMAIN hm
    /\ Panics("unknown uuid")

\* subscriptions[data_ix] and every handler the row names must exist.
OutOfBounds(data_ix) ==
    data_ix < Len(subscriptions) =>
        \E ix \in subscriptions[data_ix + 1] : ix >= Len(data)

\* tick: the rows of the vector are read as if they were those of the tickstreams.
Tick(data_ix) ==
    /\ Running /\ ~OutOfBounds(data_ix)
    /\ heard' = [to  |-> {data[ix + 1] : ix \in subscriptions[data_ix + 1]},
                 due |-> {u \in DOMAIN hm : data_ix \in wanted[u]}]
    /\ UNCHANGED <<hm, data, subscriptions, manager, wanted>>

TickPanics(data_ix) ==
    /\ Running /\ OutOfBounds(data_ix)
    /\ Panics("out of bounds")

HandlersNext ==
    \/ \E streams \in SUBSET TickstreamIndices : AddHandler(streams)
    \/ \E u \in DOMAIN wanted : RemoveHandler(u) \/ UnknownHandler(u)
    \/ \E data_ix \in TickstreamIndices : Tick(data_ix) \/ TickPanics(data_ix)

HandlersSpec == HandlersInit /\ [][HandlersNext]_handlerVars

-----------------------------------------------------------------------------
(* Properties *)

(***************************************************************************)
(* However handlers come and go, every uuid leads to its own handler and   *)
(* every handler has its uuid: remove_handler and get_mut_handler never    *)
(* reach a neighbour.                                                      *)
(***************************************************************************)
UuidsLeadToHandlers ==
    /\ Cardinality(DOMAIN hm) = Len(data)
    /\ \A u \in DOMAIN hm : hm[u] < Len(data) /\ data[hm[u] + 1] = u

(***************************************************************************)
(* The handlers "are evaluated in order every tick": the vector holds the  *)
(* ones that are left in the order in which they were added.               *)
(***************************************************************************)
HandlersInOrder == \A i, j \in DOMAIN data : i < j => data[i] < data[j]

(***************************************************************************)
(* Whose rows the vector of subscriptions holds: a row for every handler   *)
(* ever added, in that order, so that rows and handlers belong together up *)
(* to the place of the first removal, and behind it every handler is one   *)
(* with another's row.  (add_handler asserts that they are equally many:   *)
(* that fails at the first addition after a removal.)                      *)
(***************************************************************************)
RowsFollowAdditions ==
    /\ subscriptions = wanted
    /\ \A i, j \in DOMAIN data : i <= j /\ data[j] = j => data[i] = i
    /\ manager = "assert" => Len(data) < Len(wanted)

(***************************************************************************)
(* Vector, map and rows over any sequence of insertions and removals.      *)
(***************************************************************************)
HandlersSound == UuidsLeadToHandlers /\ HandlersInOrder /\ RowsFollowAdditions

(***************************************************************************)
(* tick "passes on the message to all subscribed ContingencyHandlers".     *)
(***************************************************************************)
SubscribersHear == heard.to = heard.due
=============================================================================
