------------------------------ MODULE WorkPool ------------------------------
(***************************************************************************)
(* What a pool of worker threads behind a queue promises its users, and    *)
(* what it does not: a task is worked on at most once, by one of at most   *)
(* Capacity workers, and what became of it is final.  A task may be lost,  *)
(* with the thread that submits it or with the worker it was meant for.    *)
(***************************************************************************)
EXTENDS Integers, FiniteSets

CONSTANTS
    Tasks,
    Capacity    \* the number of workers

VARIABLE status \* task -> how far it is

Outcomes == {"done", "lost"}
Running == {t \in Tasks : status[t] = "running"}

PoolInit == status = [t \in Tasks |-> "new"]

Move(t, from, to) == status[t] \in from /\ status' = [status EXCEPT ![t] = to]

Accept(t) == Move(t, {"new"}, "waiting")

Start(t) == Cardinality(Running) < Capacity /\ Move(t, {"new", "waiting"}, "running")

Finish(t) == Move(t, {"running"}, "done")

Lose(t) == Move(t, {"new", "waiting", "running"}, "lost")

PoolNext == \E t \in Tasks : Accept(t) \/ Start(t) \/ Finish(t) \/ Lose(t)

PoolSpec == PoolInit /\ [][PoolNext]_status
=============================================================================
