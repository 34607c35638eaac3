------------------------- MODULE QueryServer_proofs -------------------------
(***************************************************************************)
(* Proofs about the QueryServer for any number of connections and queries. *)
(*                                                                         *)
(* QueryInv is inductive.  Its parts say where the sender of a worker is,  *)
(* whom a worker's channel and oneshot belong to, and where a query is,    *)
(* with places that exclude each other.  The bound on overtaking needs a   *)
(* better bound than the one that is stated: the number of busy workers,   *)
(* which none of them leaves while the query is queued.                    *)
(***************************************************************************)
EXTENDS QueryServer, QueueLemmas

\* The thread spawned for query q has the sender it was given.
Carries(q) == courier[q] \in {"send", "wait", "return"}

\* A worker's sender is in conn_queue once or with one thread, if it is not lost.
SendersKept ==
    /\ Unrepeated(conn_queue)
    /\ \A q \in Queries : Carries(q) => sender[q] \notin Elements(conn_queue)
    /\ \A p, q \in Queries : Carries(p) /\ Carries(q) /\ sender[p] = sender[q] => p = q
    /\ \A w \in Conns : worker[w] # "dead" /\ ~conn_poisoned =>
          w \in Elements(conn_queue) \/ \E q \in Queries : Carries(q) /\ sender[q] = w

\* A worker's channel and its oneshot belong to the thread that has its sender and waits.
CouriersWait ==
    \A w \in Conns :
        /\ inbox[w] # NoQuery => /\ courier[inbox[w]] = "wait" /\ sender[inbox[w]] = w
                                 /\ worker[w] \in {"connecting", "idle"}
        /\ worker[w] \in {"execute", "drain"} =>
              done_tx[w] # NoQuery /\ courier[done_tx[w]] = "wait" /\ sender[done_tx[w]] = w
        /\ (task[w] # NoQuery) <=> (worker[w] = "execute")

\* A query is in one place: queued, with its thread, in a channel, executing or executed.
QueriesKept ==
    /\ Unrepeated(query_queue)
    /\ \A q \in Elements(query_queue) : courier[q] = "none" /\ q \notin Elements(executed)
    /\ \A w \in Conns : task[w] # NoQuery =>
          /\ task[w] \notin Elements(query_queue) \cup Elements(executed)
          /\ courier[task[w]] # "send"
          /\ \A v \in Conns : inbox[v] # task[w] /\ (task[v] = task[w] => v = w)
    /\ \A w \in Conns : inbox[w] \notin Elements(executed)
    /\ \A q \in Queries : courier[q] = "send" => q \notin Elements(executed)
    /\ \A q \in Queries : asker[q] # "done" =>
          /\ q \notin Elements(query_queue) \cup Elements(executed)
          /\ courier[q] = "none"
          /\ \A w \in Conns : task[w] # q

\* Workers that may not report idle while a query is queued.
Busy == {w \in Conns : worker[w] \in {"execute", "drain"}}

\* Each of the dispatches that overtook a queued query keeps its worker busy.
OvertakingCounted ==
    \A q \in Queries :
        /\ asker[q] # "done" => overtaken[q] = 0
        /\ q \in Elements(query_queue) => overtaken[q] <= Cardinality(Busy)

QueryInv ==
    /\ QueryTypeOK
    /\ SendersKept
    /\ CouriersWait
    /\ QueriesKept
    /\ OvertakingCounted

-----------------------------------------------------------------------------
(* Types and senders *)

(***************************************************************************)
(* A step keeps the types.                                                 *)
(***************************************************************************)
LEMMA QueryTypeStep ==
    ASSUME QueryTypeOK, CouriersWait, [QueryNext]_queryVars
    PROVE  QueryTypeOK'
<1>a. /\ asker \in [Queries -> {"new", "enqueue", "take", "done", "panicked"}]
      /\ courier \in [Queries -> {"none", "send", "wait", "return", "ended", "panicked"}]
      /\ sender \in [Queries -> Conns]
  BY DEF QueryTypeOK
<1>b. /\ query_queue \in Seq(Queries) /\ conn_queue \in Seq(Conns)
      /\ conn_poisoned \in BOOLEAN /\ executed \in Seq(Queries)
  BY DEF QueryTypeOK
<1>c. /\ worker \in [Conns -> {"connecting", "idle", "execute", "drain", "dead"}]
      /\ inbox \in [Conns -> Queries \cup {NoQuery}]
      /\ task \in [Conns -> Queries \cup {NoQuery}]
      /\ done_tx \in [Conns -> Queries \cup {NoQuery}]
      /\ overtaken \in [Queries -> Nat]
  BY DEF QueryTypeOK
<1>1. ASSUME NEW q \in Queries, CheckConns(q) PROVE QueryTypeOK'
  BY <1>1 DEF CheckConns, QueryTypeOK
<1>2. ASSUME NEW q \in Queries, EnqueueQuery(q) PROVE QueryTypeOK'
  <2>1. query_queue' \in Seq(Queries)
    BY <1>2, <1>b, AppendElements DEF EnqueueQuery
  <2> QED BY <1>2, <2>1 DEF EnqueueQuery, QueryTypeOK
<1>3. ASSUME NEW q \in Queries, TakeConn(q) PROVE QueryTypeOK'
  <2>1. CASE conn_poisoned \/ conn_queue = <<>>
    BY <1>3, <2>1 DEF TakeConn, QueryTypeOK
  <2>2. CASE ~(conn_poisoned \/ conn_queue = <<>>)
    <3>1. Head(conn_queue) \in Conns /\ Tail(conn_queue) \in Seq(Conns)
      BY <1>b, <2>2, TailElements
    <3>2. conn_queue' \in Seq(Conns) /\ sender' \in [Queries -> Conns]
      BY <1>3, <1>a, <2>2, <3>1 DEF TakeConn
    <3> QED BY <1>3, <2>2, <3>2 DEF TakeConn, QueryTypeOK
  <2> QED BY <2>1, <2>2
<1>4. ASSUME NEW q \in Queries, SendQuery(q) PROVE QueryTypeOK'
  <2>1. courier' \in [Queries -> {"none", "send", "wait", "return", "ended", "panicked"}]
    BY <1>4, <1>a DEF SendQuery
  <2>2. inbox' \in [Conns -> Queries \cup {NoQuery}]
    BY <1>4, <1>a, <1>c DEF SendQuery
  <2> QED BY <1>4, <2>1, <2>2 DEF SendQuery, QueryTypeOK
<1>5. ASSUME NEW q \in Queries, ReturnSender(q) PROVE QueryTypeOK'
  <2>1. conn_queue' \in Seq(Conns)
    BY <1>5, <1>a, <1>b, AppendElements DEF ReturnSender
  <2> QED BY <1>5, <2>1 DEF ReturnSender, QueryTypeOK
<1>6. ASSUME NEW w \in Conns, ReceiveQuery(w) PROVE QueryTypeOK'
  <2>1. overtaken' \in [Queries -> Nat]
    BY <1>6, <1>c DEF ReceiveQuery
  <2> QED BY <1>6, <2>1 DEF ReceiveQuery, QueryTypeOK
<1>7. ASSUME NEW w \in Conns, ExecuteQuery(w) PROVE QueryTypeOK'
  <2>1. task[w] \in Queries
    BY <1>7, <1>c DEF ExecuteQuery, CouriersWait
  <2>2. executed' \in Seq(Queries)
    BY <1>7, <1>b, <2>1, AppendElements DEF ExecuteQuery
  <2> QED BY <1>7, <2>2 DEF ExecuteQuery, QueryTypeOK
<1>8. ASSUME NEW w \in Conns, TryGetNewQuery(w) PROVE QueryTypeOK'
  <2>1. Head(query_queue) \in Queries /\ Tail(query_queue) \in Seq(Queries)
    BY <1>8, <1>b, TailElements DEF TryGetNewQuery
  <2> QED BY <1>8, <2>1 DEF TryGetNewQuery, QueryTypeOK
<1>9. ASSUME NEW w \in Conns, CompleteQuery(w) \/ Connect(w) PROVE QueryTypeOK'
  BY <1>9 DEF CompleteQuery, Connect, QueryTypeOK
<1>10. ASSUME NEW w \in Conns, ConnectFails(w) PROVE QueryTypeOK'
  <2>1. courier' \in [Queries -> {"none", "send", "wait", "return", "ended", "panicked"}]
    BY <1>10, <1>a DEF ConnectFails
  <2> QED BY <1>10, <2>1 DEF ConnectFails, QueryTypeOK
<1>11. CASE UNCHANGED queryVars
  BY <1>11 DEF queryVars, QueryTypeOK
<1> QED BY <1>1, <1>2, <1>3, <1>4, <1>5, <1>6, <1>7, <1>8, <1>9, <1>10, <1>11
        DEF QueryNext, ExecuteCall, Courier, QueryWork, Connecting

(***************************************************************************)
(* Senders stay where they are, and the threads that have them go on.      *)
(***************************************************************************)
LEMMA SendersStay ==
    ASSUME SendersKept, UNCHANGED <<conn_queue, conn_poisoned, sender>>,
           \A q \in Queries : Carries(q)' = Carries(q),
           \A w \in Conns : worker[w] = "dead" => worker'[w] = "dead"
    PROVE  SendersKept'
BY DEF SendersKept

(***************************************************************************)
(* A step keeps the senders.                                               *)
(***************************************************************************)
LEMMA SendersStep ==
    ASSUME QueryTypeOK, SendersKept, CouriersWait, QueriesKept, [QueryNext]_queryVars
    PROVE  SendersKept'
<1>a. /\ courier \in [Queries -> {"none", "send", "wait", "return", "ended", "panicked"}]
      /\ sender \in [Queries -> Conns]
      /\ conn_queue \in Seq(Conns)
      /\ worker \in [Conns -> {"connecting", "idle", "execute", "drain", "dead"}]
      /\ done_tx \in [Conns -> Queries \cup {NoQuery}]
  BY DEF QueryTypeOK
<1>b. /\ Unrepeated(conn_queue)
      /\ \A q \in Queries : Carries(q) => sender[q] \notin Elements(conn_queue)
      /\ \A p, q \in Queries : Carries(p) /\ Carries(q) /\ sender[p] = sender[q] => p = q
      /\ \A w \in Conns : worker[w] # "dead" /\ ~conn_poisoned =>
            w \in Elements(conn_queue) \/ \E q \in Queries : Carries(q) /\ sender[q] = w
  BY DEF SendersKept
<1>1. ASSUME NEW q \in Queries, CheckConns(q) \/ EnqueueQuery(q) PROVE SendersKept'
  BY <1>1, SendersStay DEF CheckConns, EnqueueQuery, Carries
<1>2. ASSUME NEW q \in Queries, TakeConn(q) PROVE SendersKept'
  <2>0. courier[q] = "none"
    BY <1>2 DEF TakeConn, QueriesKept
  <2>1. CASE conn_poisoned \/ conn_queue = <<>>
    BY <1>2, <2>1 DEF TakeConn, SendersKept, Carries
  <2>2. CASE ~(conn_poisoned \/ conn_queue = <<>>)
    <3>0. Head(conn_queue) \in Conns
      BY <1>a, <2>2, TailElements
    <3>1. PICK w \in Conns : w = Head(conn_queue)
      BY <3>0
    <3>a. conn_queue' = Tail(conn_queue)
      BY <1>2, <2>2 DEF TakeConn
    <3>2. /\ Elements(conn_queue) = Elements(conn_queue') \cup {w}
          /\ Unrepeated(conn_queue') /\ w \notin Elements(conn_queue')
      BY <1>a, <1>b, <2>2, <3>1, <3>a, TailElements
    <3>3. /\ courier'[q] = "send" /\ sender'[q] = w
          /\ \A p \in Queries : p # q => courier'[p] = courier[p] /\ sender'[p] = sender[p]
          /\ UNCHANGED <<worker, conn_poisoned>>
      BY <1>2, <1>a, <2>2, <3>1 DEF TakeConn
    <3>4. /\ Carries(q)' /\ ~Carries(q)
          /\ \A p \in Queries : p # q => Carries(p)' = Carries(p)
      BY <2>0, <3>3 DEF Carries
    <3>5. \A p, r \in Queries : Carries(p)' /\ Carries(r)' /\ sender'[p] = sender'[r] => p = r
      BY <1>b, <3>2, <3>3, <3>4
    <3> QED BY <1>b, <3>2, <3>3, <3>4, <3>5 DEF SendersKept
  <2> QED BY <2>1, <2>2
<1>3. ASSUME NEW q \in Queries, SendQuery(q) PROVE SendersKept'
  <2>1. /\ Carries(q) /\ UNCHANGED <<conn_queue, conn_poisoned, sender, worker>>
        /\ \A p \in Queries : p # q => courier'[p] = courier[p]
    BY <1>3, <1>a DEF SendQuery, Carries
  <2>2. CASE worker[sender[q]] # "dead"
    <3>1. courier'[q] = "wait"
      BY <1>3, <1>a, <2>2 DEF SendQuery
    <3>2. \A p \in Queries : Carries(p)' = Carries(p)
      BY <2>1, <3>1 DEF Carries
    <3> QED BY <2>1, <3>2, SendersStay
  <2>3. CASE worker[sender[q]] = "dead"
    <3>1. courier'[q] = "panicked"
      BY <1>3, <1>a, <2>3 DEF SendQuery
    <3>2. ~Carries(q)' /\ \A p \in Queries : p # q => Carries(p)' = Carries(p)
      BY <2>1, <3>1 DEF Carries
    <3> QED BY <1>b, <2>1, <2>3, <3>2 DEF SendersKept
  <2> QED BY <2>2, <2>3
<1>4. ASSUME NEW q \in Queries, ReturnSender(q) PROVE SendersKept'
  <2>1. /\ courier[q] = "return" /\ courier'[q] = "ended"
        /\ UNCHANGED <<conn_poisoned, sender, worker>>
        /\ \A p \in Queries : p # q => courier'[p] = courier[p]
    BY <1>4, <1>a DEF ReturnSender
  <2>2. Carries(q) /\ ~Carries(q)' /\ \A p \in Queries : p # q => Carries(p)' = Carries(p)
    BY <2>1 DEF Carries
  <2>3. CASE conn_poisoned
    <3>1. UNCHANGED conn_queue
      BY <1>4, <2>3 DEF ReturnSender
    <3> QED BY <1>b, <2>1, <2>2, <2>3, <3>1 DEF SendersKept
  <2>4. CASE ~conn_poisoned
    <3>1. sender[q] \in Conns /\ sender[q] \notin Elements(conn_queue)
      BY <1>a, <1>b, <2>2
    <3>2. /\ Elements(conn_queue') = Elements(conn_queue) \cup {sender[q]}
          /\ Unrepeated(conn_queue')
      BY <1>4, <1>a, <1>b, <2>4, <3>1, AppendElements DEF ReturnSender
    <3> QED BY <1>b, <2>1, <2>2, <3>2 DEF SendersKept
  <2> QED BY <2>3, <2>4
<1>5. ASSUME NEW w \in Conns, ReceiveQuery(w) \/ ExecuteQuery(w) \/ TryGetNewQuery(w) \/ Connect(w)
      PROVE  SendersKept'
  <2>1. /\ UNCHANGED <<conn_queue, conn_poisoned, sender, courier>>
        /\ \A v \in Conns : worker[v] = "dead" => worker'[v] = "dead"
    BY <1>5, <1>a DEF ReceiveQuery, ExecuteQuery, TryGetNewQuery, Connect
  <2> QED BY <2>1, SendersStay DEF Carries
<1>6. ASSUME NEW w \in Conns, CompleteQuery(w) PROVE SendersKept'
  <2>1. /\ courier[done_tx[w]] = "wait" /\ courier' = [courier EXCEPT ![done_tx[w]] = "return"]
        /\ UNCHANGED <<conn_queue, conn_poisoned, sender>>
        /\ \A v \in Conns : worker[v] = "dead" => worker'[v] = "dead"
    BY <1>6, <1>a DEF CompleteQuery, CouriersWait
  <2>2. \A p \in Queries : Carries(p)' = Carries(p)
    BY <1>a, <2>1 DEF Carries
  <2> QED BY <2>1, <2>2, SendersStay
<1>7. ASSUME NEW w \in Conns, ConnectFails(w) PROVE SendersKept'
  <2>1. /\ UNCHANGED <<conn_queue, conn_poisoned, sender>>
        /\ \A v \in Conns : worker[v] = "dead" => worker'[v] = "dead"
    BY <1>7, <1>a DEF ConnectFails
  <2>2. \A p \in Queries : courier'[p] = IF inbox[w] = p THEN "return" ELSE courier[p]
    BY <1>7 DEF ConnectFails
  <2>3. \A p \in Queries : inbox[w] = p => courier[p] = "wait"
    BY QueryAssumption DEF CouriersWait
  <2>4. \A p \in Queries : Carries(p)' = Carries(p)
    BY <2>2, <2>3 DEF Carries
  <2> QED BY <2>1, <2>4, SendersStay
<1>8. CASE UNCHANGED queryVars
  BY <1>8, SendersStay DEF queryVars, Carries
<1> QED BY <1>1, <1>2, <1>3, <1>4, <1>5, <1>6, <1>7, <1>8
        DEF QueryNext, ExecuteCall, Courier, QueryWork, Connecting

-----------------------------------------------------------------------------
(* Channels and oneshots *)

\* What a worker's channel, oneshot and task belong to.
Waited(w) ==
    /\ inbox[w] # NoQuery => /\ courier[inbox[w]] = "wait" /\ sender[inbox[w]] = w
                             /\ worker[w] \in {"connecting", "idle"}
    /\ worker[w] \in {"execute", "drain"} =>
          done_tx[w] # NoQuery /\ courier[done_tx[w]] = "wait" /\ sender[done_tx[w]] = w
    /\ (task[w] # NoQuery) <=> (worker[w] = "execute")

(***************************************************************************)
(* A worker does not notice what happens to threads that do not wait.      *)
(***************************************************************************)
LEMMA WaitedOn ==
    ASSUME QueryTypeOK, NEW w \in Conns, Waited(w),
           worker'[w] = worker[w], inbox'[w] = inbox[w], task'[w] = task[w],
           done_tx'[w] = done_tx[w],
           \A q \in Queries : courier[q] = "wait" /\ sender[q] = w =>
                                  courier'[q] = "wait" /\ sender'[q] = w
    PROVE  Waited(w)'
<1>1. inbox[w] \in Queries \cup {NoQuery} /\ done_tx[w] \in Queries \cup {NoQuery}
  BY DEF QueryTypeOK
<1> QED BY <1>1 DEF Waited

(***************************************************************************)
(* A step keeps channels and oneshots with the threads that wait.          *)
(***************************************************************************)
LEMMA CouriersStep ==
    ASSUME QueryTypeOK, SendersKept, CouriersWait, QueriesKept, [QueryNext]_queryVars
    PROVE  CouriersWait'
<1>a. /\ courier \in [Queries -> {"none", "send", "wait", "return", "ended", "panicked"}]
      /\ sender \in [Queries -> Conns]
      /\ query_queue \in Seq(Queries)
      /\ worker \in [Conns -> {"connecting", "idle", "execute", "drain", "dead"}]
      /\ inbox \in [Conns -> Queries \cup {NoQuery}]
      /\ task \in [Conns -> Queries \cup {NoQuery}]
      /\ done_tx \in [Conns -> Queries \cup {NoQuery}]
  BY DEF QueryTypeOK
<1>b. \A w \in Conns : Waited(w)
  BY DEF CouriersWait, Waited
<1>c. \A p, q \in Queries :
        courier[p] = "wait" /\ courier[q] \in {"send", "wait"} /\ sender[p] = sender[q] => p = q
  BY DEF SendersKept, Carries
<1>d. ASSUME \A w \in Conns : Waited(w)' PROVE CouriersWait'
  BY <1>d DEF CouriersWait, Waited
<1>e. NoQuery \notin Queries
  BY QueryAssumption
<1>1. ASSUME UNCHANGED <<worker, inbox, task, done_tx>>,
             \A q \in Queries : courier[q] = "wait" => courier'[q] = "wait" /\ sender'[q] = sender[q]
      PROVE  CouriersWait'
  BY <1>1, <1>b, <1>d, WaitedOn
<1>2. ASSUME NEW q \in Queries, CheckConns(q) \/ EnqueueQuery(q) \/ ReturnSender(q)
      PROVE  CouriersWait'
  BY <1>1, <1>2, <1>a DEF CheckConns, EnqueueQuery, ReturnSender
<1>3. ASSUME NEW q \in Queries, TakeConn(q) PROVE CouriersWait'
  <2>1. courier[q] = "none"
    BY <1>3 DEF TakeConn, QueriesKept
  <2>2. \A p \in Queries : p # q => courier'[p] = courier[p] /\ sender'[p] = sender[p]
    BY <1>3, <1>a DEF TakeConn
  <2> QED BY <1>1, <1>3, <2>1, <2>2 DEF TakeConn
<1>4. ASSUME NEW q \in Queries, SendQuery(q) PROVE CouriersWait'
  <2>1. /\ courier[q] = "send" /\ UNCHANGED <<sender, worker, task, done_tx>>
        /\ \A p \in Queries : p # q => courier'[p] = courier[p]
    BY <1>4, <1>a DEF SendQuery
  <2>2. CASE worker[sender[q]] = "dead"
    BY <1>1, <1>4, <2>1, <2>2 DEF SendQuery
  <2>3. CASE worker[sender[q]] # "dead"
    <3>1. PICK w \in Conns : w = sender[q]
      BY <1>a
    <3>2. /\ courier'[q] = "wait" /\ inbox'[w] = q
          /\ \A v \in Conns : v # w => inbox'[v] = inbox[v]
      BY <1>4, <1>a, <2>3, <3>1 DEF SendQuery
    <3>3. ASSUME NEW v \in Conns, v # w PROVE Waited(v)'
      BY <1>b, <2>1, <3>2, <3>3, WaitedOn
    <3>4. worker[w] \notin {"execute", "drain"}
      <4> SUFFICES ASSUME worker[w] \in {"execute", "drain"} PROVE FALSE
        OBVIOUS
      <4>1. done_tx[w] \in Queries /\ courier[done_tx[w]] = "wait" /\ sender[done_tx[w]] = w
        BY <1>a, <1>b DEF Waited
      <4> QED BY <1>c, <2>1, <3>1, <4>1
    <3>5. Waited(w)'
      BY <1>a, <1>b, <1>e, <2>1, <2>3, <3>1, <3>2, <3>4 DEF Waited
    <3> QED BY <1>d, <3>3, <3>5
  <2> QED BY <2>2, <2>3
\* what a worker's own steps leave alone
<1>5. ASSUME NEW w \in Conns, UNCHANGED <<courier, sender>>,
             \A v \in Conns : v # w => /\ worker'[v] = worker[v] /\ inbox'[v] = inbox[v]
                                       /\ task'[v] = task[v] /\ done_tx'[v] = done_tx[v],
             Waited(w)'
      PROVE  CouriersWait'
  <2>1. ASSUME NEW v \in Conns, v # w PROVE Waited(v)'
    BY <1>5, <1>b, <2>1, WaitedOn
  <2> QED BY <1>5, <1>d, <2>1
<1>6. ASSUME NEW w \in Conns, ReceiveQuery(w) PROVE CouriersWait'
  <2>1. /\ inbox[w] # NoQuery /\ worker'[w] = "execute" /\ task'[w] = inbox[w]
        /\ done_tx'[w] = inbox[w] /\ inbox'[w] = NoQuery /\ UNCHANGED <<courier, sender>>
        /\ \A v \in Conns : v # w => /\ worker'[v] = worker[v] /\ inbox'[v] = inbox[v]
                                     /\ task'[v] = task[v] /\ done_tx'[v] = done_tx[v]
    BY <1>6, <1>a DEF ReceiveQuery
  <2>2. Waited(w)'
    BY <1>b, <2>1 DEF Waited
  <2> QED BY <1>5, <2>1, <2>2
<1>7. ASSUME NEW w \in Conns, ExecuteQuery(w) PROVE CouriersWait'
  <2>1. /\ worker[w] = "execute" /\ worker'[w] = "drain" /\ task'[w] = NoQuery
        /\ UNCHANGED <<courier, sender, inbox, done_tx>>
        /\ \A v \in Conns : v # w => worker'[v] = worker[v] /\ task'[v] = task[v]
    BY <1>7, <1>a DEF ExecuteQuery
  <2>2. Waited(w)'
    BY <1>b, <2>1 DEF Waited
  <2> QED BY <1>5, <2>1, <2>2
<1>8. ASSUME NEW w \in Conns, TryGetNewQuery(w) PROVE CouriersWait'
  <2>0. Head(query_queue) # NoQuery
    BY <1>8, <1>a, <1>e, TailElements DEF TryGetNewQuery
  <2>1. /\ worker[w] = "drain" /\ worker'[w] = "execute" /\ task'[w] # NoQuery
        /\ UNCHANGED <<courier, sender, inbox, done_tx>>
        /\ \A v \in Conns : v # w => worker'[v] = worker[v] /\ task'[v] = task[v]
    BY <1>8, <1>a, <2>0 DEF TryGetNewQuery
  <2>2. Waited(w)'
    BY <1>b, <2>1 DEF Waited
  <2> QED BY <1>5, <2>1, <2>2
<1>9. ASSUME NEW w \in Conns, CompleteQuery(w) PROVE CouriersWait'
  <2>1. /\ worker[w] = "drain" /\ worker'[w] = "idle" /\ UNCHANGED <<inbox, task, sender>>
        /\ \A v \in Conns : v # w => worker'[v] = worker[v] /\ done_tx'[v] = done_tx[v]
    BY <1>9, <1>a DEF CompleteQuery
  <2>2. PICK q \in Queries : q = done_tx[w] /\ courier[q] = "wait" /\ sender[q] = w
    BY <1>a, <1>b, <2>1 DEF Waited
  <2>3. \A p \in Queries : p # q => courier'[p] = courier[p]
    BY <1>9, <1>a, <2>2 DEF CompleteQuery
  <2>4. ASSUME NEW v \in Conns, v # w PROVE Waited(v)'
    BY <1>b, <2>1, <2>2, <2>3, <2>4, WaitedOn
  <2>5. Waited(w)'
    BY <1>b, <2>1 DEF Waited
  <2> QED BY <1>d, <2>4, <2>5
<1>10. ASSUME NEW w \in Conns, Connect(w) PROVE CouriersWait'
  <2>1. /\ worker[w] = "connecting" /\ worker'[w] = "idle"
        /\ UNCHANGED <<courier, sender, inbox, done_tx, task>>
        /\ \A v \in Conns : v # w => worker'[v] = worker[v]
    BY <1>10, <1>a DEF Connect
  <2>2. Waited(w)'
    BY <1>b, <2>1 DEF Waited
  <2> QED BY <1>5, <2>1, <2>2
<1>11. ASSUME NEW w \in Conns, ConnectFails(w) PROVE CouriersWait'
  <2>1. /\ worker[w] = "connecting" /\ worker'[w] = "dead" /\ inbox'[w] = NoQuery
        /\ UNCHANGED <<sender, done_tx, task>>
        /\ \A v \in Conns : v # w => worker'[v] = worker[v] /\ inbox'[v] = inbox[v]
        /\ \A q \in Queries : q # inbox[w] => courier'[q] = courier[q]
    BY <1>11, <1>a DEF ConnectFails
  <2>2. inbox[w] \in Queries => sender[inbox[w]] = w
    BY <1>b, <1>e DEF Waited
  <2>3. ASSUME NEW v \in Conns, v # w PROVE Waited(v)'
    BY <1>b, <2>1, <2>2, <2>3, WaitedOn
  <2>4. Waited(w)'
    BY <1>b, <2>1 DEF Waited
  <2> QED BY <1>d, <2>3, <2>4
<1>12. CASE UNCHANGED queryVars
  BY <1>1, <1>12 DEF queryVars
<1> QED BY <1>2, <1>3, <1>4, <1>6, <1>7, <1>8, <1>9, <1>10, <1>11, <1>12
        DEF QueryNext, ExecuteCall, Courier, QueryWork, Connecting

-----------------------------------------------------------------------------
(* Queries *)

(***************************************************************************)
(* A step keeps every query in one place.                                  *)
(***************************************************************************)
LEMMA QueriesStep ==
    ASSUME QueryTypeOK, SendersKept, CouriersWait, QueriesKept, [QueryNext]_queryVars
    PROVE  QueriesKept'
<1>a. /\ asker \in [Queries -> {"new", "enqueue", "take", "done", "panicked"}]
      /\ courier \in [Queries -> {"none", "send", "wait", "return", "ended", "panicked"}]
      /\ sender \in [Queries -> Conns]
      /\ query_queue \in Seq(Queries) /\ executed \in Seq(Queries)
  BY DEF QueryTypeOK
<1>b. /\ worker \in [Conns -> {"connecting", "idle", "execute", "drain", "dead"}]
      /\ inbox \in [Conns -> Queries \cup {NoQuery}]
      /\ task \in [Conns -> Queries \cup {NoQuery}]
      /\ done_tx \in [Conns -> Queries \cup {NoQuery}]
  BY DEF QueryTypeOK
<1>c. Elements(query_queue) \subseteq Queries /\ Elements(executed) \subseteq Queries
  BY <1>a, ElementsType
<1>d. \A w \in Conns : Waited(w)
  BY DEF CouriersWait, Waited
<1>e. NoQuery \notin Queries
  BY QueryAssumption
\* courier and asker may move in ways that QueriesKept does not see
<1>1. ASSUME UNCHANGED <<query_queue, executed, task, inbox>>,
             \A q \in Queries : /\ courier'[q] = "none" <=> courier[q] = "none"
                                /\ courier'[q] = "send" => courier[q] = "send"
                                /\ asker'[q] = "done" <=> asker[q] = "done"
      PROVE  QueriesKept'
  BY <1>1, <1>b, <1>c DEF QueriesKept
<1>2. ASSUME NEW q \in Queries, CheckConns(q) PROVE QueriesKept'
  <2>1. \A p \in Queries : asker'[p] = "done" <=> asker[p] = "done"
    BY <1>2, <1>a DEF CheckConns
  <2> QED BY <1>1, <1>2, <2>1 DEF CheckConns
<1>3. ASSUME NEW q \in Queries, EnqueueQuery(q) PROVE QueriesKept'
  <2>1. /\ asker[q] = "enqueue" /\ query_queue' = Append(query_queue, q)
        /\ UNCHANGED <<courier, inbox, task, executed>>
        /\ \A p \in Queries : p # q => asker'[p] = asker[p]
    BY <1>3, <1>a DEF EnqueueQuery
  <2>2. /\ q \notin Elements(query_queue) \cup Elements(executed) /\ courier[q] = "none"
        /\ \A w \in Conns : task[w] # q
        /\ Unrepeated(query_queue)
    BY <2>1 DEF QueriesKept
  <2>3. /\ Elements(query_queue') = Elements(query_queue) \cup {q}
        /\ Unrepeated(query_queue')
    BY <1>a, <2>1, <2>2, AppendElements
  <2>4. asker'[q] = "done"
    BY <1>3, <1>a DEF EnqueueQuery
  <2> QED BY <1>c, <2>1, <2>2, <2>3, <2>4 DEF QueriesKept
<1>4. ASSUME NEW q \in Queries, TakeConn(q) PROVE QueriesKept'
  <2>1. /\ asker[q] = "take" /\ UNCHANGED <<query_queue, executed, task, inbox>>
        /\ \A p \in Queries : p # q => asker'[p] = asker[p] /\ courier'[p] = courier[p]
    BY <1>4, <1>a DEF TakeConn
  <2>2. /\ q \notin Elements(query_queue) \cup Elements(executed) /\ courier[q] = "none"
        /\ \A w \in Conns : task[w] # q
    BY <2>1 DEF QueriesKept
  <2>3. CASE conn_poisoned \/ conn_queue = <<>>
    <3>1. asker'[q] = "panicked" /\ courier'[q] = courier[q]
      BY <1>4, <1>a, <2>3 DEF TakeConn
    <3> QED BY <1>1, <2>1, <3>1
  <2>4. CASE ~(conn_poisoned \/ conn_queue = <<>>)
    <3>1. asker'[q] = "done" /\ courier'[q] = "send"
      BY <1>4, <1>a, <2>4 DEF TakeConn
    <3>2. \A w \in Conns : inbox[w] # q
      BY <1>d, <1>e, <2>2 DEF Waited
    <3> QED BY <1>b, <1>c, <2>1, <2>2, <3>1, <3>2 DEF QueriesKept
  <2> QED BY <2>3, <2>4
<1>5. ASSUME NEW q \in Queries, SendQuery(q) PROVE QueriesKept'
  <2>1. /\ courier[q] = "send" /\ UNCHANGED <<asker, query_queue, executed, task>>
        /\ courier'[q] \in {"wait", "panicked"}
        /\ \A p \in Queries : p # q => courier'[p] = courier[p]
        /\ \A w \in Conns : inbox'[w] \in {inbox[w], q}
    BY <1>5, <1>a, <1>b DEF SendQuery
  <2>2. /\ q \notin Elements(query_queue) /\ q \notin Elements(executed) /\ asker[q] = "done"
        /\ \A w \in Conns : task[w] # q
    BY <1>e, <2>1 DEF QueriesKept
  <2> QED BY <1>b, <1>c, <2>1, <2>2 DEF QueriesKept
<1>6. ASSUME NEW q \in Queries, ReturnSender(q) PROVE QueriesKept'
  <2>1. /\ courier[q] = "return" /\ courier'[q] = "ended"
        /\ UNCHANGED <<asker, query_queue, executed, task, inbox>>
        /\ \A p \in Queries : p # q => courier'[p] = courier[p]
    BY <1>6, <1>a DEF ReturnSender
  <2> QED BY <1>1, <2>1
<1>7. ASSUME NEW w \in Conns, ReceiveQuery(w) PROVE QueriesKept'
  <2>1. PICK q \in Queries : q = inbox[w] /\ courier[q] = "wait" /\ sender[q] = w
    BY <1>7, <1>b, <1>d DEF ReceiveQuery, Waited
  <2>2. /\ UNCHANGED <<asker, courier, query_queue, executed>>
        /\ task'[w] = q /\ inbox'[w] = NoQuery
        /\ \A v \in Conns : v # w => task'[v] = task[v] /\ inbox'[v] = inbox[v]
    BY <1>7, <1>b, <2>1 DEF ReceiveQuery
  <2>3. /\ q \notin Elements(query_queue) /\ q \notin Elements(executed) /\ asker[q] = "done"
        /\ \A v \in Conns : task[v] # q
    BY <1>e, <2>1 DEF QueriesKept
  <2>4. \A v \in Conns : inbox'[v] # q
    BY <1>d, <1>e, <2>1, <2>2 DEF Waited
  <2>5. \A v \in Conns : v # w /\ task'[v] # NoQuery => \A u \in Conns : inbox'[u] # task'[v]
    BY <2>2 DEF QueriesKept
  <2> QED BY <1>b, <1>c, <1>e, <2>1, <2>2, <2>3, <2>4, <2>5 DEF QueriesKept
<1>8. ASSUME NEW w \in Conns, ExecuteQuery(w) PROVE QueriesKept'
  <2>1. PICK q \in Queries : q = task[w]
    BY <1>8, <1>b, <1>d DEF ExecuteQuery, Waited
  <2>2. /\ UNCHANGED <<asker, courier, query_queue, inbox>>
        /\ executed' = Append(executed, q) /\ task'[w] = NoQuery
        /\ \A v \in Conns : v # w => task'[v] = task[v]
    BY <1>8, <1>b, <2>1 DEF ExecuteQuery
  <2>3. Elements(executed') = Elements(executed) \cup {q}
    BY <1>a, <2>2, AppendElements
  <2>4. /\ q \notin Elements(query_queue) /\ courier[q] # "send"
        /\ \A v \in Conns : inbox[v] # q /\ (v # w => task[v] # q)
    BY <1>e, <2>1 DEF QueriesKept
  <2>5. asker[q] = "done"
    BY <2>1 DEF QueriesKept
  <2> QED BY <1>b, <1>c, <1>e, <2>2, <2>3, <2>4, <2>5 DEF QueriesKept
<1>9. ASSUME NEW w \in Conns, TryGetNewQuery(w) PROVE QueriesKept'
  <2>0. query_queue # <<>> /\ Head(query_queue) \in Queries
    BY <1>9, <1>a, TailElements DEF TryGetNewQuery
  <2>1. PICK q \in Queries : q = Head(query_queue)
    BY <2>0
  <2>2. /\ UNCHANGED <<asker, courier, executed, inbox>> /\ task'[w] = q
        /\ query_queue' = Tail(query_queue)
        /\ \A v \in Conns : v # w => task'[v] = task[v]
    BY <1>9, <1>b, <2>1 DEF TryGetNewQuery
  <2>3. Unrepeated(query_queue)
    BY DEF QueriesKept
  <2>4. /\ q \in Elements(query_queue) /\ Elements(query_queue') \subseteq Elements(query_queue)
        /\ q \notin Elements(query_queue') /\ Unrepeated(query_queue')
    BY <1>a, <2>0, <2>1, <2>2, <2>3, TailElements
  <2>5. /\ courier[q] = "none" /\ q \notin Elements(executed) /\ asker[q] = "done"
        /\ \A v \in Conns : task[v] # q
    BY <1>e, <2>4 DEF QueriesKept
  <2>6. \A v \in Conns : inbox[v] # q
    BY <1>d, <1>e, <2>5 DEF Waited
  <2> QED BY <1>b, <1>c, <1>e, <2>2, <2>4, <2>5, <2>6 DEF QueriesKept
<1>10. ASSUME NEW w \in Conns, CompleteQuery(w) PROVE QueriesKept'
  <2>1. PICK q \in Queries : q = done_tx[w] /\ courier[q] = "wait"
    BY <1>10, <1>b, <1>d DEF CompleteQuery, Waited
  <2>2. /\ courier'[q] = "return" /\ UNCHANGED <<asker, query_queue, executed, task, inbox>>
        /\ \A p \in Queries : p # q => courier'[p] = courier[p]
    BY <1>10, <1>a, <2>1 DEF CompleteQuery
  <2> QED BY <1>1, <2>1, <2>2
<1>11. ASSUME NEW w \in Conns, Connect(w) PROVE QueriesKept'
  BY <1>1, <1>11 DEF Connect
<1>12. ASSUME NEW w \in Conns, ConnectFails(w) PROVE QueriesKept'
  <2>1. /\ UNCHANGED <<asker, query_queue, executed, task>> /\ inbox'[w] = NoQuery
        /\ \A v \in Conns : v # w => inbox'[v] = inbox[v]
        /\ \A q \in Queries : courier'[q] = IF inbox[w] = q THEN "return" ELSE courier[q]
    BY <1>12, <1>b DEF ConnectFails
  <2>2. \A q \in Queries : inbox[w] = q => courier[q] = "wait"
    BY <1>d, <1>e DEF Waited
  <2> QED BY <1>b, <1>c, <1>e, <2>1, <2>2 DEF QueriesKept
<1>13. CASE UNCHANGED queryVars
  BY <1>1, <1>13 DEF queryVars
<1> QED BY <1>2, <1>3, <1>4, <1>5, <1>6, <1>7, <1>8, <1>9, <1>10, <1>11, <1>12, <1>13
        DEF QueryNext, ExecuteCall, Courier, QueryWork, Connecting

(***************************************************************************)
(* Queries that are queued, as members of the queue.                       *)
(***************************************************************************)
LEMMA QueuedIsElement == \A q : Queued(q) <=> q \in Elements(query_queue)
BY DEF Queued, Elements

(***************************************************************************)
(* A step keeps the count of those that overtook a query within the count  *)
(* of busy workers.                                                        *)
(***************************************************************************)
LEMMA OvertakingStep ==
    ASSUME QueryTypeOK, CouriersWait, QueriesKept, OvertakingCounted, [QueryNext]_queryVars
    PROVE  OvertakingCounted'
<1>a. /\ asker \in [Queries -> {"new", "enqueue", "take", "done", "panicked"}]
      /\ query_queue \in Seq(Queries)
      /\ worker \in [Conns -> {"connecting", "idle", "execute", "drain", "dead"}]
      /\ overtaken \in [Queries -> Nat]
  BY DEF QueryTypeOK
<1>b. IsFiniteSet(Busy) /\ Cardinality(Busy) \in Nat
  BY QueryAssumption, FS_Subset, FS_CardinalityType DEF Busy
<1>c. \A q \in Queries : asker[q] # "done" => q \notin Elements(query_queue)
  BY DEF QueriesKept
<1>1. ASSUME Busy' = Busy, Elements(query_queue') \subseteq Elements(query_queue),
             UNCHANGED overtaken,
             \A q \in Queries : asker[q] = "done" => asker'[q] = "done"
      PROVE  OvertakingCounted'
  BY <1>1 DEF OvertakingCounted
<1>2. ASSUME NEW q \in Queries, CheckConns(q) \/ TakeConn(q) PROVE OvertakingCounted'
  <2>1. /\ UNCHANGED <<worker, query_queue, overtaken>>
        /\ \A p \in Queries : asker[p] = "done" => asker'[p] = "done"
    BY <1>2, <1>a DEF CheckConns, TakeConn
  <2> QED BY <1>1, <2>1 DEF Busy
<1>3. ASSUME NEW q \in Queries, EnqueueQuery(q) PROVE OvertakingCounted'
  <2>1. /\ asker[q] = "enqueue" /\ UNCHANGED <<worker, overtaken>>
        /\ \A p \in Queries : p # q => asker'[p] = asker[p]
    BY <1>3, <1>a DEF EnqueueQuery
  <2>2. Elements(query_queue') = Elements(query_queue) \cup {q}
    BY <1>3, <1>a, AppendElements DEF EnqueueQuery
  <2>3. overtaken[q] = 0 /\ Busy' = Busy
    BY <2>1 DEF OvertakingCounted, Busy
  <2> QED BY <1>b, <2>1, <2>2, <2>3 DEF OvertakingCounted
<1>4. ASSUME NEW q \in Queries, SendQuery(q) \/ ReturnSender(q) PROVE OvertakingCounted'
  BY <1>1, <1>4 DEF SendQuery, ReturnSender, Busy
<1>5. ASSUME NEW w \in Conns, ReceiveQuery(w) PROVE OvertakingCounted'
  <2>1. /\ worker[w] = "idle" /\ worker'[w] = "execute" /\ UNCHANGED <<asker, query_queue>>
        /\ \A v \in Conns : v # w => worker'[v] = worker[v]
    BY <1>5, <1>a DEF ReceiveQuery
  <2>2. Busy' = Busy \cup {w} /\ w \notin Busy
    BY <2>1 DEF Busy
  <2>3. Cardinality(Busy') = Cardinality(Busy) + 1
    BY <1>b, <2>2, FS_AddElement
  <2>4. \A q \in Queries :
           overtaken'[q] = IF q \in Elements(query_queue) THEN overtaken[q] + 1 ELSE overtaken[q]
    BY <1>5, QueuedIsElement DEF ReceiveQuery
  <2> QED BY <1>a, <1>b, <1>c, <2>1, <2>3, <2>4 DEF OvertakingCounted
<1>6. ASSUME NEW w \in Conns, ExecuteQuery(w) PROVE OvertakingCounted'
  <2>1. worker[w] = "execute" /\ worker' = [worker EXCEPT ![w] = "drain"]
    BY <1>6 DEF ExecuteQuery
  <2>2. Busy' = Busy
    BY <1>a, <2>1 DEF Busy
  <2> QED BY <1>1, <1>6, <2>2 DEF ExecuteQuery
<1>7. ASSUME NEW w \in Conns, TryGetNewQuery(w) PROVE OvertakingCounted'
  <2>1. worker[w] = "drain" /\ worker' = [worker EXCEPT ![w] = "execute"]
    BY <1>7 DEF TryGetNewQuery
  <2>2. Busy' = Busy
    BY <1>a, <2>1 DEF Busy
  <2>3. Elements(query_queue') \subseteq Elements(query_queue)
    BY <1>7, <1>a, TailElements DEF TryGetNewQuery
  <2> QED BY <1>1, <1>7, <2>2, <2>3 DEF TryGetNewQuery
<1>8. ASSUME NEW w \in Conns, CompleteQuery(w) PROVE OvertakingCounted'
  <2>1. query_queue' = <<>> /\ UNCHANGED <<asker, overtaken>>
    BY <1>8 DEF CompleteQuery
  <2>2. Elements(query_queue') = {}
    BY <2>1 DEF Elements
  <2> QED BY <2>1, <2>2 DEF OvertakingCounted
<1>9. ASSUME NEW w \in Conns, Connect(w) \/ ConnectFails(w) PROVE OvertakingCounted'
  <2>1. /\ worker[w] = "connecting" /\ worker'[w] \in {"idle", "dead"}
        /\ UNCHANGED <<asker, query_queue, overtaken>>
        /\ \A v \in Conns : v # w => worker'[v] = worker[v]
    BY <1>9, <1>a DEF Connect, ConnectFails
  <2>2. Busy' = Busy
    BY <2>1 DEF Busy
  <2> QED BY <1>1, <2>1, <2>2
<1>10. CASE UNCHANGED queryVars
  BY <1>1, <1>10 DEF queryVars, Busy
<1> QED BY <1>2, <1>3, <1>4, <1>5, <1>6, <1>7, <1>8, <1>9, <1>10
        DEF QueryNext, ExecuteCall, Courier, QueryWork, Connecting

-----------------------------------------------------------------------------
(* The theorems *)

(***************************************************************************)
(* The server starts with every sender in conn_queue and no query.         *)
(***************************************************************************)
LEMMA QueryStart == QueryInit => QueryInv
<1> SUFFICES ASSUME QueryInit PROVE QueryInv
  OBVIOUS
<1>1. /\ conn_queue \in [1..Cardinality(Conns) -> Conns] /\ Unrepeated(conn_queue)
  BY DEF QueryInit, Distinct, Unrepeated
<1>2. conn_queue \in Seq(Conns) /\ Elements(conn_queue) = Conns
  BY <1>1, QueryAssumption, FullQueue
<1>3. sender \in [Queries -> Conns]
  BY QueryAssumption DEF QueryInit
<1>4. query_queue \in Seq(Queries) /\ executed \in Seq(Queries)
  BY DEF QueryInit
<1>5. QueryTypeOK
  BY <1>2, <1>3, <1>4 DEF QueryInit, QueryTypeOK
<1>6. /\ Elements(query_queue) = {} /\ Unrepeated(query_queue) /\ Elements(executed) = {}
  BY DEF QueryInit, Elements, Unrepeated
<1>7. SendersKept
  BY <1>1, <1>2 DEF QueryInit, SendersKept, Carries
<1>8. CouriersWait
  BY DEF QueryInit, CouriersWait
<1>9. QueriesKept
  <2>1. /\ \A q \in Queries : courier[q] = "none"
        /\ \A w \in Conns : task[w] = NoQuery
    BY DEF QueryInit
  <2> QED BY <1>6, <2>1, QueryAssumption DEF QueriesKept
<1>10. OvertakingCounted
  BY <1>6 DEF QueryInit, OvertakingCounted
<1> QED BY <1>5, <1>7, <1>8, <1>9, <1>10 DEF QueryInv

(***************************************************************************)
(* Every reachable state of the QueryServer is one QueryInv describes.     *)
(***************************************************************************)
THEOREM QueryInvariant == QuerySpec => []QueryInv
<1>1. QueryInv /\ [QueryNext]_queryVars => QueryInv'
  BY QueryTypeStep, SendersStep, CouriersStep, QueriesStep, OvertakingStep DEF QueryInv
<1> QED BY QueryStart, <1>1, PTL DEF QuerySpec

(***************************************************************************)
(* Senders leak only with a dead worker or a poisoned lock, and a queued   *)
(* query is overtaken at most once per connection.                         *)
(***************************************************************************)
LEMMA SendersCounted ==
    ASSUME QueryInv
    PROVE  QueriesSound
<1>1. SendersConserved
  <2> SUFFICES ASSUME NEW w \in Conns
               PROVE  LET copies == Cardinality(Places(w)) + Cardinality(Holders(w))
                      IN  /\ copies <= 1
                          /\ copies = 0 => worker[w] = "dead" \/ conn_poisoned
    BY DEF SendersConserved
  <2>1. /\ Cardinality(Places(w)) = IF w \in Elements(conn_queue) THEN 1 ELSE 0
    BY OnePlace DEF QueryInv, SendersKept, Places, At
  <2>2. Holders(w) = {q \in Queries : Carries(q) /\ sender[q] = w}
    BY DEF Holders, Carries
  <2>3. /\ \A p, q \in Holders(w) : p = q
        /\ Holders(w) # {} => w \notin Elements(conn_queue)
        /\ Holders(w) = {} /\ w \notin Elements(conn_queue) =>
              worker[w] = "dead" \/ conn_poisoned
    BY <2>2 DEF QueryInv, SendersKept
  <2>4. CASE Holders(w) = {}
    <3>1. Cardinality(Holders(w)) = 0
      BY <2>4, FS_EmptySet
    <3> QED BY <2>1, <2>3, <2>4, <3>1
  <2>5. CASE Holders(w) # {}
    <3>1. PICK q : Holders(w) = {q}
      BY <2>3, <2>5
    <3>2. Cardinality(Holders(w)) = 1
      BY <3>1, FS_Singleton
    <3> QED BY <2>1, <2>3, <2>5, <3>2
  <2> QED BY <2>4, <2>5
<1>2. BoundedOvertaking
  <2>1. /\ Cardinality(Busy) \in Nat /\ Cardinality(Conns) \in Nat
        /\ Cardinality(Busy) <= Cardinality(Conns)
    <3>1. Busy \in SUBSET Conns
      BY DEF Busy
    <3> QED BY <3>1, QueryAssumption, FS_Subset, FS_CardinalityType
  <2>2. \A q \in Queries : q \in Elements(query_queue) =>
           overtaken[q] \in Nat /\ overtaken[q] <= Cardinality(Busy)
    BY DEF QueryInv, OvertakingCounted, QueryTypeOK
  <2>3. \A q \in Queries : q \in Elements(query_queue) => overtaken[q] <= Cardinality(Conns)
    BY <2>1, <2>2
  <2> QED BY <2>3, QueuedIsElement DEF BoundedOvertaking
<1> QED BY <1>1, <1>2 DEF QueryInv, QueriesSound

(***************************************************************************)
(* However the threads of execute and the workers interleave, the pool of  *)
(* connections is sound.                                                   *)
(***************************************************************************)
THEOREM QueryServerSound == QuerySpec => []QueriesSound
BY SendersCounted, QueryInvariant, PTL

-----------------------------------------------------------------------------
(* Refinement *)

\* Where query q is.
Executing(q) == \E w \in Conns : task[w] = q
InChannel(q) == \E w \in Conns : inbox[w] = q

(***************************************************************************)
(* How far a query is, by where it is.                                     *)
(***************************************************************************)
LEMMA StatusOf ==
    /\ QueryStatus =
         [q \in Queries |->
            IF Executing(q) THEN "running"
            ELSE IF q \in Elements(executed) THEN "done"
            ELSE IF asker[q] = "panicked" THEN "lost"
            ELSE IF asker[q] # "done" THEN "new"
            ELSE IF q \in Elements(query_queue) \/ courier[q] = "send" \/ InChannel(q)
                 THEN "waiting" ELSE "lost"]
    /\ QueryStatus' =
         [q \in Queries |->
            IF Executing(q)' THEN "running"
            ELSE IF q \in Elements(executed') THEN "done"
            ELSE IF asker'[q] = "panicked" THEN "lost"
            ELSE IF asker'[q] # "done" THEN "new"
            ELSE IF q \in Elements(query_queue') \/ courier'[q] = "send" \/ InChannel(q)'
                 THEN "waiting" ELSE "lost"]
BY DEF QueryStatus, Executing, InChannel, Queued, Elements

(***************************************************************************)
(* Nothing happened to the queries that the pool's users could notice.     *)
(***************************************************************************)
LEMMA StatusSame ==
    ASSUME UNCHANGED <<task, inbox, executed, query_queue, asker>>,
           \A q \in Queries : (courier'[q] = "send") <=> (courier[q] = "send")
    PROVE  QueryStatus' = QueryStatus
BY StatusOf DEF Executing, InChannel

(***************************************************************************)
(* Something happened to one query.                                        *)
(***************************************************************************)
LEMMA StatusMoves ==
    ASSUME NEW q \in Queries,
           \A p \in Queries : p # q =>
              /\ Executing(p)' <=> Executing(p)
              /\ InChannel(p)' <=> InChannel(p)
              /\ p \in Elements(executed') <=> p \in Elements(executed)
              /\ p \in Elements(query_queue') <=> p \in Elements(query_queue)
              /\ asker'[p] = asker[p]
              /\ courier'[p] = "send" <=> courier[p] = "send"
    PROVE  QueryStatus' = [QueryStatus EXCEPT ![q] = QueryStatus'[q]]
BY StatusOf

(***************************************************************************)
(* The pool counts like everybody else.                                    *)
(***************************************************************************)
LEMMA PoolCounts == \A S : Pool!Cardinality(S) = Cardinality(S)
BY DEF Pool!Cardinality, Cardinality

(***************************************************************************)
(* A worker that executes nothing leaves room in the pool.                 *)
(***************************************************************************)
LEMMA RoomForWork ==
    ASSUME QueryInv, NEW w \in Conns, task[w] = NoQuery
    PROVE  Pool!Cardinality(Pool!Running) < Cardinality(Conns)
<1>1. Pool!Running = {q \in Queries : Executing(q)}
  BY StatusOf DEF Pool!Running
<1> DEFINE holder == [q \in Pool!Running |-> CHOOSE v \in Conns : task[v] = q]
<1>2. \A q \in Pool!Running : holder[q] \in Conns /\ task[holder[q]] = q
  BY <1>1 DEF Executing
<1>3. holder \in [Pool!Running -> Conns \ {w}]
  BY <1>1, <1>2, QueryAssumption
<1>4. \A p, q \in Pool!Running : holder[p] = holder[q] => p = q
  BY <1>2
<1> HIDE DEF holder
<1> QED BY <1>3, <1>4, RoomToStart, PoolCounts, QueryAssumption

(***************************************************************************)
(* A caller's step, or that of the thread it spawned, accepts the query or *)
(* loses it.                                                               *)
(***************************************************************************)
LEMMA CallerRefines ==
    ASSUME QueryInv, NEW q \in Queries, ExecuteCall(q) \/ Courier(q)
    PROVE  [Pool!PoolNext]_QueryStatus
<1>a. /\ asker \in [Queries -> {"new", "enqueue", "take", "done", "panicked"}]
      /\ courier \in [Queries -> {"none", "send", "wait", "return", "ended", "panicked"}]
      /\ sender \in [Queries -> Conns]
      /\ query_queue \in Seq(Queries)
      /\ inbox \in [Conns -> Queries \cup {NoQuery}]
  BY DEF QueryInv, QueryTypeOK
<1>b. asker[q] \in {"new", "enqueue", "take"} =>
         /\ q \notin Elements(query_queue) /\ q \notin Elements(executed)
         /\ courier[q] = "none" /\ ~Executing(q)
  BY DEF QueryInv, QueriesKept, Executing
<1>c. ~InChannel(q) \/ courier[q] = "wait"
  BY QueryAssumption DEF QueryInv, CouriersWait, InChannel
<1>1. ASSUME asker[q] \in {"new", "enqueue", "take"}, UNCHANGED <<task, inbox, executed>>,
             \A p \in Queries : p # q =>
                /\ asker'[p] = asker[p] /\ courier'[p] = courier[p]
                /\ p \in Elements(query_queue') <=> p \in Elements(query_queue),
             \/ asker'[q] \in {"new", "enqueue", "take", "panicked"}
             \/ asker'[q] = "done" /\ (q \in Elements(query_queue') \/ courier'[q] = "send")
      PROVE  [Pool!PoolNext]_QueryStatus
  <2>1. QueryStatus[q] = "new"
    BY <1>1, <1>b, StatusOf
  <2>2. ~Executing(q)' /\ q \notin Elements(executed')
    BY <1>1, <1>b DEF Executing
  <2>3. QueryStatus'[q] \in {"new", "lost", "waiting"}
    BY <1>1, <2>2, StatusOf
  <2>4. QueryStatus' = [QueryStatus EXCEPT ![q] = QueryStatus'[q]]
    BY <1>1, StatusMoves DEF Executing, InChannel
  <2>5. CASE QueryStatus'[q] = "new"
    BY <2>1, <2>4, <2>5, StatusOf
  <2>6. CASE QueryStatus'[q] = "lost"
    BY <2>1, <2>4, <2>6 DEF Pool!PoolNext, Pool!Lose, Pool!Move
  <2>7. CASE QueryStatus'[q] = "waiting"
    BY <2>1, <2>4, <2>7 DEF Pool!PoolNext, Pool!Accept, Pool!Move
  <2> QED BY <2>3, <2>5, <2>6, <2>7
<1>2. CASE CheckConns(q)
  <2>1. /\ asker[q] = "new" /\ asker'[q] \in {"panicked", "enqueue", "take"}
        /\ UNCHANGED <<task, inbox, executed, query_queue, courier>>
        /\ \A p \in Queries : p # q => asker'[p] = asker[p]
    BY <1>2, <1>a DEF CheckConns
  <2> QED BY <1>1, <2>1
<1>3. CASE EnqueueQuery(q)
  <2>1. /\ asker[q] = "enqueue" /\ asker'[q] = "done"
        /\ UNCHANGED <<task, inbox, executed, courier>>
        /\ \A p \in Queries : p # q => asker'[p] = asker[p]
    BY <1>3, <1>a DEF EnqueueQuery
  <2>2. Elements(query_queue') = Elements(query_queue) \cup {q}
    BY <1>3, <1>a, AppendElements DEF EnqueueQuery
  <2> QED BY <1>1, <2>1, <2>2
<1>4. CASE TakeConn(q)
  <2>1. /\ asker[q] = "take" /\ UNCHANGED <<task, inbox, executed, query_queue>>
        /\ \A p \in Queries : p # q => asker'[p] = asker[p] /\ courier'[p] = courier[p]
        /\ \/ asker'[q] = "panicked"
           \/ asker'[q] = "done" /\ courier'[q] = "send"
    BY <1>4, <1>a DEF TakeConn
  <2> QED BY <1>1, <2>1
<1>5. CASE SendQuery(q)
  <2>1. /\ courier[q] = "send" /\ courier'[q] # "send"
        /\ UNCHANGED <<asker, task, executed, query_queue>>
        /\ \A p \in Queries : p # q => courier'[p] = courier[p]
    BY <1>5, <1>a DEF SendQuery
  <2>2. /\ asker[q] = "done" /\ q \notin Elements(executed) /\ ~Executing(q)
        /\ q \notin Elements(query_queue)
    BY <2>1, QueryAssumption DEF QueryInv, QueriesKept, Executing
  <2>3. ~Executing(q)' /\ \A p \in Queries : Executing(p)' <=> Executing(p)
    BY <2>1, <2>2 DEF Executing
  <2>4. QueryStatus[q] = "waiting"
    BY <2>1, <2>2, StatusOf
  <2>5. \A p \in Queries : p # q => (InChannel(p)' <=> InChannel(p))
    <3>1. CASE worker[sender[q]] = "dead"
      BY <1>5, <3>1 DEF SendQuery, InChannel
    <3>2. CASE worker[sender[q]] # "dead"
      <4>1. inbox' = [inbox EXCEPT ![sender[q]] = q]
        BY <1>5, <3>2 DEF SendQuery
      <4>2. inbox[sender[q]] = NoQuery
        <5> SUFFICES ASSUME inbox[sender[q]] # NoQuery PROVE FALSE
          OBVIOUS
        <5>1. PICK p \in Queries : p = inbox[sender[q]]
          BY <1>a
        <5>2. courier[p] = "wait" /\ sender[p] = sender[q]
          BY <1>a, <5>1 DEF QueryInv, CouriersWait
        <5> QED BY <2>1, <5>2 DEF QueryInv, SendersKept, Carries
      <4> QED BY <1>a, <4>1, <4>2, QueryAssumption DEF InChannel
    <3> QED BY <3>1, <3>2
  <2>6. QueryStatus' = [QueryStatus EXCEPT ![q] = QueryStatus'[q]]
    BY <2>1, <2>3, <2>5, StatusMoves
  <2>7. QueryStatus'[q] \in {"waiting", "lost"}
    BY <2>1, <2>2, <2>3, StatusOf
  <2>8. CASE QueryStatus'[q] = "waiting"
    BY <2>4, <2>6, <2>8, StatusOf
  <2>9. CASE QueryStatus'[q] = "lost"
    BY <2>4, <2>6, <2>9 DEF Pool!PoolNext, Pool!Lose, Pool!Move
  <2> QED BY <2>7, <2>8, <2>9
<1>6. CASE ReturnSender(q)
  <2>1. /\ UNCHANGED <<task, inbox, executed, query_queue, asker>>
        /\ \A p \in Queries : (courier'[p] = "send") <=> (courier[p] = "send")
    BY <1>6, <1>a DEF ReturnSender
  <2> QED BY <2>1, StatusSame
<1> QED BY <1>2, <1>3, <1>4, <1>5, <1>6 DEF ExecuteCall, Courier

(***************************************************************************)
(* A worker's step starts a query, finishes one, or loses the one in its   *)
(* channel.                                                                *)
(***************************************************************************)
LEMMA WorkerRefines ==
    ASSUME QueryInv, NEW w \in Conns, QueryWork(w) \/ Connecting(w)
    PROVE  [Pool!PoolNext]_QueryStatus
<1>a. /\ courier \in [Queries -> {"none", "send", "wait", "return", "ended", "panicked"}]
      /\ query_queue \in Seq(Queries) /\ executed \in Seq(Queries)
      /\ inbox \in [Conns -> Queries \cup {NoQuery}]
      /\ task \in [Conns -> Queries \cup {NoQuery}]
      /\ done_tx \in [Conns -> Queries \cup {NoQuery}]
  BY DEF QueryInv, QueryTypeOK
<1>b. \A v \in Conns : Waited(v)
  BY DEF QueryInv, CouriersWait, Waited
<1>c. NoQuery \notin Queries
  BY QueryAssumption
\* the worker gets a query that was waiting
<1>1. ASSUME NEW q \in Queries, task[w] = NoQuery, task' = [task EXCEPT ![w] = q],
             QueryStatus[q] = "waiting", UNCHANGED <<asker, courier, executed>>,
             \A p \in Queries : p # q =>
                /\ InChannel(p)' <=> InChannel(p)
                /\ p \in Elements(query_queue') <=> p \in Elements(query_queue)
      PROVE  [Pool!PoolNext]_QueryStatus
  <2>1. Executing(q)' /\ \A p \in Queries : p # q => (Executing(p)' <=> Executing(p))
    BY <1>1, <1>a, <1>c DEF Executing
  <2>2. QueryStatus'[q] = "running"
    BY <2>1, StatusOf
  <2>3. QueryStatus' = [QueryStatus EXCEPT ![q] = "running"]
    BY <1>1, <2>1, <2>2, StatusMoves
  <2> QED BY <1>1, <2>3, RoomForWork DEF Pool!PoolNext, Pool!Start, Pool!Move
<1>2. CASE ReceiveQuery(w)
  <2>1. PICK q \in Queries : q = inbox[w] /\ courier[q] = "wait" /\ sender[q] = w
    BY <1>2, <1>a, <1>b DEF ReceiveQuery, Waited
  <2>2. /\ task[w] = NoQuery /\ task' = [task EXCEPT ![w] = q]
        /\ inbox' = [inbox EXCEPT ![w] = NoQuery]
        /\ UNCHANGED <<asker, courier, executed, query_queue>>
    BY <1>2, <1>b, <2>1 DEF ReceiveQuery, Waited
  <2>3. /\ asker[q] = "done" /\ q \notin Elements(executed) /\ InChannel(q)
        /\ \A v \in Conns : task[v] # q
    BY <1>c, <2>1 DEF QueryInv, QueriesKept, InChannel
  <2>4. QueryStatus[q] = "waiting"
    BY <2>3, StatusOf DEF Executing
  <2>5. \A p \in Queries : p # q => (InChannel(p)' <=> InChannel(p))
    BY <1>a, <1>c, <2>1, <2>2 DEF InChannel
  <2> QED BY <1>1, <2>2, <2>4, <2>5
<1>3. CASE ExecuteQuery(w)
  <2>1. PICK q \in Queries : q = task[w]
    BY <1>3, <1>a, <1>b DEF ExecuteQuery, Waited
  <2>2. /\ UNCHANGED <<asker, courier, query_queue, inbox>>
        /\ executed' = Append(executed, q) /\ task' = [task EXCEPT ![w] = NoQuery]
    BY <1>3, <2>1 DEF ExecuteQuery
  <2>3. Elements(executed') = Elements(executed) \cup {q}
    BY <1>a, <2>2, AppendElements
  <2>4. \A v \in Conns : task[v] = q => v = w
    BY <1>c, <2>1 DEF QueryInv, QueriesKept
  <2>5. /\ Executing(q) /\ ~Executing(q)'
        /\ \A p \in Queries : p # q => (Executing(p)' <=> Executing(p))
    BY <1>a, <1>c, <2>1, <2>2, <2>4 DEF Executing
  <2>6. QueryStatus[q] = "running" /\ QueryStatus'[q] = "done"
    BY <2>3, <2>5, StatusOf
  <2>7. QueryStatus' = [QueryStatus EXCEPT ![q] = "done"]
    BY <2>2, <2>3, <2>5, <2>6, StatusMoves DEF InChannel
  <2> QED BY <2>6, <2>7 DEF Pool!PoolNext, Pool!Finish, Pool!Move
<1>4. CASE TryGetNewQuery(w)
  <2>0. query_queue # <<>> /\ Head(query_queue) \in Queries
    BY <1>4, <1>a, TailElements DEF TryGetNewQuery
  <2>1. PICK q \in Queries : q = Head(query_queue)
    BY <2>0
  <2>2. /\ UNCHANGED <<asker, courier, executed, inbox>> /\ task' = [task EXCEPT ![w] = q]
        /\ task[w] = NoQuery /\ query_queue' = Tail(query_queue)
    BY <1>4, <1>b, <2>1 DEF TryGetNewQuery, Waited
  <2>3. /\ q \in Elements(query_queue)
        /\ Elements(query_queue) = Elements(query_queue') \cup {q}
    BY <1>a, <2>0, <2>1, <2>2, TailElements
  <2>4. /\ q \notin Elements(executed) /\ asker[q] = "done"
        /\ \A v \in Conns : task[v] # q
    BY <1>c, <2>3 DEF QueryInv, QueriesKept
  <2>5. QueryStatus[q] = "waiting"
    BY <2>3, <2>4, StatusOf DEF Executing
  <2>6. \A p \in Queries : InChannel(p)' <=> InChannel(p)
    BY <2>2 DEF InChannel
  <2> QED BY <1>1, <2>2, <2>3, <2>5, <2>6
<1>5. CASE CompleteQuery(w)
  <2>1. PICK q \in Queries : q = done_tx[w] /\ courier[q] = "wait"
    BY <1>5, <1>a, <1>b DEF CompleteQuery, Waited
  <2>2. /\ UNCHANGED <<task, inbox, executed, query_queue, asker>>
        /\ courier' = [courier EXCEPT ![q] = "return"]
    BY <1>5, <2>1 DEF CompleteQuery
  <2>3. \A p \in Queries : (courier'[p] = "send") <=> (courier[p] = "send")
    BY <1>a, <2>1, <2>2
  <2> QED BY <2>2, <2>3, StatusSame
<1>6. CASE Connect(w)
  BY <1>6, StatusSame DEF Connect
<1>7. CASE ConnectFails(w)
  <2>1. /\ UNCHANGED <<task, executed, query_queue, asker>>
        /\ inbox' = [inbox EXCEPT ![w] = NoQuery]
        /\ \A q \in Queries : courier'[q] = IF inbox[w] = q THEN "return" ELSE courier[q]
    BY <1>7 DEF ConnectFails
  <2>2. CASE inbox[w] = NoQuery
    <3>1. inbox' = inbox /\ \A q \in Queries : courier'[q] = courier[q]
      BY <1>a, <1>c, <2>1, <2>2
    <3> QED BY <2>1, <3>1, StatusSame
  <2>3. CASE inbox[w] # NoQuery
    <3>1. PICK q \in Queries : q = inbox[w] /\ courier[q] = "wait" /\ sender[q] = w
      BY <1>a, <1>b, <2>3 DEF Waited
    <3>2. /\ asker[q] = "done" /\ q \notin Elements(executed) /\ InChannel(q)
          /\ \A v \in Conns : task[v] # q
          /\ q \notin Elements(query_queue)
      BY <1>c, <3>1 DEF QueryInv, QueriesKept, InChannel
    <3>3. courier'[q] = "return" /\ \A p \in Queries : p # q => courier'[p] = courier[p]
      BY <2>1, <3>1
    <3>4. ~InChannel(q)'
      BY <1>a, <1>b, <1>c, <2>1, <3>1 DEF InChannel, Waited
    <3>5. \A p \in Queries : p # q => (InChannel(p)' <=> InChannel(p))
      BY <1>a, <1>c, <2>1, <3>1 DEF InChannel
    <3>6. \A p \in Queries : Executing(p)' <=> Executing(p)
      BY <2>1 DEF Executing
    <3>7. QueryStatus[q] = "waiting"
      BY <3>2, StatusOf DEF Executing
    <3>8. QueryStatus'[q] = "lost"
      BY <2>1, <3>2, <3>3, <3>4, StatusOf DEF Executing
    <3>9. QueryStatus' = [QueryStatus EXCEPT ![q] = "lost"]
      BY <2>1, <3>3, <3>5, <3>6, <3>8, StatusMoves
    <3> QED BY <3>7, <3>9 DEF Pool!PoolNext, Pool!Lose, Pool!Move
  <2> QED BY <2>2, <2>3
<1> QED BY <1>2, <1>3, <1>4, <1>5, <1>6, <1>7 DEF QueryWork, Connecting

(***************************************************************************)
(* The QueryServer implements the pool of work: a query is executed at     *)
(* most once, by one of the workers, and never after it was given up.      *)
(***************************************************************************)
THEOREM QueryServerImplementsPool == QuerySpec => QueriesArePooled
<1>1. QueryInit => Pool!PoolInit
  <2> SUFFICES ASSUME QueryInit PROVE Pool!PoolInit
    OBVIOUS
  <2>1. \A q \in Queries : ~Executing(q) /\ q \notin Elements(executed) /\ asker[q] = "new"
    BY QueryAssumption DEF QueryInit, Executing, Elements
  <2> QED BY <2>1, StatusOf DEF Pool!PoolInit
<1>2. QueryInv /\ [QueryNext]_queryVars => [Pool!PoolNext]_QueryStatus
  <2> SUFFICES ASSUME QueryInv, [QueryNext]_queryVars PROVE [Pool!PoolNext]_QueryStatus
    OBVIOUS
  <2>1. CASE UNCHANGED queryVars
    BY <2>1, StatusSame DEF queryVars
  <2> QED BY <2>1, CallerRefines, WorkerRefines DEF QueryNext
<1> QED BY <1>1, <1>2, QueryInvariant, PTL DEF QuerySpec, QueriesArePooled, Pool!PoolSpec
=============================================================================
