-------------------------- MODULE Services_proofs --------------------------
(***************************************************************************)
(* Proofs about the services around the core, for any instance of their    *)
(* constants: the contingency handlers, the document store, the forked     *)
(* streams of the client, the Redis proxy, the transfers and the two data  *)
(* downloaders.  They share no state, and each part below is about the     *)
(* specification of one of them.                                           *)
(***************************************************************************)
EXTENDS ContingencyHandlers, DocumentStore, StreamForks, RedisProxy, FlatfileDownloader,
        NativeDownloader, QueueLemmas

-----------------------------------------------------------------------------
(* Contingency handlers *)

(***************************************************************************)
(* The map is the inverse of the vector, which is in order, so that an     *)
(* insertion at the end and a removal anywhere keep both in step.  Between *)
(* two handlers, and behind the last, there are as many additions as       *)
(* places or more.                                                         *)
(***************************************************************************)
Spaced ==
    \A i \in DOMAIN data :
        /\ data[i] >= i /\ Len(wanted) - data[i] >= Len(data) - i
        /\ \A j \in DOMAIN data : i <= j => data[j] - data[i] >= j - i

HandlersInv ==
    /\ wanted \in Seq(SUBSET TickstreamIndices) /\ subscriptions = wanted
    /\ data \in Seq(1..Len(wanted)) /\ Len(data) <= Len(wanted)
    /\ hm \in [Elements(data) -> Nat]
    /\ \A i \in DOMAIN data : hm[data[i]] = i - 1
    /\ HandlersInOrder
    /\ Spaced
    /\ manager = "assert" => Len(data) < Len(wanted)

\* What is in order is there once.
LEMMA InOrderUnrepeated ==
    ASSUME HandlersInv
    PROVE  Unrepeated(data) /\ DOMAIN data = 1..Len(data) /\ Len(data) \in Nat
<1>1. /\ DOMAIN data = 1..Len(data) /\ Len(data) \in Nat
      /\ \A i \in DOMAIN data : data[i] \in 1..Len(wanted)
  BY LenProperties DEF HandlersInv
<1>2. ASSUME NEW i \in DOMAIN data, NEW j \in DOMAIN data, data[i] = data[j]
      PROVE  i = j
  <2>1. Len(wanted) \in Nat
    BY LenProperties DEF HandlersInv
  <2>2. (i < j => data[i] < data[j]) /\ (j < i => data[j] < data[i])
    BY DEF HandlersInv, HandlersInOrder
  <2>3. data[i] \in Int /\ i \in Int /\ j \in Int
    BY <1>1, <2>1
  <2> QED BY <1>2, <2>2, <2>3
<1> QED BY <1>1, <1>2 DEF Unrepeated

\* An insertion: the new handler is the last in the vector, and its uuid the largest.
LEMMA AddHandlerKeeps ==
    ASSUME HandlersInv, NEW streams \in SUBSET TickstreamIndices, AddHandler(streams)
    PROVE  HandlersInv'
<1> DEFINE n == Len(wanted) + 1
<1>1. /\ Len(wanted) \in Nat /\ Len(data) \in Nat /\ DOMAIN data = 1..Len(data)
      /\ Len(data) <= Len(wanted)
  BY LenProperties DEF HandlersInv
<1>2. /\ wanted' \in Seq(SUBSET TickstreamIndices) /\ Len(wanted') = n
      /\ subscriptions' = wanted' /\ Len(subscriptions') = n
  BY AppendProperties DEF HandlersInv, AddHandler
<1>3. data \in Seq(1..n) /\ n \in 1..n
  <2>1. 1..Len(wanted) \subseteq 1..n
    BY <1>1
  <2> QED BY <1>1, <2>1, SeqMonotonic DEF HandlersInv
<1>4. /\ data' \in Seq(1..n) /\ Len(data') = Len(data) + 1
      /\ \A i \in 1..Len(data) : data'[i] = data[i]
      /\ data'[Len(data) + 1] = n
      /\ Elements(data') = Elements(data) \cup {n}
      /\ DOMAIN data' = 1..(Len(data) + 1)
  <2>1. data' = Append(data, n)
    BY <1>2 DEF AddHandler
  <2> QED BY <1>3, <2>1, AppendProperties, AppendElements, LenProperties
<1>5. /\ Elements(data) \subseteq 1..Len(wanted) /\ n \notin Elements(data)
      /\ DOMAIN hm = Elements(data)
  <2>1. Elements(data) \subseteq 1..Len(wanted)
    BY ElementsType DEF HandlersInv
  <2> QED BY <1>1, <2>1 DEF HandlersInv
<1>6. hm' = [v \in Elements(data) \cup {n} |-> IF v \in Elements(data) THEN hm[v] ELSE Len(data)]
  BY <1>2, <1>5 DEF AddHandler
<1>7. hm' \in [Elements(data') -> Nat]
  <2>1. \A v \in Elements(data) : hm[v] \in Nat
    BY DEF HandlersInv
  <2> QED BY <1>1, <1>4, <1>6, <2>1
<1>8. ASSUME NEW i \in DOMAIN data' PROVE hm'[data'[i]] = i - 1
  <2>1. CASE i \in 1..Len(data)
    <3>1. data'[i] = data[i] /\ data[i] \in Elements(data) /\ hm[data[i]] = i - 1
      BY <1>1, <1>4, <2>1 DEF Elements, HandlersInv
    <3> QED BY <1>6, <3>1
  <2>2. CASE i = Len(data) + 1
    BY <1>1, <1>4, <1>5, <1>6, <2>2
  <2> QED BY <1>1, <1>4, <2>1, <2>2
<1>9. HandlersInOrder'
  <2> SUFFICES ASSUME NEW i \in DOMAIN data', NEW j \in DOMAIN data', i < j
               PROVE  data'[i] < data'[j]
    BY DEF HandlersInOrder
  <2>1. i \in 1..Len(data) /\ data'[i] = data[i] /\ data[i] \in 1..Len(wanted)
    <3>1. i \in 1..Len(data)
      BY <1>1, <1>4
    <3> QED BY <1>1, <1>4, <3>1 DEF HandlersInv
  <2>2. CASE j \in 1..Len(data)
    BY <1>1, <1>4, <2>1, <2>2 DEF HandlersInv, HandlersInOrder
  <2>3. CASE j = Len(data) + 1
    BY <1>1, <1>4, <2>1, <2>3
  <2> QED BY <1>1, <1>4, <2>2, <2>3
<1>10. (manager = "assert" => Len(data) < Len(wanted))'
  BY <1>1, <1>2, <1>4 DEF AddHandler, Running
<1>11. Spaced'
  <2>0. \A i \in 1..Len(data) : data[i] \in Nat
    BY <1>1 DEF HandlersInv
  <2>1. \A i \in 1..Len(data) :
           /\ data[i] >= i /\ Len(wanted) - data[i] >= Len(data) - i
           /\ \A j \in 1..Len(data) : i <= j => data[j] - data[i] >= j - i
    BY <1>1, Zenon DEF HandlersInv, Spaced
  <2>2. ASSUME NEW i \in DOMAIN data'
        PROVE  data'[i] >= i /\ Len(wanted') - data'[i] >= Len(data') - i
    <3>1. CASE i \in 1..Len(data)
      <4>1. /\ data'[i] = data[i] /\ data[i] \in Nat /\ data[i] >= i /\ i \in Nat
            /\ Len(wanted) - data[i] >= Len(data) - i
        BY <1>4, <2>0, <2>1, <3>1
      <4> QED BY <1>1, <1>2, <1>4, <4>1
    <3>2. CASE i = Len(data) + 1
      BY <1>1, <1>2, <1>4, <3>2
    <3> QED BY <1>1, <1>4, <3>1, <3>2
  <2>3. ASSUME NEW i \in DOMAIN data', NEW j \in DOMAIN data', i <= j
        PROVE  data'[j] - data'[i] >= j - i
    <3>1. CASE j \in 1..Len(data)
      <4>1. i \in 1..Len(data)
        BY <1>1, <1>4, <2>3, <3>1
      <4> QED BY <1>4, <2>1, <2>3, <3>1, <4>1
    <3>2. CASE j = Len(data) + 1 /\ i \in 1..Len(data)
      <4>1. /\ data'[i] = data[i] /\ data'[j] = Len(wanted) + 1 /\ data[i] \in Nat /\ i \in Nat
            /\ Len(wanted) - data[i] >= Len(data) - i
        BY <1>4, <2>0, <2>1, <3>2
      <4>2. (Len(wanted) + 1) - data[i] >= (Len(data) + 1) - i
        BY <1>1, <4>1
      <4> QED BY <3>2, <4>1, <4>2
    <3>3. CASE j = Len(data) + 1 /\ i = j
      BY <1>1, <1>4, <3>3
    <3> QED BY <1>1, <1>4, <2>3, <3>1, <3>2, <3>3
  <2> QED BY <2>2, <2>3 DEF Spaced
<1> QED BY <1>1, <1>2, <1>4, <1>7, <1>8, <1>9, <1>10, <1>11 DEF HandlersInv

\* A removal: those behind the handler move up, in the vector and in the map.
LEMMA RemoveHandlerKeeps ==
    ASSUME HandlersInv, NEW u, RemoveHandler(u)
    PROVE  HandlersInv'
<1>1. /\ Unrepeated(data) /\ DOMAIN data = 1..Len(data) /\ Len(data) \in Nat
      /\ Len(wanted) \in Nat
  BY InOrderUnrepeated, LenProperties DEF HandlersInv
<1>2. PICK k \in 1..Len(data) : data[k] = u /\ hm[u] = k - 1
  <2>1. u \in Elements(data)
    BY DEF RemoveHandler, HandlersInv
  <2> QED BY <1>1, <2>1 DEF Elements, HandlersInv
<1>3. data' = Without(data, k)
  <2>1. hm[u] + 2 = k + 1
    BY <1>1, <1>2
  <2> QED BY <1>2, <2>1 DEF RemoveHandler, Without
<1>4. /\ data' \in Seq(1..Len(wanted)) /\ Len(data') = Len(data) - 1
      /\ DOMAIN data' = 1..(Len(data) - 1)
      /\ \A i \in 1..(Len(data) - 1) : data'[i] = IF i < k THEN data[i] ELSE data[i + 1]
  <2>1. data \in Seq(1..Len(wanted)) /\ k \in DOMAIN data
    BY <1>1 DEF HandlersInv
  <2> QED BY <1>1, <1>3, <2>1, WithoutShape
<1>5. Elements(data') = Elements(data) \ {u}
  <2>1. ASSUME NEW i \in DOMAIN data' PROVE data'[i] \in Elements(data) \ {u}
    <3>1. CASE i < k
      <4>a. i \in 1..(Len(data) - 1)
        BY <1>4
      <4>b. data'[i] = data[i]
        BY <1>4, <3>1, <4>a
      <4>1. i \in DOMAIN data /\ i # k /\ data'[i] = data[i]
        BY <1>1, <1>2, <3>1, <4>a, <4>b
      <4> QED BY <1>1, <1>2, <4>1 DEF Elements, Unrepeated
    <3>2. CASE ~(i < k)
      <4>1. i + 1 \in DOMAIN data /\ i + 1 # k /\ data'[i] = data[i + 1]
        BY <1>1, <1>2, <1>4, <3>2
      <4> QED BY <1>1, <1>2, <4>1 DEF Elements, Unrepeated
    <3> QED BY <3>1, <3>2
  <2>2. ASSUME NEW i \in DOMAIN data, data[i] # u PROVE data[i] \in Elements(data')
    <3>1. CASE i < k
      <4>1. i \in DOMAIN data' /\ data'[i] = data[i]
        BY <1>1, <1>2, <1>4, <3>1
      <4> QED BY <4>1 DEF Elements
    <3>2. CASE ~(i < k)
      <4>1. i - 1 \in DOMAIN data' /\ ~(i - 1 < k) /\ (i - 1) + 1 = i
        BY SMTT(30), <1>1, <1>2, <1>4, <2>2, <3>2
      <4>2. data'[i - 1] = data[i]
        BY <1>4, <4>1
      <4> QED BY <4>1, <4>2 DEF Elements
    <3> QED BY <3>1, <3>2
  <2> QED BY <2>1, <2>2 DEF Elements
<1>6. /\ DOMAIN hm = Elements(data) /\ \A v \in Elements(data) : hm[v] \in Nat
      /\ hm' = [v \in Elements(data) \ {u} |-> IF hm[v] > k - 1 THEN hm[v] - 1 ELSE hm[v]]
  <2>1. DOMAIN hm = Elements(data) /\ \A v \in Elements(data) : hm[v] \in Nat
    BY DEF HandlersInv
  <2> QED BY <1>2, <2>1 DEF RemoveHandler, Shifted
<1>7. hm' \in [Elements(data') -> Nat]
  <2>1. \A v \in Elements(data) \ {u} : (IF hm[v] > k - 1 THEN hm[v] - 1 ELSE hm[v]) \in Nat
    BY <1>2, <1>6
  <2> QED BY <1>5, <1>6, <2>1
<1>8. ASSUME NEW i \in DOMAIN data' PROVE hm'[data'[i]] = i - 1
  <2>1. data'[i] \in Elements(data) \ {u}
    BY <1>5 DEF Elements
  <2>2. CASE i < k
    <3>1. hm[data'[i]] = i - 1
      <4>1. i \in 1..(Len(data) - 1) /\ i \in DOMAIN data
        BY <1>1, <1>4
      <4>2. data'[i] = data[i]
        BY <1>4, <2>2, <4>1
      <4>3. hm[data[i]] = i - 1
        BY <4>1 DEF HandlersInv
      <4> QED BY <4>2, <4>3
    <3> QED BY <1>2, <1>4, <1>6, <2>1, <2>2, <3>1
  <2>3. CASE ~(i < k)
    <3>1. i + 1 \in DOMAIN data /\ data'[i] = data[i + 1]
      BY <1>1, <1>4, <2>3
    <3>2. hm[data'[i]] = (i + 1) - 1
      BY <3>1 DEF HandlersInv
    <3> QED BY <1>2, <1>4, <1>6, <2>1, <2>3, <3>2
  <2> QED BY <2>2, <2>3
<1>9. HandlersInOrder'
  <2> SUFFICES ASSUME NEW i \in DOMAIN data', NEW j \in DOMAIN data', i < j
               PROVE  data'[i] < data'[j]
    BY DEF HandlersInOrder
  <2> DEFINE Old(m) == IF m < k THEN m ELSE m + 1
  <2>1. i \in 1..(Len(data) - 1) /\ j \in 1..(Len(data) - 1)
    BY <1>4
  <2>2. data'[i] = data[Old(i)] /\ data'[j] = data[Old(j)]
    BY <1>2, <1>4, <2>1
  <2>3. Old(i) \in DOMAIN data /\ Old(j) \in DOMAIN data /\ Old(i) < Old(j)
    BY <1>1, <1>2, <2>1
  <2> HIDE DEF Old
  <2> QED BY <2>2, <2>3 DEF HandlersInv, HandlersInOrder
<1>10. Len(data) <= Len(wanted) /\ wanted' = wanted
  BY DEF HandlersInv, RemoveHandler
<1>11. Len(data') < Len(wanted)
  BY <1>1, <1>4, <1>10
<1>12. Len(data') <= Len(wanted)
  BY <1>1, <1>4, <1>10, <1>11
<1>13. Spaced'
  <2> SUFFICES ASSUME NEW i \in DOMAIN data'
               PROVE  /\ data'[i] >= i /\ Len(wanted) - data'[i] >= Len(data') - i
                      /\ \A j \in DOMAIN data' : i <= j => data'[j] - data'[i] >= j - i
    BY <1>10 DEF Spaced
  <2> DEFINE Old(m) == IF m < k THEN m ELSE m + 1
  <2>1. \A m \in 1..(Len(data) - 1) : /\ data'[m] = data[Old(m)] /\ Old(m) \in 1..Len(data)
                                     /\ Old(m) >= m /\ Old(m) <= m + 1
    BY <1>1, <1>2, <1>4
  <2>2. \A m \in 1..Len(data) : data[m] \in Nat
    BY <1>1 DEF HandlersInv
  <2>3. \A m \in 1..Len(data) :
           /\ data[m] >= m /\ Len(wanted) - data[m] >= Len(data) - m
           /\ \A j \in 1..Len(data) : m <= j => data[j] - data[m] >= j - m
    BY <1>1, Zenon DEF HandlersInv, Spaced
  <2>4. \A j \in 1..(Len(data) - 1) : i <= j => Old(j) >= Old(i) /\ Old(j) - Old(i) >= j - i
    BY SMTT(30), <1>1, <1>2, <1>4
  <2>5. i \in 1..(Len(data) - 1) /\ i \in Nat /\ Old(i) \in Nat
    BY <1>1, <1>2, <1>4
  <2> HIDE DEF Old
  <2>6. data'[i] >= i /\ Len(wanted) - data'[i] >= Len(data') - i
    <3>1. /\ data'[i] = data[Old(i)] /\ data[Old(i)] \in Nat /\ data[Old(i)] >= Old(i)
          /\ Len(wanted) - data[Old(i)] >= Len(data) - Old(i)
          /\ Old(i) >= i /\ Old(i) <= i + 1
      BY <2>1, <2>2, <2>3, <2>5
    <3> QED BY SMTT(30), <1>1, <1>4, <2>5, <3>1
  <2>7. ASSUME NEW j \in DOMAIN data', i <= j PROVE data'[j] - data'[i] >= j - i
    <3>1. j \in 1..(Len(data) - 1) /\ Old(j) \in 1..Len(data) /\ Old(i) \in 1..Len(data)
      BY <1>4, <2>1, <2>5
    <3>2. Old(j) >= Old(i) /\ Old(j) - Old(i) >= j - i
      BY <2>4, <2>7, <3>1
    <3>3. data[Old(j)] - data[Old(i)] >= Old(j) - Old(i)
      <4>1. Old(i) <= Old(j)
        BY <1>1, <3>1, <3>2
      <4> QED BY <2>3, <3>1, <4>1
    <3>4. /\ data'[j] = data[Old(j)] /\ data'[i] = data[Old(i)]
          /\ data[Old(j)] \in Nat /\ data[Old(i)] \in Nat
      BY <2>1, <2>2, <2>5, <3>1
    <3>5. ASSUME NEW x \in Int, NEW y \in Int, NEW z \in Int, x >= y, y >= z PROVE x >= z
      BY <3>5
    <3>6. /\ data[Old(j)] - data[Old(i)] \in Int /\ Old(j) - Old(i) \in Int /\ j - i \in Int
      BY <1>1, <2>5, <3>1, <3>4
    <3>7. data[Old(j)] - data[Old(i)] >= j - i
      BY <3>2, <3>3, <3>5, <3>6
    <3> QED BY <3>4, <3>7
  <2> QED BY <2>6, <2>7
<1> QED BY <1>4, <1>7, <1>8, <1>9, <1>11, <1>12, <1>13 DEF HandlersInv, RemoveHandler

(***************************************************************************)
(* HandlersInv holds after any sequence of insertions and removals, and    *)
(* also when the manager panics.                                           *)
(***************************************************************************)
THEOREM HandlersInvariant == HandlersSpec => []HandlersInv
<1>1. HandlersInit => HandlersInv
  <2> SUFFICES ASSUME HandlersInit PROVE HandlersInv
    OBVIOUS
  <2>1. Elements(<<>>) = {} /\ DOMAIN <<>> = {} /\ Len(<<>>) = 0
    BY DEF Elements
  <2> QED BY <2>1, EmptySeq
          DEF HandlersInit, HandlersInv, HandlersInOrder, Spaced
<1>2. ASSUME HandlersInv, [HandlersNext]_handlerVars PROVE HandlersInv'
  <2>1. ASSUME UNCHANGED <<hm, data, subscriptions, wanted>>, manager' # "assert" \/ UNCHANGED manager
        PROVE  HandlersInv'
    BY <1>2, <2>1 DEF HandlersInv, HandlersInOrder, Spaced, Elements
  <2>2. ASSUME NEW streams \in SUBSET TickstreamIndices, AddHandler(streams) PROVE HandlersInv'
    BY <1>2, <2>2, AddHandlerKeeps
  <2>3. ASSUME NEW u \in DOMAIN wanted, RemoveHandler(u) \/ UnknownHandler(u) PROVE HandlersInv'
    BY <1>2, <2>1, <2>3, RemoveHandlerKeeps DEF UnknownHandler, Panics
  <2>4. ASSUME NEW data_ix \in TickstreamIndices, Tick(data_ix) \/ TickPanics(data_ix)
        PROVE  HandlersInv'
    BY <2>1, <2>4 DEF Tick, TickPanics, Panics
  <2> QED BY <1>2, <2>1, <2>2, <2>3, <2>4 DEF HandlersNext, handlerVars
<1> QED BY <1>1, <1>2, PTL DEF HandlersSpec

(***************************************************************************)
(* remove_handler and get_mut_handler reach the handler with the uuid they *)
(* were given, the order of insertion is kept, and a handler is one with   *)
(* its own row exactly up to the place of the first removal.               *)
(***************************************************************************)
THEOREM HandlersFound == HandlersSpec => []HandlersSound
<1>1. HandlersInv => HandlersSound
  <2> SUFFICES ASSUME HandlersInv PROVE UuidsLeadToHandlers /\ RowsFollowAdditions
    BY DEF HandlersInv, HandlersSound
  <2>1. /\ Unrepeated(data) /\ DOMAIN data = 1..Len(data) /\ Len(data) \in Nat
        /\ DOMAIN hm = Elements(data)
    BY InOrderUnrepeated DEF HandlersInv
  <2>2. ASSUME NEW u \in DOMAIN hm PROVE hm[u] < Len(data) /\ data[hm[u] + 1] = u
    <3>1. PICK i \in DOMAIN data : data[i] = u
      BY <2>1 DEF Elements
    <3>2. hm[u] = i - 1
      BY <3>1 DEF HandlersInv
    <3> QED BY <2>1, <3>1, <3>2
  <2>3. Cardinality(Elements(data)) = Len(data)
    <3>1. data \in Bijection(1..Len(data), Elements(data))
      <4>1. data \in [1..Len(data) -> Elements(data)]
        BY <2>1 DEF Elements, HandlersInv
      <4> QED BY <2>1, <4>1 DEF Bijection, Injection, Surjection, IsInjective, Elements, Unrepeated
    <3>2. IsFiniteSet(1..Len(data)) /\ Cardinality(1..Len(data)) = Len(data)
      <4>1. 1 \in Int /\ Len(data) \in Int /\ Len(data) \in Nat
        BY <2>1
      <4> QED BY SMTT(30), <4>1, FS_Interval
    <3> QED BY <3>1, <3>2, FS_Bijection DEF ExistsBijection
  <2>4. RowsFollowAdditions
    <3> SUFFICES ASSUME NEW i \in DOMAIN data, NEW j \in DOMAIN data, i <= j, data[j] = j
                 PROVE  data[i] = i
      BY DEF HandlersInv, RowsFollowAdditions
    <3>1. data[i] \in Int /\ i \in Int /\ j \in Int
      BY <2>1 DEF HandlersInv
    <3>2. data[i] >= i /\ data[j] - data[i] >= j - i
      BY DEF HandlersInv, Spaced
    <3> QED BY <3>1, <3>2
  <2> QED BY <2>1, <2>2, <2>3, <2>4 DEF UuidsLeadToHandlers
<1> QED BY <1>1, HandlersInvariant, PTL

-----------------------------------------------------------------------------
(* The document store *)

(***************************************************************************)
(* What is stored can be parsed, the store works on a document only while  *)
(* the listener waits for it, and a store that starts has no request.      *)
(***************************************************************************)
StoreInv ==
    /\ StoreTypeOK
    /\ ConfirmedPersists
    /\ files \subseteq UserDocs \ Unparsable /\ todo \subseteq Documents \ Unparsable
    /\ store \in {"down", "create"} => listener = "down"
    /\ listener # "wait" => request.kind = "none"
    /\ request.kind = "insert" => request.doc \in UserDocs
    /\ store = "commit" => request.kind = "insert" /\ request.doc \notin Unparsable

\* Documents are of two kinds, and only those of the users may be unparsable.
LEMMA DocumentKinds ==
    /\ References \subseteq Documents \ Unparsable /\ UserDocs \subseteq Documents
    /\ MayFail \in BOOLEAN
  BY StoreAssumption DEF Documents

\* The spawner starts: what is on disk stays, and nothing was asked yet.
LEMMA StartingKeeps ==
    ASSUME StoreInv, Starting
    PROVE  StoreInv'
  BY DEF StoreInv, StoreTypeOK, ConfirmedPersists, Starting, CreateDir, CreateIndex, OpenIndex

\* The writer is opened and the static documents are loaded: the index only grows.
LEMMA LoadingKeeps ==
    ASSUME StoreInv, \/ OpenWriter \/ WriterFails \/ ListStaticDocs \/ LoadEnds
                     \/ \E d \in Documents : LoadStaticDoc(d)
    PROVE  StoreInv'
<1>1. CASE OpenWriter \/ WriterFails \/ LoadEnds
  BY <1>1 DEF StoreInv, StoreTypeOK, ConfirmedPersists, OpenWriter, WriterFails, LoadEnds, disk
<1>2. CASE ListStaticDocs
  BY <1>2, DocumentKinds DEF StoreInv, StoreTypeOK, ConfirmedPersists, ListStaticDocs, disk
<1>3. ASSUME NEW d \in Documents, LoadStaticDoc(d) PROVE StoreInv'
  <2>1. d \in Documents \ Unparsable
    BY <1>3 DEF LoadStaticDoc, StoreInv
  <2>2. index \subseteq index' /\ index' \subseteq index \cup {d}
    BY <1>3 DEF LoadStaticDoc
  <2> QED BY <1>3, <2>1, <2>2 DEF StoreInv, StoreTypeOK, ConfirmedPersists, LoadStaticDoc
<1> QED BY <1>1, <1>2, <1>3

\* The listener asks, and learns that a store that died does not answer.
LEMMA AskingKeeps ==
    ASSUME StoreInv, \/ AnswerCancelled
                     \/ \E d \in UserDocs : Ask("insert", d)
                     \/ \E d \in Documents : Ask("query", d)
    PROVE  StoreInv'
<1>1. CASE AnswerCancelled
  BY <1>1 DEF StoreInv, StoreTypeOK, ConfirmedPersists, AnswerCancelled, NoRequest, disk
<1>2. ASSUME NEW kind \in {"insert", "query"}, NEW d \in Documents, Ask(kind, d),
             kind = "insert" => d \in UserDocs
      PROVE  StoreInv'
  BY <1>2 DEF StoreInv, StoreTypeOK, ConfirmedPersists, Ask, disk
<1> QED BY <1>1, <1>2, DocumentKinds

\* The store handles a request: a document is confirmed when it is in the index.
LEMMA ServingKeeps ==
    ASSUME StoreInv, RefuseDoc \/ WriteDocFile \/ CommitDoc \/ ExecQuery
    PROVE  StoreInv'
<1>1. CASE RefuseDoc \/ ExecQuery
  <2>1. /\ UNCHANGED <<disk, store, todo, confirmed>>
        /\ listener' = "idle" /\ request' = NoRequest
    BY <1>1 DEF RefuseDoc, ExecQuery, Reply
  <2>2. PICK kind : /\ answer' = [kind |-> kind, doc |-> request.doc,
                                 known |-> request.doc \in confirmed]
                    /\ kind = "NotFound" => request.doc \notin index
    BY <1>1 DEF RefuseDoc, ExecQuery, Reply
  <2>3. answer'.kind = kind /\ (answer'.known <=> request.doc \in confirmed)
    BY <2>2, Zenon
  <2>4. answer'.known => answer'.kind # "NotFound"
    BY <2>2, <2>3 DEF StoreInv, ConfirmedPersists
  <2> QED BY <1>1, <2>1, <2>4
          DEF StoreInv, StoreTypeOK, ConfirmedPersists, NoRequest, disk, RefuseDoc, ExecQuery
<1>2. CASE WriteDocFile
  <2>1. request.doc \in UserDocs \ Unparsable
    BY <1>2 DEF WriteDocFile, StoreInv
  <2>2. files \subseteq files' /\ files' \subseteq files \cup {request.doc}
    BY <1>2 DEF WriteDocFile
  <2>3. listener = "wait"
    BY <1>2 DEF WriteDocFile, StoreInv
  <2> QED BY <1>2, <2>1, <2>2, <2>3 DEF StoreInv, StoreTypeOK, ConfirmedPersists, WriteDocFile
<1>3. CASE CommitDoc
  <2>1. request.doc \in UserDocs \ Unparsable
    BY <1>3 DEF CommitDoc, StoreInv
  <2>2. /\ listener' = "idle" /\ request' = NoRequest /\ answer'.kind # "NotFound"
        /\ \/ index' = index \cup {request.doc} /\ confirmed' = confirmed \cup {request.doc}
           \/ index' = index /\ confirmed' = confirmed
    BY <1>3 DEF CommitDoc, Reply
  <2> QED BY <1>3, <2>1, <2>2, DocumentKinds
          DEF StoreInv, StoreTypeOK, ConfirmedPersists, CommitDoc, NoRequest
<1> QED BY <1>1, <1>2, <1>3

(***************************************************************************)
(* StoreInv holds across any number of stops at any moment.                *)
(***************************************************************************)
THEOREM StoreInvariant == StoreSpec => []StoreInv
<1>1. StoreInit => StoreInv
  BY DocumentKinds DEF StoreInit, StoreInv, StoreTypeOK, ConfirmedPersists, NoRequest, NoAnswer
<1>2. ASSUME StoreInv, [StoreNext]_storeVars PROVE StoreInv'
  <2>1. CASE UNCHANGED storeVars
    BY <1>2, <2>1 DEF StoreInv, StoreTypeOK, ConfirmedPersists, storeVars, disk
  <2>2. CASE SpawnerStops
    BY <1>2, <2>2 DEF StoreInv, StoreTypeOK, ConfirmedPersists, SpawnerStops, NoRequest, disk
  <2> QED BY <1>2, <2>1, <2>2, StartingKeeps, LoadingKeeps, AskingKeeps, ServingKeeps
          DEF StoreNext, Serving
<1> QED BY <1>1, <1>2, PTL DEF StoreSpec

(***************************************************************************)
(* A document whose insertion was confirmed is in the index ever after,    *)
(* and no later query says that it does not exist.                         *)
(***************************************************************************)
THEOREM StoreKeepsItsWord == StoreSpec => []StoreSound
<1>1. StoreInv => StoreSound
  BY DEF StoreInv, StoreSound
<1> QED BY <1>1, StoreInvariant, PTL

-----------------------------------------------------------------------------
(* Forked streams *)

Links == [by : {"held", "client", "thread", "gone"}, chan : Seq(Nat \ {0}), hand : Nat,
          first : Nat, last : Nat, n : Nat, gate : Nat]

\* The newest message that has reached a link, or 0.
Newest(l) == IF l.chan # <<>> THEN l.chan[1] ELSE IF l.hand # 0 THEN l.hand ELSE l.last

(***************************************************************************)
(* What a link has got, what it has at hand and what is in its channel     *)
(* follow on one another.                                                  *)
(***************************************************************************)
LinkSound(l) ==
    /\ l \in Links /\ Len(l.chan) <= 1
    /\ l.n > 0 => l.first > 0 /\ l.last = l.first + l.n - 1
    /\ l.n = 0 => l.last = 0
    /\ l.hand # 0 /\ l.n > 0 => l.hand = l.last + 1
    /\ l.chan # <<>> /\ l.hand # 0 => l.chan[1] = l.hand + 1
    /\ l.chan # <<>> /\ l.hand = 0 /\ l.n > 0 => l.chan[1] = l.last + 1

(***************************************************************************)
(* The first link is as far as the broker, and each of the others, once    *)
(* something has reached it, as far as what the link before it has got:    *)
(* that one copies every message, and has done so since its gate was       *)
(* raised.  Only the last link is held by the client object.               *)
(***************************************************************************)
ChainSound(c, total, flags) ==
    /\ c \in Seq(Links) /\ Len(c) > 0
    /\ \A i \in 1..Len(c) : LinkSound(c[i]) /\ (c[i].by = "held" <=> i = Len(c))
    /\ Newest(c[1]) = total
    /\ \A i \in 1..(Len(c) - 1) :
          Newest(c[i + 1]) # 0 => c[i].gate \in flags /\ Newest(c[i + 1]) = c[i].last

ForksInv ==
    /\ registered \subseteq TickSymbols
    /\ chain \in [Forkable -> Seq(Links)]
    /\ sent \in [Forkable -> Nat] /\ tailFlag \in [Forkable -> Nat]
    /\ raised \in [Forkable -> SUBSET Nat]
    /\ caller \in [pc : {"idle", "fork", "hand", "send", "panicked"}, stream : Forkable]
    /\ unforked \subseteq registered
    /\ \A s \in Forkable : ChainSound(chain[s], sent[s], raised[s])

(***************************************************************************)
(* A link that has got everything up to its newest message and whose       *)
(* channel is empty can get the next one, and any when it has got none.    *)
(***************************************************************************)
LEMMA LinkReceives ==
    ASSUME NEW l, LinkSound(l), l.chan = <<>>, NEW m \in Nat \ {0},
           Newest(l) # 0 => m = Newest(l) + 1
    PROVE  LET k == [l EXCEPT !.chan = Append(@, m)]
           IN  LinkSound(k) /\ Newest(k) = m /\ k.by = l.by /\ k.gate = l.gate /\ k.last = l.last
<1> DEFINE k == [l EXCEPT !.chan = Append(@, m)]
<1>1. l \in Links
  BY DEF LinkSound
<1>2. Append(l.chan, m) = <<m>> /\ <<m>> \in Seq(Nat \ {0}) /\ Len(<<m>>) = 1 /\ <<m>> # <<>>
      /\ <<m>>[1] = m
  OBVIOUS
<1>3. k \in Links /\ k.chan = <<m>>
      /\ k.hand = l.hand /\ k.first = l.first /\ k.last = l.last /\ k.n = l.n /\ k.by = l.by
      /\ k.gate = l.gate
  BY <1>1, <1>2 DEF Links
<1>4. l.hand \in Nat /\ l.first \in Nat /\ l.last \in Nat /\ l.n \in Nat
  BY <1>1 DEF Links
<1> HIDE DEF k
<1>5. Newest(l) = IF l.hand # 0 THEN l.hand ELSE l.last
  BY DEF Newest
<1>6. LinkSound(k)
  BY <1>2, <1>3, <1>4, <1>5 DEF LinkSound
<1>7. Newest(k) = m
  BY <1>2, <1>3 DEF Newest
<1> QED BY <1>3, <1>6, <1>7 DEF k

\* A consumer takes the message out of its channel.
LEMMA LinkTakes ==
    ASSUME NEW l, LinkSound(l), l.chan # <<>>, l.hand = 0
    PROVE  LET k == [l EXCEPT !.hand = Head(l.chan), !.chan = Tail(@)]
           IN  LinkSound(k) /\ Newest(k) = Newest(l) /\ k.by = l.by /\ k.gate = l.gate
               /\ k.last = l.last
<1> DEFINE k == [l EXCEPT !.hand = Head(l.chan), !.chan = Tail(@)]
<1>1. l \in Links /\ l.chan \in Seq(Nat \ {0}) /\ Len(l.chan) <= 1
  BY DEF LinkSound, Links
<1>2. Head(l.chan) = l.chan[1] /\ Head(l.chan) \in Nat \ {0} /\ Tail(l.chan) = <<>>
      /\ <<>> \in Seq(Nat \ {0}) /\ Len(<<>>) = 0
  BY <1>1, HeadTailProperties, EmptySeq
<1>3. k \in Links /\ k.chan = <<>> /\ k.hand = l.chan[1]
      /\ k.first = l.first /\ k.last = l.last /\ k.n = l.n /\ k.by = l.by /\ k.gate = l.gate
  BY <1>1, <1>2 DEF Links
<1>4. l.first \in Nat /\ l.last \in Nat /\ l.n \in Nat
  BY <1>1 DEF Links
<1> HIDE DEF k
<1>5. LinkSound(k)
  BY <1>2, <1>3, <1>4 DEF LinkSound
<1>6. Newest(k) = Newest(l)
  BY <1>2, <1>3 DEF Newest
<1> QED BY <1>3, <1>5, <1>6 DEF k

\* A consumer gets the message at hand.
LEMMA LinkGets ==
    ASSUME NEW l, LinkSound(l), l.hand # 0
    PROVE  /\ LinkSound(Got(l)) /\ Newest(Got(l)) = Newest(l) /\ Got(l).by = l.by
           /\ Got(l).gate = l.gate /\ Got(l).last = l.hand /\ (l.last # 0 => l.hand = l.last + 1)
<1>1. l \in Links /\ l.hand \in Nat /\ l.first \in Nat /\ l.last \in Nat /\ l.n \in Nat
  BY DEF LinkSound, Links
<1>2. /\ Got(l) \in Links /\ Got(l).chan = l.chan /\ Got(l).hand = 0 /\ Got(l).n = l.n + 1
      /\ Got(l).last = l.hand /\ Got(l).first = IF l.n = 0 THEN l.hand ELSE l.first
      /\ Got(l).by = l.by /\ Got(l).gate = l.gate
  <2> DEFINE f == IF l.n = 0 THEN l.hand ELSE l.first
             k == [l EXCEPT !.hand = 0, !.n = @ + 1, !.last = l.hand, !.first = f]
  <2>1. Got(l) = k
    BY <1>1 DEF Links, Got
  <2>2. f \in Nat /\ l.n + 1 \in Nat
    BY <1>1
  <2> HIDE DEF f
  <2>3. /\ k \in Links /\ k.chan = l.chan /\ k.hand = 0 /\ k.n = l.n + 1
        /\ k.last = l.hand /\ k.first = f /\ k.by = l.by /\ k.gate = l.gate
    BY <1>1, <2>2 DEF Links
  <2> QED BY <2>1, <2>3 DEF f
<1>3. LinkSound(Got(l))
  BY <1>1, <1>2 DEF LinkSound
<1>4. Newest(Got(l)) = Newest(l)
  BY <1>1, <1>2 DEF Newest
<1>5. l.last # 0 => l.hand = l.last + 1
  BY <1>1 DEF LinkSound
<1> QED BY <1>2, <1>3, <1>4, <1>5

\* The consumer and the gate of a link do not matter to what it got.
LEMMA LinkRecast ==
    ASSUME NEW l, LinkSound(l), NEW k \in Links,
           k.chan = l.chan, k.hand = l.hand, k.first = l.first, k.last = l.last, k.n = l.n
    PROVE  LinkSound(k) /\ Newest(k) = Newest(l)
  BY DEF LinkSound, Newest

\* A new link has got nothing.
LEMMA NewLinkSound ==
    LinkSound(NewLink) /\ Newest(NewLink) = 0 /\ NewLink.by = "held"
<1>1. NewLink \in Links
  BY EmptySeq DEF NewLink, Links
<1> QED BY <1>1, EmptySeq DEF NewLink, LinkSound, Newest

(***************************************************************************)
(* One link of a chain changes: what had reached it stays the same, and    *)
(* what it had got too, unless it does not copy.                           *)
(***************************************************************************)
LEMMA ChainChanges ==
    ASSUME NEW c, NEW total, NEW flags, ChainSound(c, total, flags),
           NEW i \in 1..Len(c), NEW l, LinkSound(l), Newest(l) = Newest(c[i]),
           l.by = "held" <=> c[i].by = "held", l.gate = c[i].gate,
           l.last = c[i].last \/ l.gate \notin flags
    PROVE  ChainSound([c EXCEPT ![i] = l], total, flags)
<1> DEFINE d == [c EXCEPT ![i] = l]
<1>1. c \in Seq(Links) /\ l \in Links /\ Len(c) \in Nat /\ Len(c) > 0
  BY LenProperties DEF ChainSound, LinkSound
<1>2. /\ d \in Seq(Links) /\ Len(d) = Len(c)
      /\ \A j \in 1..Len(c) : d[j] = IF j = i THEN l ELSE c[j]
  BY <1>1, ExceptSeq
<1> HIDE DEF d
<1>3. \A j \in 1..Len(c) : LinkSound(d[j]) /\ (d[j].by = "held" <=> j = Len(c))
  BY <1>2 DEF ChainSound
<1>4. Newest(d[1]) = total
  BY <1>1, <1>2 DEF ChainSound
<1>5. ASSUME NEW j \in 1..(Len(c) - 1), Newest(d[j + 1]) # 0
      PROVE  d[j].gate \in flags /\ Newest(d[j + 1]) = d[j].last
  <2>1. j \in 1..Len(c) /\ j + 1 \in 1..Len(c)
    BY <1>1
  <2>2. Newest(d[j + 1]) = Newest(c[j + 1])
    BY <1>2, <2>1
  <2>3. c[j].gate \in flags /\ Newest(c[j + 1]) = c[j].last
    BY <1>5, <2>2 DEF ChainSound
  <2> QED BY <1>2, <2>1, <2>2, <2>3
<1> QED BY <1>1, <1>2, <1>3, <1>4, <1>5 DEF ChainSound, d

(***************************************************************************)
(* A link gets its message and copies it to the next link, which has room. *)
(***************************************************************************)
LEMMA ChainCopies ==
    ASSUME NEW c, NEW total, NEW flags, ChainSound(c, total, flags),
           NEW i \in 1..(Len(c) - 1), c[i].hand # 0, c[i].gate \in flags, c[i + 1].chan = <<>>
    PROVE  ChainSound([c EXCEPT ![i] = Got(@), ![i + 1].chan = Append(@, c[i].hand)],
                      total, flags)
<1> DEFINE m == c[i].hand
           l == [c[i + 1] EXCEPT !.chan = Append(@, m)]
           d == [c EXCEPT ![i] = Got(@), ![i + 1].chan = Append(@, c[i].hand)]
<1>1. /\ c \in Seq(Links) /\ Len(c) \in Nat /\ Len(c) > 0 /\ DOMAIN c = 1..Len(c)
      /\ i \in 1..Len(c) /\ i + 1 \in 1..Len(c) /\ i # i + 1 /\ i + 1 # 1
  BY LenProperties DEF ChainSound
<1>2. LinkSound(c[i]) /\ LinkSound(c[i + 1]) /\ c[i] \in Links
  BY <1>1 DEF ChainSound, LinkSound
<1>3. m \in Nat \ {0}
  BY <1>2 DEF Links
<1>4. Newest(c[i + 1]) # 0 => m = Newest(c[i + 1]) + 1
  <2> SUFFICES ASSUME Newest(c[i + 1]) # 0 PROVE m = Newest(c[i + 1]) + 1
    OBVIOUS
  <2>1. Newest(c[i + 1]) = c[i].last
    BY DEF ChainSound
  <2> QED BY <1>2, <2>1, LinkGets
<1>5. /\ LinkSound(l) /\ Newest(l) = m /\ l.by = c[i + 1].by /\ l.gate = c[i + 1].gate
      /\ l.last = c[i + 1].last
  BY <1>2, <1>3, <1>4, LinkReceives
<1>6. /\ LinkSound(Got(c[i])) /\ Newest(Got(c[i])) = Newest(c[i]) /\ Got(c[i]).by = c[i].by
      /\ Got(c[i]).gate = c[i].gate /\ Got(c[i]).last = m
  BY <1>2, LinkGets
<1>7. d = [[c EXCEPT ![i] = Got(c[i])] EXCEPT ![i + 1] = l]
  BY <1>1
<1>8. /\ d \in Seq(Links) /\ Len(d) = Len(c)
      /\ \A j \in 1..Len(c) : d[j] = IF j = i THEN Got(c[i]) ELSE IF j = i + 1 THEN l ELSE c[j]
  <2> DEFINE b == [c EXCEPT ![i] = Got(c[i])]
  <2>1. Got(c[i]) \in Links /\ l \in Links
    BY <1>5, <1>6 DEF LinkSound
  <2>2. /\ b \in Seq(Links) /\ Len(b) = Len(c)
        /\ \A j \in 1..Len(c) : b[j] = IF j = i THEN Got(c[i]) ELSE c[j]
    BY <1>1, <2>1, ExceptSeq
  <2> HIDE DEF b, l, m
  <2>3. /\ [b EXCEPT ![i + 1] = l] \in Seq(Links) /\ Len([b EXCEPT ![i + 1] = l]) = Len(c)
        /\ \A j \in 1..Len(c) : [b EXCEPT ![i + 1] = l][j] = IF j = i + 1 THEN l ELSE b[j]
    BY <1>1, <2>1, <2>2, ExceptSeq
  <2> QED BY <1>1, <1>7, <2>2, <2>3 DEF b
<1> HIDE DEF m, l, d
<1>9. ASSUME NEW j \in 1..Len(c) PROVE LinkSound(d[j]) /\ (d[j].by = "held" <=> j = Len(c))
  <2>1. LinkSound(c[j]) /\ (c[j].by = "held" <=> j = Len(c))
    BY DEF ChainSound
  <2>2. LinkSound(d[j]) /\ d[j].by = c[j].by
    BY <1>5, <1>6, <1>8, <2>1
  <2> QED BY <2>1, <2>2
<1>10. Newest(d[1]) = total
  <2>1. Newest(c[1]) = total
    BY DEF ChainSound
  <2>2. 1 \in 1..Len(c)
    BY <1>1
  <2>3. d[1] = IF 1 = i THEN Got(c[i]) ELSE c[1]
    BY <1>1, <1>8, <2>2
  <2> QED BY <1>6, <2>1, <2>3
<1>11. ASSUME NEW j \in 1..(Len(c) - 1), Newest(d[j + 1]) # 0
       PROVE  d[j].gate \in flags /\ Newest(d[j + 1]) = d[j].last
  <2>1. j \in 1..Len(c) /\ j + 1 \in 1..Len(c) /\ j \in Int /\ i \in Int
    BY <1>1
  <2>2. CASE j = i
    BY <1>5, <1>6, <1>8, <2>1, <2>2
  <2>3. CASE j # i
    <3>1. Newest(d[j + 1]) = Newest(c[j + 1])
      BY <1>6, <1>8, <2>1, <2>3
    <3>2. c[j].gate \in flags /\ Newest(c[j + 1]) = c[j].last
      BY <1>11, <3>1 DEF ChainSound
    <3>3. d[j].gate = c[j].gate /\ d[j].last = c[j].last
      BY <1>5, <1>8, <2>1, <2>3
    <3> QED BY <3>1, <3>2, <3>3
  <2> QED BY <2>2, <2>3
<1> QED BY <1>1, <1>8, <1>9, <1>10, <1>11 DEF ChainSound, d

\* The broker sends a message into the first link, which has room.
LEMMA ChainFed ==
    ASSUME NEW c, NEW total \in Nat, NEW flags, ChainSound(c, total, flags), c[1].chan = <<>>
    PROVE  ChainSound([c EXCEPT ![1].chan = Append(@, total + 1)], total + 1, flags)
<1> DEFINE l == [c[1] EXCEPT !.chan = Append(@, total + 1)]
           d == [c EXCEPT ![1] = l]
<1>1. c \in Seq(Links) /\ Len(c) \in Nat /\ Len(c) > 0 /\ DOMAIN c = 1..Len(c) /\ 1 \in 1..Len(c)
  BY LenProperties DEF ChainSound
<1>2. LinkSound(c[1]) /\ Newest(c[1]) = total
  BY <1>1 DEF ChainSound
<1> total + 1 \in Nat \ {0}
  OBVIOUS
<1>3. /\ LinkSound(l) /\ Newest(l) = total + 1 /\ l.by = c[1].by /\ l.gate = c[1].gate
      /\ l.last = c[1].last /\ l \in Links
  BY ZenonT(60), <1>2, LinkReceives DEF LinkSound
<1>4. [c EXCEPT ![1].chan = Append(@, total + 1)] = d
  BY <1>1
<1> HIDE DEF l
<1>5. /\ d \in Seq(Links) /\ Len(d) = Len(c)
      /\ \A j \in 1..Len(c) : d[j] = IF j = 1 THEN l ELSE c[j]
  BY <1>1, <1>3, ExceptSeq
<1> HIDE DEF d
<1>6. ASSUME NEW j \in 1..(Len(c) - 1), Newest(d[j + 1]) # 0
      PROVE  d[j].gate \in flags /\ Newest(d[j + 1]) = d[j].last
  <2>1. j \in 1..Len(c) /\ j + 1 \in 1..Len(c) /\ j + 1 # 1
    BY <1>1
  <2>2. c[j].gate \in flags /\ Newest(c[j + 1]) = c[j].last /\ d[j + 1] = c[j + 1]
    BY <1>5, <1>6, <2>1 DEF ChainSound
  <2> QED BY <1>3, <1>5, <2>1, <2>2
<1>7. \A j \in 1..Len(c) : LinkSound(d[j]) /\ (d[j].by = "held" <=> j = Len(c))
  BY ZenonT(60), <1>1, <1>3, <1>5 DEF ChainSound
<1> QED BY <1>1, <1>3, <1>4, <1>5, <1>6, <1>7 DEF ChainSound

\* The held link is given away and a new one takes its place.
LEMMA ChainForks ==
    ASSUME NEW c, NEW total, NEW flags, ChainSound(c, total, flags),
           NEW by \in {"client", "thread"}, NEW gate \in Nat
    PROVE  ChainSound(Append([c EXCEPT ![Len(c)].by = by, ![Len(c)].gate = gate], NewLink),
                      total, flags)
<1> DEFINE n == Len(c)
           l == [c[n] EXCEPT !.by = by, !.gate = gate]
           b == [c EXCEPT ![n] = l]
           d == Append(b, NewLink)
<1>1. c \in Seq(Links) /\ n \in Nat /\ n > 0 /\ DOMAIN c = 1..n /\ n \in 1..n
  BY LenProperties DEF ChainSound
<1>2. LinkSound(c[n])
  BY <1>1 DEF ChainSound
<1>3. LinkSound(l) /\ Newest(l) = Newest(c[n]) /\ l.by = by /\ l \in Links
  <2>1. c[n] \in Links
    BY <1>2 DEF LinkSound
  <2>2. /\ l \in Links /\ l.chan = c[n].chan /\ l.hand = c[n].hand /\ l.first = c[n].first
        /\ l.last = c[n].last /\ l.n = c[n].n /\ l.by = by
    BY <2>1 DEF Links
  <2> QED BY <1>2, <2>2, LinkRecast
<1>4. [c EXCEPT ![n].by = by, ![n].gate = gate] = b
  BY <1>1
<1> HIDE DEF l
<1> by # "held"
  OBVIOUS
<1>5. /\ b \in Seq(Links) /\ Len(b) = n
      /\ \A j \in 1..n : b[j] = IF j = n THEN l ELSE c[j]
  BY <1>1, <1>3, ExceptSeq
<1>6. NewLink \in Links /\ LinkSound(NewLink) /\ Newest(NewLink) = 0 /\ NewLink.by = "held"
  BY NewLinkSound DEF LinkSound
<1> HIDE DEF b
<1>7. /\ d \in Seq(Links) /\ Len(d) = n + 1
      /\ \A j \in 1..n : d[j] = b[j]
      /\ d[n + 1] = NewLink
  BY <1>1, <1>5, <1>6, AppendProperties
<1>a. /\ \A j \in 1..n : LinkSound(c[j]) /\ (c[j].by = "held" <=> j = n)
      /\ Newest(c[1]) = total
      /\ \A j \in 1..(n - 1) :
            Newest(c[j + 1]) # 0 => c[j].gate \in flags /\ Newest(c[j + 1]) = c[j].last
  BY DEF ChainSound
<1> HIDE DEF d, n
<1>8. ASSUME NEW j \in 1..(n + 1) PROVE LinkSound(d[j]) /\ (d[j].by = "held" <=> j = n + 1)
  <2>1. CASE j = n + 1
    BY <1>6, <1>7, <2>1
  <2>2. CASE j = n
    BY <1>1, <1>3, <1>5, <1>7, <2>2
  <2>3. CASE j \in 1..n /\ j # n
    <3>1. d[j] = c[j] /\ LinkSound(c[j]) /\ c[j].by # "held" /\ j # n + 1
      BY <1>1, <1>5, <1>7, <1>a, <2>3
    <3> QED BY <3>1
  <2> QED BY <1>1, <2>1, <2>2, <2>3
<1>9. Newest(d[1]) = total
  BY <1>1, <1>3, <1>5, <1>7, <1>a
<1>10. ASSUME NEW j \in 1..((n + 1) - 1), Newest(d[j + 1]) # 0
       PROVE  d[j].gate \in flags /\ Newest(d[j + 1]) = d[j].last
  <2>1. j # n
    BY <1>6, <1>7, <1>10
  <2>2. j \in 1..(n - 1) /\ j \in 1..n /\ j \in Int /\ j + 1 \in 1..n
    BY <1>1, <2>1
  <2>3. Newest(d[j + 1]) = Newest(c[j + 1]) /\ d[j] = c[j]
    BY <1>3, <1>5, <1>7, <2>1, <2>2
  <2> QED BY <1>10, <1>a, <2>2, <2>3
<1>11. Len(d) > 0 /\ Len(d) - 1 = (n + 1) - 1
  BY <1>1, <1>7
<1>12. ChainSound(d, total, flags)
  BY <1>7, <1>8, <1>9, <1>10, <1>11 DEF ChainSound
<1> QED BY <1>4, <1>12 DEF d, n

\* A flag more is raised: a gate that was up stays up.
LEMMA ChainGated ==
    ASSUME NEW c, NEW total, NEW flags, NEW more, flags \subseteq more,
           ChainSound(c, total, flags)
    PROVE  ChainSound(c, total, more)
  BY DEF ChainSound

-----------------------------------------------------------------------------

\* The state variables that stay as they are, and one chain that changes.
LEMMA OneChain ==
    ASSUME ForksInv, NEW s \in Forkable, NEW c, NEW m \in Nat, NEW flags \in SUBSET Nat,
           ChainSound(c, m, flags),
           registered' = registered, chain' = [chain EXCEPT ![s] = c],
           sent' = [sent EXCEPT ![s] = m], raised' = [raised EXCEPT ![s] = flags],
           tailFlag' \in [Forkable -> Nat],
           caller' \in [pc : {"idle", "fork", "hand", "send", "panicked"}, stream : Forkable],
           unforked' \subseteq registered
    PROVE  ForksInv'
<1>1. c \in Seq(Links)
  BY DEF ChainSound
<1>2. Forkable' = Forkable
  BY DEF Forkable
<1>3. /\ chain \in [Forkable -> Seq(Links)] /\ sent \in [Forkable -> Nat]
      /\ raised \in [Forkable -> SUBSET Nat]
      /\ \A t \in Forkable : ChainSound(chain[t], sent[t], raised[t])
  BY DEF ForksInv
<1>4. /\ chain' \in [Forkable -> Seq(Links)] /\ sent' \in [Forkable -> Nat]
      /\ raised' \in [Forkable -> SUBSET Nat]
  BY <1>1, <1>3
<1>5. ASSUME NEW t \in Forkable PROVE ChainSound(chain'[t], sent'[t], raised'[t])
  <2>1. CASE t = s
    BY <1>3, <2>1
  <2>2. CASE t # s
    <3>1. chain'[t] = chain[t] /\ sent'[t] = sent[t] /\ raised'[t] = raised[t]
      BY <1>3, <2>2
    <3> QED BY <1>3, <3>1
  <2> QED BY <2>1, <2>2
<1>6. registered' \subseteq TickSymbols
  BY DEF ForksInv
<1> QED BY <1>2, <1>4, <1>5, <1>6 DEF ForksInv

\* What the lemma needs of the state before the step.
LEMMA ForkFacts ==
    ASSUME ForksInv, NEW s \in Forkable
    PROVE  /\ sent[s] \in Nat /\ raised[s] \in SUBSET Nat /\ tailFlag[s] \in Nat
           /\ ChainSound(chain[s], sent[s], raised[s])
           /\ Len(chain[s]) \in Nat /\ DOMAIN chain[s] = 1..Len(chain[s])
           /\ sent = [sent EXCEPT ![s] = sent[s]]
           /\ raised = [raised EXCEPT ![s] = raised[s]]
           /\ chain \in [Forkable -> Seq(Links)] /\ sent \in [Forkable -> Nat]
           /\ raised \in [Forkable -> SUBSET Nat] /\ tailFlag \in [Forkable -> Nat]
           /\ caller \in [pc : {"idle", "fork", "hand", "send", "panicked"}, stream : Forkable]
           /\ unforked \subseteq registered
<1>1. /\ chain \in [Forkable -> Seq(Links)] /\ sent \in [Forkable -> Nat]
      /\ raised \in [Forkable -> SUBSET Nat] /\ tailFlag \in [Forkable -> Nat]
      /\ caller \in [pc : {"idle", "fork", "hand", "send", "panicked"}, stream : Forkable]
      /\ unforked \subseteq registered
      /\ ChainSound(chain[s], sent[s], raised[s])
  BY DEF ForksInv
<1>2. Len(chain[s]) \in Nat /\ DOMAIN chain[s] = 1..Len(chain[s])
  BY <1>1, LenProperties
<1> QED BY <1>1, <1>2

\* sub_ticks and get_stream give away the stream the client holds.
LEMMA SubTicksKeeps ==
    ASSUME ForksInv, NEW s \in Forkable, SubTicks(s)
    PROVE  ForksInv'
<1> DEFINE n == Len(chain[s])
           c == Append([chain[s] EXCEPT ![n].by = "client", ![n].gate = n], NewLink)
           flags == raised[s] \cup {tailFlag[s]}
<1>1. /\ sent[s] \in Nat /\ raised[s] \in SUBSET Nat /\ tailFlag[s] \in Nat /\ n \in Nat
      /\ ChainSound(chain[s], sent[s], raised[s])
      /\ sent = [sent EXCEPT ![s] = sent[s]]
      /\ tailFlag \in [Forkable -> Nat]
      /\ caller \in [pc : {"idle", "fork", "hand", "send", "panicked"}, stream : Forkable]
      /\ unforked \subseteq registered
  BY ForkFacts
<1>2. ChainSound(c, sent[s], raised[s])
  BY <1>1, ChainForks
<1>3. flags \in SUBSET Nat /\ raised[s] \subseteq flags
  BY <1>1
<1>4. ChainSound(c, sent[s], flags)
  BY <1>2, <1>3, ChainGated
<1>5. chain' = [chain EXCEPT ![s] = c]
  <2>1. ForkedTo(s, "client", n) = [chain EXCEPT ![s] = c]
    BY ForkFacts DEF ForkedTo
  <2>2. chain' = ForkedTo(s, "client", n)
    BY DEF SubTicks
  <2> QED BY <2>1, <2>2
<1>6. /\ registered' = registered /\ sent' = sent /\ caller' = caller /\ unforked' = unforked
      /\ raised' = [raised EXCEPT ![s] = flags] /\ tailFlag' = [tailFlag EXCEPT ![s] = n]
  BY ForkFacts DEF SubTicks
<1>7. tailFlag' \in [Forkable -> Nat]
  BY <1>1, <1>6
<1> HIDE DEF c, flags, n
<1> QED BY <1>1, <1>3, <1>4, <1>5, <1>6, <1>7, OneChain

\* init_sim_loop forks the Pushstream, and then every tickstream.
LEMMA LoopForksKeep ==
    ASSUME ForksInv, NEW s \in Forkable,
           chain' = ForkedTo(s, "thread", tailFlag[s]),
           UNCHANGED <<registered, tailFlag, raised, sent>>, unforked' \subseteq registered,
           caller' \in [pc : {"idle", "fork", "hand", "send", "panicked"}, stream : Forkable]
    PROVE  ForksInv'
<1> DEFINE n == Len(chain[s])
           c == Append([chain[s] EXCEPT ![n].by = "thread", ![n].gate = tailFlag[s]], NewLink)
<1>1. /\ sent[s] \in Nat /\ raised[s] \in SUBSET Nat /\ tailFlag[s] \in Nat
      /\ ChainSound(chain[s], sent[s], raised[s])
      /\ sent = [sent EXCEPT ![s] = sent[s]] /\ raised = [raised EXCEPT ![s] = raised[s]]
      /\ tailFlag \in [Forkable -> Nat]
  BY ForkFacts
<1>2. ChainSound(c, sent[s], raised[s])
  BY <1>1, ChainForks
<1>3. chain' = [chain EXCEPT ![s] = c]
  <2>1. ForkedTo(s, "thread", tailFlag[s]) = [chain EXCEPT ![s] = c]
    BY ForkFacts DEF ForkedTo
  <2> QED BY <2>1
<1> HIDE DEF c
<1> QED BY <1>1, <1>2, <1>3, OneChain

LEMMA InitSimLoopKeeps ==
    ASSUME ForksInv, InitSimLoop
    PROVE  ForksInv'
<1>1. Pushstream \in Forkable
  BY DEF Forkable
<1>2. /\ caller \in [pc : {"idle", "fork", "hand", "send", "panicked"}, stream : Forkable]
      /\ unforked \subseteq registered
  BY <1>1, ForkFacts
<1>3. /\ chain' = ForkedTo(Pushstream, "thread", tailFlag[Pushstream])
      /\ UNCHANGED <<registered, tailFlag, raised, sent>> /\ unforked' = registered
      /\ caller' = [caller EXCEPT !.pc = "fork"]
  BY DEF InitSimLoop
<1>4. caller' \in [pc : {"idle", "fork", "hand", "send", "panicked"}, stream : Forkable]
  BY <1>2, <1>3
<1> QED BY <1>1, <1>3, <1>4, LoopForksKeep

LEMMA ForkTickstreamKeeps ==
    ASSUME ForksInv, NEW s \in Forkable, ForkTickstream(s)
    PROVE  ForksInv'
<1>1. unforked \subseteq registered
  BY ForkFacts
<1>2. /\ chain' = ForkedTo(s, "thread", tailFlag[s]) /\ unforked' = unforked \ {s}
      /\ UNCHANGED <<registered, tailFlag, raised, sent>>
      /\ caller' = [pc |-> "hand", stream |-> s]
  BY DEF ForkTickstream
<1>3. caller' \in [pc : {"idle", "fork", "hand", "send", "panicked"}, stream : Forkable]
  BY <1>2
<1> QED BY <1>1, <1>2, <1>3, LoopForksKeep

\* Steps of the caller that touch no chain.
LEMMA ChainsUntouched ==
    ASSUME ForksInv, UNCHANGED <<registered, chain, tailFlag, raised, sent>>,
           unforked' \subseteq registered,
           caller' \in [pc : {"idle", "fork", "hand", "send", "panicked"}, stream : Forkable]
    PROVE  ForksInv'
  BY DEF ForksInv, Forkable

LEMMA CallerKeeps ==
    ASSUME ForksInv,
           \/ HandTail \/ SpawnConsumers
           \/ \E s \in Forkable : ClientTick(s)
           \/ UNCHANGED forkVars
    PROVE  ForksInv'
<1>1. Pushstream \in Forkable
  BY DEF Forkable
<1>2. /\ caller \in [pc : {"idle", "fork", "hand", "send", "panicked"}, stream : Forkable]
      /\ unforked \subseteq registered
  BY <1>1, ForkFacts
<1>3. /\ UNCHANGED <<registered, chain, tailFlag, raised, sent>>
      /\ unforked' = unforked
      /\ \/ caller' = [caller EXCEPT !.pc = "fork"] \/ caller' = Idle \/ caller' = caller
         \/ \E s \in Forkable : caller' = [pc |-> "send", stream |-> s]
  BY DEF HandTail, SpawnConsumers, ClientTick, forkVars
<1>4. caller' \in [pc : {"idle", "fork", "hand", "send", "panicked"}, stream : Forkable]
  BY <1>1, <1>2, <1>3 DEF Idle
<1> QED BY <1>2, <1>3, <1>4, ChainsUntouched

\* send_client puts the next tick into the broker's channel, or panics.
LEMMA SendClientKeeps ==
    ASSUME ForksInv, SendClient
    PROVE  ForksInv'
<1> DEFINE s == caller.stream
<1>1. Pushstream \in Forkable
  BY DEF Forkable
<1>2. /\ caller \in [pc : {"idle", "fork", "hand", "send", "panicked"}, stream : Forkable]
      /\ unforked \subseteq registered
  BY <1>1, ForkFacts
<1>3. s \in Forkable /\ Idle \in [pc : {"idle", "fork", "hand", "send", "panicked"}, stream : Forkable]
  BY <1>1, <1>2 DEF Idle
<1>4. /\ sent[s] \in Nat /\ raised[s] \in SUBSET Nat /\ tailFlag \in [Forkable -> Nat]
      /\ ChainSound(chain[s], sent[s], raised[s])
      /\ raised = [raised EXCEPT ![s] = raised[s]]
      /\ chain \in [Forkable -> Seq(Links)] /\ sent \in [Forkable -> Nat]
  BY <1>3, ForkFacts
<1>5. UNCHANGED <<registered, tailFlag, raised, unforked>>
  BY DEF SendClient
<1>6. CASE chain[s][1].by = "gone"
  <2>1. chain' = chain /\ sent' = sent /\ caller' = [caller EXCEPT !.pc = "panicked"]
    BY <1>6 DEF SendClient
  <2>2. caller' \in [pc : {"idle", "fork", "hand", "send", "panicked"}, stream : Forkable]
    BY <1>2, <2>1
  <2> QED BY <1>2, <1>5, <2>1, <2>2, ChainsUntouched
<1>7. CASE chain[s][1].by # "gone"
  <2> DEFINE c == [chain[s] EXCEPT ![1].chan = Append(@, sent[s] + 1)]
  <2>1. /\ chain' = [chain EXCEPT ![s][1].chan = Append(@, sent[s] + 1)]
        /\ sent' = [sent EXCEPT ![s] = @ + 1] /\ caller' = Idle
        /\ Len(chain[s][1].chan) = 0
    BY <1>7 DEF SendClient, Room
  <2>2. chain' = [chain EXCEPT ![s] = c]
    BY <1>3, <1>4, <2>1
  <2>3. chain[s][1].chan = <<>>
    <3>1. chain[s] \in Seq(Links) /\ Len(chain[s]) \in Nat /\ Len(chain[s]) > 0
      BY <1>4, LenProperties DEF ChainSound
    <3>2. chain[s][1] \in Links
      BY <3>1, LenProperties
    <3>3. chain[s][1].chan \in Seq(Nat \ {0})
      BY <3>2 DEF Links
    <3> QED BY <2>1, <3>3, EmptySeq
  <2>4. ChainSound(c, sent[s] + 1, raised[s])
    BY <1>4, <2>3, ChainFed
  <2>5. sent' = [sent EXCEPT ![s] = sent[s] + 1] /\ sent[s] + 1 \in Nat
    BY <1>3, <1>4, <2>1
  <2>6. /\ raised' = [raised EXCEPT ![s] = raised[s]] /\ tailFlag' \in [Forkable -> Nat]
        /\ unforked' \subseteq registered /\ registered' = registered
        /\ caller' \in [pc : {"idle", "fork", "hand", "send", "panicked"}, stream : Forkable]
    BY <1>2, <1>3, <1>4, <1>5, <2>1
  <2> HIDE DEF c, s
  <2> QED BY <1>3, <1>4, <2>2, <2>4, <2>5, <2>6, OneChain
<1> QED BY <1>6, <1>7

-----------------------------------------------------------------------------

\* A step of a consumer changes one chain, and nothing else the invariant speaks of.
LEMMA OtherChains ==
    ASSUME ForksInv, NEW s \in Forkable, NEW c, ChainSound(c, sent[s], raised[s]),
           chain' = [chain EXCEPT ![s] = c],
           UNCHANGED <<registered, tailFlag, raised, caller, unforked, sent>>
    PROVE  ForksInv'
<1>1. /\ sent[s] \in Nat /\ raised[s] \in SUBSET Nat
      /\ sent' = [sent EXCEPT ![s] = sent[s]] /\ raised' = [raised EXCEPT ![s] = raised[s]]
      /\ tailFlag' \in [Forkable -> Nat] /\ registered' = registered
      /\ caller' \in [pc : {"idle", "fork", "hand", "send", "panicked"}, stream : Forkable]
      /\ unforked' \subseteq registered
  BY ForkFacts
<1> QED BY <1>1, OneChain

\* A link of the chain of s, its channel as a sequence of at most one message.
LEMMA LinkFacts ==
    ASSUME ForksInv, NEW s \in Forkable, NEW i \in DOMAIN chain[s]
    PROVE  /\ LinkSound(chain[s][i]) /\ chain[s][i] \in Links /\ i \in 1..Len(chain[s])
           /\ chain[s][i].by = "held" <=> i = Len(chain[s])
           /\ chain[s] \in Seq(Links) /\ chain \in [Forkable -> Seq(Links)]
           /\ Len(chain[s][i].chan) = 0 => chain[s][i].chan = <<>>
<1>1. /\ chain \in [Forkable -> Seq(Links)] /\ ChainSound(chain[s], sent[s], raised[s])
      /\ i \in 1..Len(chain[s])
  BY ForkFacts
<1>2. LinkSound(chain[s][i]) /\ (chain[s][i].by = "held" <=> i = Len(chain[s]))
  BY <1>1 DEF ChainSound
<1>3. chain[s][i] \in Links
  BY <1>2 DEF LinkSound
<1>4. chain[s][i].chan \in Seq(Nat \ {0})
  BY <1>3 DEF Links
<1>5. Len(chain[s][i].chan) = 0 => chain[s][i].chan = <<>>
  BY <1>4, EmptySeq
<1> QED BY <1>1, <1>2, <1>3, <1>5

\* One link changes.
LEMMA OneLink ==
    ASSUME ForksInv, NEW s \in Forkable, NEW i \in DOMAIN chain[s], NEW l, LinkSound(l),
           Newest(l) = Newest(chain[s][i]), l.by = "held" <=> chain[s][i].by = "held",
           l.gate = chain[s][i].gate, l.last = chain[s][i].last \/ l.gate \notin raised[s],
           chain' = [chain EXCEPT ![s] = [chain[s] EXCEPT ![i] = l]],
           UNCHANGED <<registered, tailFlag, raised, caller, unforked, sent>>
    PROVE  ForksInv'
<1>1. ChainSound(chain[s], sent[s], raised[s]) /\ i \in 1..Len(chain[s])
  BY ForkFacts
<1>2. ChainSound([chain[s] EXCEPT ![i] = l], sent[s], raised[s])
  BY <1>1, ChainChanges
<1> QED BY <1>2, OtherChains

LEMMA TakeKeeps ==
    ASSUME ForksInv, NEW s \in Forkable, NEW i \in DOMAIN chain[s], Take(s, i)
    PROVE  ForksInv'
<1> DEFINE o == chain[s][i]
           l == [o EXCEPT !.hand = Head(o.chan), !.chan = Tail(@)]
<1>1. LinkSound(o) /\ o.chan # <<>> /\ o.hand = 0
  BY LinkFacts DEF Take
<1>2. LinkSound(l) /\ Newest(l) = Newest(o) /\ l.by = o.by /\ l.gate = o.gate /\ l.last = o.last
  BY <1>1, LinkTakes
<1>3. /\ chain' = [chain EXCEPT ![s][i].hand = Head(chain[s][i].chan), ![s][i].chan = Tail(@)]
      /\ UNCHANGED <<registered, tailFlag, raised, caller, unforked, sent>>
  BY DEF Take
<1>4. chain' = [chain EXCEPT ![s] = [chain[s] EXCEPT ![i] = l]]
  BY <1>3, LinkFacts
<1> HIDE DEF l
<1> QED BY <1>2, <1>3, <1>4, OneLink

\* A stream loses its consumer.
LEMMA LostKeeps ==
    ASSUME ForksInv, NEW s \in Forkable, NEW i \in DOMAIN chain[s], chain[s][i].by # "held",
           chain' = [chain EXCEPT ![s][i].by = "gone"],
           UNCHANGED <<registered, tailFlag, raised, caller, unforked, sent>>
    PROVE  ForksInv'
<1> DEFINE o == chain[s][i]
           l == [o EXCEPT !.by = "gone"]
<1>1. LinkSound(o) /\ o \in Links
  BY LinkFacts
<1>2. /\ l \in Links /\ l.chan = o.chan /\ l.hand = o.hand /\ l.first = o.first
      /\ l.last = o.last /\ l.n = o.n /\ l.by = "gone" /\ l.gate = o.gate
  BY <1>1 DEF Links
<1>3. LinkSound(l) /\ Newest(l) = Newest(o)
  BY <1>1, <1>2, LinkRecast
<1>4. chain' = [chain EXCEPT ![s] = [chain[s] EXCEPT ![i] = l]]
  BY LinkFacts
<1> HIDE DEF l
<1> QED BY <1>2, <1>3, <1>4, OneLink

LEMMA CopyOnKeeps ==
    ASSUME ForksInv, NEW s \in Forkable, NEW i \in DOMAIN chain[s], CopyOn(s, i)
    PROVE  ForksInv'
<1> DEFINE o == chain[s][i]
           copy == o.gate \in raised[s]
           gone == chain[s][i + 1].by = "gone"
<1>1. /\ LinkSound(o) /\ (o.by = "held" <=> i = Len(chain[s])) /\ i \in 1..Len(chain[s])
      /\ chain \in [Forkable -> Seq(Links)] /\ Len(chain[s]) \in Nat
      /\ DOMAIN chain[s] = 1..Len(chain[s])
  BY LinkFacts, ForkFacts
<1>2. /\ o.hand # 0 /\ o.by # "held" /\ (copy => gone \/ Room(s, i + 1))
      /\ UNCHANGED <<registered, tailFlag, raised, caller, unforked, sent>>
      /\ chain' = CASE copy /\ gone -> [chain EXCEPT ![s][i].by = "gone"]
                    [] copy /\ ~gone -> [chain EXCEPT ![s][i] = Got(@),
                                            ![s][i + 1].chan = Append(@, chain[s][i].hand)]
                    [] OTHER -> [chain EXCEPT ![s][i] = Got(@)]
  BY DEF CopyOn, Consumed
<1>3. CASE copy /\ gone
  <2>1. chain' = [chain EXCEPT ![s][i].by = "gone"]
    BY <1>2, <1>3
  <2> QED BY <1>2, <2>1, LostKeeps
<1>4. CASE copy /\ ~gone
  <2> DEFINE c == [chain[s] EXCEPT ![i] = Got(@), ![i + 1].chan = Append(@, chain[s][i].hand)]
  <2>1. i \in 1..(Len(chain[s]) - 1) /\ i + 1 \in DOMAIN chain[s]
    BY <1>1, <1>2
  <2>2. chain[s][i + 1].chan = <<>>
    BY <1>2, <1>4, <2>1, LinkFacts DEF Room
  <2>3. ChainSound(c, sent[s], raised[s])
    BY <1>2, <1>4, <2>1, <2>2, ForkFacts, ChainCopies
  <2>4. chain' = [chain EXCEPT ![s][i] = Got(@), ![s][i + 1].chan = Append(@, chain[s][i].hand)]
    BY <1>2, <1>4
  <2>5. chain' = [chain EXCEPT ![s] = c]
    BY <1>1, <2>1, <2>4
  <2> HIDE DEF c
  <2> QED BY <1>2, <2>3, <2>5, OtherChains
<1>5. CASE ~copy
  <2>1. chain' = [chain EXCEPT ![s][i] = Got(@)]
    BY <1>2, <1>5
  <2>2. chain' = [chain EXCEPT ![s] = [chain[s] EXCEPT ![i] = Got(o)]]
    BY <1>1, <2>1
  <2>3. /\ LinkSound(Got(o)) /\ Newest(Got(o)) = Newest(o) /\ Got(o).by = o.by
        /\ Got(o).gate = o.gate
    BY <1>1, <1>2, LinkGets
  <2> QED BY <1>2, <1>5, <2>2, <2>3, OneLink
<1> QED BY <1>3, <1>4, <1>5

LEMMA DropStreamKeeps ==
    ASSUME ForksInv, NEW s \in Forkable, NEW i \in DOMAIN chain[s], DropStream(s, i)
    PROVE  ForksInv'
<1>1. /\ chain[s][i].by # "held" /\ chain' = [chain EXCEPT ![s][i].by = "gone"]
      /\ UNCHANGED <<registered, tailFlag, raised, caller, unforked, sent>>
  BY DEF DropStream
<1> QED BY <1>1, LostKeeps

-----------------------------------------------------------------------------

LEMMA ForksInitially ==
    ASSUME ForksInit
    PROVE  ForksInv
<1>1. NewLink \in Links /\ LinkSound(NewLink) /\ Newest(NewLink) = 0 /\ NewLink.by = "held"
  BY NewLinkSound DEF LinkSound
<1>2. <<NewLink>> \in Seq(Links) /\ Len(<<NewLink>>) = 1 /\ <<NewLink>>[1] = NewLink
  BY <1>1
<1>3. ChainSound(<<NewLink>>, 0, {})
  BY <1>1, <1>2 DEF ChainSound
<1>4. Pushstream \in Forkable
  BY DEF Forkable
<1>5. caller \in [pc : {"idle", "fork", "hand", "send", "panicked"}, stream : Forkable]
  BY <1>4 DEF ForksInit, Idle
<1>6. ASSUME NEW s \in Forkable PROVE ChainSound(chain[s], sent[s], raised[s])
  BY <1>3 DEF ForksInit
<1>7. /\ chain \in [Forkable -> Seq(Links)] /\ sent \in [Forkable -> Nat]
      /\ tailFlag \in [Forkable -> Nat] /\ raised \in [Forkable -> SUBSET Nat]
  BY <1>2 DEF ForksInit
<1> QED BY <1>5, <1>6, <1>7 DEF ForksInv, ForksInit

LEMMA ForksStep ==
    ASSUME ForksInv, [ForksNext]_forkVars
    PROVE  ForksInv'
<1>1. CASE ClientMethod
  BY <1>1, SubTicksKeeps, CallerKeeps, InitSimLoopKeeps DEF ClientMethod
<1>2. CASE CallerStep
  BY <1>2, ForkTickstreamKeeps, CallerKeeps, SendClientKeeps DEF CallerStep
<1>3. CASE \E s \in Forkable : \E i \in DOMAIN chain[s] : Consume(s, i) \/ DropStream(s, i)
  BY <1>3, TakeKeeps, CopyOnKeeps, DropStreamKeeps DEF Consume
<1>4. CASE UNCHANGED forkVars
  BY <1>4, CallerKeeps
<1> QED BY <1>1, <1>2, <1>3, <1>4 DEF ForksNext

(***************************************************************************)
(* However the streams of a client are forked, driven and dropped, every   *)
(* link stays in step with the one before it.                              *)
(***************************************************************************)
THEOREM ForksInvariant == ForksSpec => []ForksInv
<1>1. ForksInit => ForksInv
  BY ForksInitially
<1>2. ForksInv /\ [ForksNext]_forkVars => ForksInv'
  BY ForksStep
<1> QED BY <1>1, <1>2, PTL DEF ForksSpec

(***************************************************************************)
(* No link that got something is more than two messages per link behind.   *)
(* Otherwise take the first that is: what its newest message is the link   *)
(* before it got last, and that one is not behind.                         *)
(***************************************************************************)
LEMMA NoneFarBehind ==
    ASSUME NEW c, NEW total \in Nat, NEW flags, ChainSound(c, total, flags)
    PROVE  \A i \in 1..Len(c) : c[i].n > 0 => total <= c[i].last + 2 * i
<1> DEFINE Behind == {i \in 1..Len(c) : c[i].n > 0 /\ ~(total <= c[i].last + 2 * i)}
<1> SUFFICES ASSUME Behind # {} PROVE FALSE
  OBVIOUS
<1>1. Len(c) \in Nat /\ Len(c) > 0
  BY LenProperties DEF ChainSound
<1>2. Behind \subseteq Nat
  BY <1>1
<1>3. PICK i \in Behind : \A j \in Behind : i <= j
  BY <1>2, FirstPlace
<1>4. i \in 1..Len(c) /\ c[i].n > 0 /\ ~(total <= c[i].last + 2 * i)
  OBVIOUS
<1>5. ASSUME NEW j \in 1..Len(c)
      PROVE  /\ c[j].n \in Nat /\ c[j].last \in Nat /\ Newest(c[j]) \in Nat
             /\ c[j].n > 0 => c[j].last > 0
             /\ c[j].n = 0 => c[j].last = 0
             /\ c[j].n > 0 => Newest(c[j]) > 0 /\ Newest(c[j]) <= c[j].last + 2
  <2>1. LinkSound(c[j])
    BY DEF ChainSound
  <2>2. /\ c[j].n \in Nat /\ c[j].last \in Nat /\ c[j].hand \in Nat /\ c[j].first \in Nat
        /\ c[j].chan \in Seq(Nat \ {0})
    BY <2>1 DEF LinkSound, Links
  <2>3. c[j].chan # <<>> => c[j].chan[1] \in Nat \ {0}
    BY <2>2, EmptySeq, LenProperties
  <2>4. c[j].n > 0 => c[j].last > 0
    BY <2>1, <2>2 DEF LinkSound
  <2>5. /\ c[j].n = 0 => c[j].last = 0
        /\ c[j].hand # 0 /\ c[j].n > 0 => c[j].hand = c[j].last + 1
        /\ c[j].chan # <<>> /\ c[j].hand # 0 => c[j].chan[1] = c[j].hand + 1
        /\ c[j].chan # <<>> /\ c[j].hand = 0 /\ c[j].n > 0 => c[j].chan[1] = c[j].last + 1
    BY <2>1 DEF LinkSound
  <2>6. Newest(c[j]) \in Nat
    BY <2>2, <2>3 DEF Newest
  <2>7. c[j].n > 0 => Newest(c[j]) > 0 /\ Newest(c[j]) <= c[j].last + 2
    <3>1. CASE c[j].chan # <<>>
      <4>1. Newest(c[j]) = c[j].chan[1]
        BY <3>1 DEF Newest
      <4>2. CASE c[j].hand = 0
        <5>1. c[j].n > 0 => c[j].chan[1] = c[j].last + 1
          BY <2>5, <3>1, <4>2
        <5> QED BY SMTT(30), <2>2, <2>4, <4>1, <5>1
      <4>3. CASE c[j].hand # 0
        <5>1. c[j].chan[1] = c[j].hand + 1
          BY <2>5, <3>1, <4>3
        <5>2. c[j].n > 0 => c[j].hand = c[j].last + 1
          BY <2>5, <4>3
        <5> QED BY SMTT(30), <2>2, <2>3, <2>4, <4>1, <5>1, <5>2
      <4> QED BY <4>2, <4>3
    <3>2. CASE c[j].chan = <<>>
      BY <2>2, <2>4, <2>5, <3>2 DEF Newest
    <3> QED BY <3>1, <3>2
  <2> QED BY <2>2, <2>4, <2>5, <2>6, <2>7
<1> HIDE DEF Behind
<1>6. CASE i = 1
  <2>1. Newest(c[1]) = total
    BY DEF ChainSound
  <2> QED BY <1>4, <1>5, <1>6, <2>1
<1>7. CASE i # 1
  <2> DEFINE j == i - 1
  <2>1. j \in 1..(Len(c) - 1) /\ j \in 1..Len(c) /\ i = j + 1 /\ j \in Int
    BY <1>1, <1>4, <1>7
  <2> HIDE DEF j
  <2>2. Newest(c[j + 1]) > 0 /\ Newest(c[j + 1]) <= c[i].last + 2
    BY <1>4, <1>5, <2>1
  <2>3. Newest(c[j + 1]) = c[j].last
    <3>1. Newest(c[j + 1]) # 0
      BY <1>5, <2>1, <2>2
    <3> QED BY SMTT(30), <2>1, <3>1 DEF ChainSound
  <2>4. c[j].n > 0
    BY <1>5, <2>1, <2>2, <2>3
  <2>5. j \notin Behind
    BY <1>3, <1>4, <2>1
  <2>6. total <= c[j].last + 2 * j
    BY <2>1, <2>4, <2>5 DEF Behind
  <2> QED BY <1>4, <1>5, <2>1, <2>2, <2>3, <2>6
<1> QED BY <1>6, <1>7

(***************************************************************************)
(* A consumer sees every tick once and in order from the first one it gets *)
(* on, and the broker is held back by the slowest of them: for chains of   *)
(* every length and any number of symbols.                                 *)
(***************************************************************************)
THEOREM ForksAreSound == ForksSpec => []ForksSound
<1>1. ASSUME ForksInv PROVE ForksUnbroken
  <2> SUFFICES ASSUME NEW s \in Forkable, NEW i \in DOMAIN chain[s], chain[s][i].n > 0
               PROVE  chain[s][i].last = chain[s][i].first + chain[s][i].n - 1
    BY DEF ForksUnbroken
  <2>1. LinkSound(chain[s][i])
    BY <1>1, LinkFacts
  <2> QED BY <2>1 DEF LinkSound
<1>2. ASSUME ForksInv PROVE BrokerHeldBack
  <2> SUFFICES ASSUME NEW s \in Forkable, NEW i \in DOMAIN chain[s], chain[s][i].n > 0
               PROVE  sent[s] <= chain[s][i].last + 2 * i
    BY DEF BrokerHeldBack
  <2>1. /\ ChainSound(chain[s], sent[s], raised[s]) /\ sent[s] \in Nat
        /\ i \in 1..Len(chain[s])
    BY <1>2, ForkFacts
  <2> QED BY <2>1, NoneFarBehind
<1> QED BY <1>1, <1>2, ForksInvariant, PTL DEF ForksSound

-----------------------------------------------------------------------------
(* The Redis proxy *)

\* The ids of a collection are first_id to last_id - 1, each once, and not too many.
CollectionSound(c) ==
    /\ c = [hm |-> c.hm, first_id |-> c.first_id, last_id |-> c.last_id]
    /\ c.first_id \in Nat /\ c.last_id \in Nat
    /\ c.hm \in [DOMAIN c.hm -> Nat] /\ DOMAIN c.hm \subseteq Msgs
    /\ \A m, n \in DOMAIN c.hm : c.hm[m] = c.hm[n] => m = n
    /\ \A m \in DOMAIN c.hm : c.hm[m] \in c.first_id .. (c.last_id - 1)
    /\ \A i \in c.first_id .. (c.last_id - 1) : \E m \in DOMAIN c.hm : c.hm[m] = i
    /\ c.first_id <= c.last_id /\ c.last_id - c.first_id <= MaxSize

\* the messages that are still on their way
Way == Elements(toServer) \cup Elements(toProxy) \cup Elements(fromRedis)

\* A message enters once and is on its way in one place at most.
Traffic ==
    /\ entered \in Seq(Msgs) /\ Unrepeated(entered)
    /\ toServer \in Seq(ClientMsgs) /\ Unrepeated(toServer)
    /\ toProxy \in Seq(Msgs) /\ Unrepeated(toProxy)
    /\ fromRedis \in Seq(Msgs) /\ Unrepeated(fromRedis)
    /\ Elements(toServer) \cap Elements(toProxy) = {}
    /\ Elements(toServer) \cap Elements(fromRedis) = {}
    /\ Elements(toProxy) \cap Elements(fromRedis) = {}
    /\ Way \subseteq Elements(entered)

\* The proxy has not seen the message yet.
Unseen(m) ==
    /\ broadcasts[m] = 0 /\ publishes[m] = 0
    /\ ~ Holds(ws, m) /\ ~ Holds(redis, m)

\* Who has seen a message where it is.
Remembered ==
    \A m \in Msgs :
        /\ m \notin Elements(entered) => Unseen(m)
        /\ m \in Elements(toServer) => Unseen(m)
        /\ m \in Elements(fromRedis) => IF m \in ClientMsgs THEN Holds(ws, m) ELSE Unseen(m)
        /\ m \in Elements(toProxy) =>
              IF m \in ClientMsgs THEN Holds(ws, m) /\ ~ Holds(redis, m) /\ publishes[m] = 0
              ELSE Holds(redis, m)

\* where in entered they are
Underway == {i \in DOMAIN entered : entered[i] \in Way}

\* What collection c got after a message under way entered not long before it.
Recent(c, log, way) ==
    \A i \in way : \A j \in DOMAIN log :
        /\ Holds(c, log[i]) /\ Holds(c, log[j]) /\ c.hm[log[j]] >= c.hm[log[i]]
        => i - j <= Window

(***************************************************************************)
(* A message on its way is one of the newest, and what a collection got    *)
(* after it is from around the same time: no more than the collection      *)
(* keeps.                                                                  *)
(***************************************************************************)
ProxyInv ==
    /\ CollectionSound(ws) /\ CollectionSound(redis)
    /\ broadcasts \in [Msgs -> Nat] /\ publishes \in [Msgs -> Nat]
    /\ ~ proxyPanic /\ NoEcho
    /\ Traffic
    /\ Remembered
    /\ \A i \in Underway : Len(entered) - i <= Window
    /\ Recent(ws, entered, Underway) /\ Recent(redis, entered, Underway)

(***************************************************************************)
(* The ids of a collection that is in order count its messages.            *)
(***************************************************************************)
LEMMA IdsCount ==
    ASSUME NEW h, NEW first \in Nat, NEW last \in Nat, first <= last,
           \A m, n \in DOMAIN h : h[m] = h[n] => m = n,
           h \in [DOMAIN h -> first .. (last - 1)],
           \A i \in first .. (last - 1) : \E m \in DOMAIN h : h[m] = i
    PROVE  Cardinality(DOMAIN h) = last - first
<1>1. h \in Injection(DOMAIN h, first .. (last - 1)) /\ h \in Surjection(DOMAIN h, first .. (last - 1))
  BY DEF Injection, Surjection, IsInjective
<1>2. IsFiniteSet(first .. (last - 1)) /\ Cardinality(first .. (last - 1)) = last - first
  <2>1. first \in Int /\ last - 1 \in Int
    OBVIOUS
  <2>2. /\ IsFiniteSet(first .. (last - 1))
        /\ Cardinality(first .. (last - 1)) = IF first > last - 1 THEN 0 ELSE (last - 1) - first + 1
    BY <2>1, FS_Interval
  <2> QED BY <2>2
<1>3. Cardinality(DOMAIN h) = Cardinality(first .. (last - 1))
  BY <1>1, <1>2, FS_Injection
<1> QED BY <1>2, <1>3

(***************************************************************************)
(* add of a message that the collection does not hold: it finds its oldest *)
(* entry if it has to forget one, and forgets only what is that old.       *)
(***************************************************************************)
LEMMA AddFacts ==
    ASSUME NEW c, CollectionSound(c), NEW m \in Msgs, ~ Holds(c, m)
    PROVE  /\ ~ AddPanics(c, m)
           /\ CollectionSound(Add(c, m))
           /\ Holds(Add(c, m), m) /\ Add(c, m).hm[m] = c.last_id
           /\ \A x : Holds(Add(c, m), x) /\ x # m => Holds(c, x) /\ Add(c, m).hm[x] = c.hm[x]
           /\ \A x : Holds(c, x) /\ c.last_id + 1 - c.hm[x] <= MaxSize => Holds(Add(c, m), x)
<1> DEFINE D == DOMAIN c.hm
           first == c.first_id
           last == c.last_id
           h == [k \in D \cup {m} |-> IF k = m THEN last ELSE c.hm[k]]
           d == Inserted(c, m)
<1>1. /\ first \in Nat /\ last \in Nat /\ first <= last /\ last - first <= MaxSize
      /\ c.hm \in [D -> Nat] /\ D \subseteq Msgs /\ m \notin D
      /\ \A x, y \in D : c.hm[x] = c.hm[y] => x = y
      /\ \A x \in D : c.hm[x] \in first .. (last - 1)
      /\ \A i \in first .. (last - 1) : \E x \in D : c.hm[x] = i
      /\ c = [hm |-> c.hm, first_id |-> first, last_id |-> last]
  BY DEF CollectionSound, Holds
<1>2. d = [hm |-> h, first_id |-> first, last_id |-> last + 1]
  <2>1. d = [c EXCEPT !.hm = h, !.last_id = last + 1]
    BY DEF Inserted
  <2> HIDE DEF h, d
  <2> QED BY <1>1, <2>1
<1>3. /\ DOMAIN h = D \cup {m} /\ h[m] = last /\ \A x \in D : h[x] = c.hm[x]
  BY <1>1
<1> HIDE DEF h, d
<1>4. /\ \A x, y \in DOMAIN h : h[x] = h[y] => x = y
      /\ \A x \in DOMAIN h : h[x] \in first .. last
      /\ \A i \in first .. last : \E x \in DOMAIN h : h[x] = i
      /\ h \in [DOMAIN h -> first .. last]
      /\ h \in [DOMAIN h -> Nat]
  <2>1. \A x \in D : h[x] \in first .. (last - 1)
    BY <1>1, <1>3
  <2>2. \A x \in DOMAIN h : h[x] \in first .. last
    BY <1>1, <1>3, <2>1
  <2>3. \A x, y \in DOMAIN h : h[x] = h[y] => x = y
    <3> SUFFICES ASSUME NEW x \in DOMAIN h, NEW y \in DOMAIN h, h[x] = h[y] PROVE x = y
      OBVIOUS
    <3>1. CASE x \in D /\ y \in D
      BY <1>1, <1>3, <3>1
    <3>2. CASE x = m \/ y = m
      BY <1>1, <1>3, <2>1, <3>2
    <3> QED BY <1>3, <3>1, <3>2
  <2>4. ASSUME NEW i \in first .. last PROVE \E x \in DOMAIN h : h[x] = i
    <3>1. CASE i = last
      BY <1>3, <3>1
    <3>2. CASE i # last
      <4>1. i \in first .. (last - 1)
        BY <1>1, <3>2
      <4> QED BY <1>1, <1>3, <4>1
    <3> QED BY <3>1, <3>2
  <2>5. h = [x \in DOMAIN h |-> h[x]]
    BY <1>3 DEF h
  <2>6. first .. last \subseteq Nat
    BY <1>1
  <2> QED BY <2>2, <2>3, <2>4, <2>5, <2>6
<1>5. Cardinality(DOMAIN h) = last + 1 - first
  <2>1. last + 1 \in Nat /\ (last + 1) - 1 = last /\ first <= last + 1
    BY <1>1
  <2> QED BY <1>1, <1>4, <2>1, IdsCount
<1>6. Overfull(d) <=> last + 1 - first > MaxSize
  BY <1>2, <1>5 DEF Overfull
<1>7. MaxSize \in Nat /\ MaxSize >= 1
  BY ProxyAssumption
<1>8. CASE ~ Overfull(d)
  <2>1. Add(c, m) = d /\ ~ AddPanics(c, m)
    BY <1>8 DEF Add, Trimmed, AddPanics, d
  <2>2. last + 1 \in Nat /\ (last + 1) - 1 = last /\ first <= last + 1 /\ last + 1 - first <= MaxSize
    BY <1>1, <1>6, <1>7, <1>8
  <2>3. DOMAIN h \subseteq Msgs
    BY <1>1, <1>3
  <2>4. CollectionSound(d)
    BY <1>1, <1>2, <1>4, <2>2, <2>3 DEF CollectionSound
  <2> QED BY <1>1, <1>2, <1>3, <2>1, <2>4 DEF Holds
<1>9. CASE Overfull(d)
  <2>1. last - first = MaxSize /\ first < last
    BY <1>1, <1>6, <1>7, <1>9
  <2>2. PICK o \in DOMAIN h : h[o] = first
    BY <1>1, <1>4
  <2>3. Oldest(d) = {o}
    BY <1>2, <1>4, <2>2 DEF Oldest
  <2> DEFINE g == [x \in DOMAIN h \ {o} |-> h[x]]
             e == [hm |-> g, first_id |-> first + 1, last_id |-> last + 1]
  <2>4. Add(c, m) = e /\ ~ AddPanics(c, m)
    <3>1. Add(c, m) = Trimmed(d) /\ ~ AddPanics(c, m)
      BY <2>3 DEF Add, AddPanics, d
    <3>2. g = [x \in DOMAIN d.hm \ Oldest(d) |-> d.hm[x]]
      BY <1>2, <2>3
    <3>3. Trimmed(d) = [d EXCEPT !.hm = g, !.first_id = first + 1]
      BY <1>2, <1>9, <3>2 DEF Trimmed
    <3> HIDE DEF g
    <3> QED BY <1>2, <3>1, <3>3
  <2>5. DOMAIN g = DOMAIN h \ {o} /\ \A x \in DOMAIN g : g[x] = h[x]
    OBVIOUS
  <2>6. /\ e.hm = g /\ e.first_id = first + 1 /\ e.last_id = last + 1
        /\ g \in [DOMAIN g -> Nat]
    BY <1>4
  <2> HIDE DEF g
  <2>7. o # m
    BY <1>1, <1>3, <2>1, <2>2
  <2>8. \A x \in DOMAIN g : g[x] \in (first + 1) .. last
    BY <1>1, <1>4, <2>2, <2>5
  <2>9. ASSUME NEW i \in (first + 1) .. last PROVE \E x \in DOMAIN g : g[x] = i
    <3>1. i \in first .. last /\ i # first
      BY <1>1
    <3>2. PICK x \in DOMAIN h : h[x] = i
      BY <1>4, <3>1
    <3>3. x # o
      BY <2>2, <3>1, <3>2
    <3> QED BY <2>5, <3>2, <3>3
  <2>10. CollectionSound(e)
    <3>1. /\ first + 1 \in Nat /\ last + 1 \in Nat /\ (last + 1) - 1 = last
          /\ first + 1 <= last + 1 /\ (last + 1) - (first + 1) <= MaxSize
      BY <1>1
    <3>2. \A x, y \in DOMAIN g : g[x] = g[y] => x = y
      BY <1>4, <2>5
    <3>3. DOMAIN g \subseteq Msgs
      BY <1>1, <1>3, <2>5
    <3> HIDE DEF e
    <3>4. e = [hm |-> e.hm, first_id |-> e.first_id, last_id |-> e.last_id]
      BY DEF e
    <3> QED BY <2>6, <2>8, <2>9, <3>1, <3>2, <3>3, <3>4 DEF CollectionSound
  <2>11. Holds(e, m) /\ e.hm[m] = last
    BY <1>3, <2>5, <2>6, <2>7 DEF Holds
  <2>12. \A x : Holds(e, x) /\ x # m => Holds(c, x) /\ e.hm[x] = c.hm[x]
    BY <1>3, <2>5, <2>6 DEF Holds
  <2>13. ASSUME NEW x, Holds(c, x), last + 1 - c.hm[x] <= MaxSize PROVE Holds(e, x)
    <3>1. x \in D /\ h[x] = c.hm[x]
      BY <1>3, <2>13 DEF Holds
    <3>2. x # o
      BY <1>1, <1>7, <2>1, <2>2, <2>13, <3>1
    <3> QED BY <1>3, <2>5, <2>6, <3>1, <3>2 DEF Holds
  <2> HIDE DEF e
  <2> QED BY <2>4, <2>10, <2>11, <2>12, <2>13
<1> QED BY <1>8, <1>9

(***************************************************************************)
(* No more messages than a collection keeps come between two that are      *)
(* under way at the same time, so none of them is forgotten.               *)
(***************************************************************************)
LEMMA NotForgotten ==
    ASSUME NEW c, CollectionSound(c), NEW log \in Seq(Msgs), Unrepeated(log),
           NEW way, way \subseteq DOMAIN log, \A i \in way : Len(log) - i <= Window,
           Recent(c, log, way), DOMAIN c.hm \subseteq Elements(log),
           NEW i \in way, Holds(c, log[i]), NEW k \in way, ~ Holds(c, log[k])
    PROVE  c.last_id + 1 - c.hm[log[i]] <= MaxSize
<1> DEFINE id == c.hm[log[i]]
           last == c.last_id
           I == (i - Window) .. (i + Window)
<1>1. /\ last \in Nat /\ id \in Nat /\ id < last
      /\ \A n \in c.first_id .. (last - 1) : \E x \in DOMAIN c.hm : c.hm[x] = n
      /\ c.first_id \in Nat /\ c.first_id <= id
  BY DEF CollectionSound, Holds
<1>2. Len(log) \in Nat /\ DOMAIN log = 1..Len(log) /\ Window \in Nat
  BY LenProperties, ProxyAssumption
<1>3. i \in 1..Len(log) /\ k \in 1..Len(log)
  BY <1>2
<1>4. \A j \in DOMAIN log : j - i <= Window
  BY <1>2, <1>3
<1>5. k \in I
  BY <1>2, <1>3
<1> HIDE DEF id, last
<1>6. ASSUME NEW n \in id .. (last - 1)
      PROVE  \E j \in I : j \in DOMAIN log /\ Holds(c, log[j]) /\ c.hm[log[j]] = n
  <2>1. PICK x \in DOMAIN c.hm : c.hm[x] = n
    BY <1>1
  <2>2. PICK j \in DOMAIN log : log[j] = x
    BY <2>1 DEF Elements
  <2>3. Holds(c, log[j]) /\ c.hm[log[j]] >= c.hm[log[i]]
    BY <1>1, <2>1, <2>2 DEF Holds, id
  <2>4. i - j <= Window
    BY <2>3 DEF Recent
  <2>5. j \in I
    BY <1>2, <1>3, <1>4, <2>4
  <2> QED BY <2>1, <2>2, <2>3, <2>5
<1> DEFINE place == [n \in id .. last |->
              IF n = last THEN k
              ELSE CHOOSE j \in I : j \in DOMAIN log /\ Holds(c, log[j]) /\ c.hm[log[j]] = n]
<1> HIDE DEF I
<1>7. ASSUME NEW n \in id .. last, n # last
      PROVE  place[n] \in I /\ Holds(c, log[place[n]]) /\ c.hm[log[place[n]]] = n
  <2>1. n \in id .. (last - 1)
    BY <1>1, <1>7
  <2> QED BY <1>6, <1>7, <2>1
<1>8. last \in id .. last /\ place[last] = k
  BY <1>1
<1>9. place \in [id .. last -> I]
  <2>1. \A n \in id .. last : place[n] \in I
    BY <1>5, <1>7, <1>8
  <2> QED BY <2>1
<1> HIDE DEF place
<1>10. ASSUME NEW n \in id .. last, NEW p \in id .. last, place[n] = place[p]
       PROVE  n = p
  <2>1. CASE n # last /\ p # last
    BY <1>7, <1>10, <2>1
  <2>2. CASE n = last \/ p = last
    BY <1>7, <1>8, <1>10, <2>2
  <2> QED BY <2>1, <2>2
<1>11. place \in Injection(id .. last, I)
  BY <1>9, <1>10 DEF Injection, IsInjective
<1>12. IsFiniteSet(I) /\ Cardinality(I) = 2 * Window + 1
  <2>1. i - Window \in Int /\ i + Window \in Int /\ ~ (i - Window > i + Window)
        /\ (i + Window) - (i - Window) + 1 = 2 * Window + 1
    BY <1>2, <1>3
  <2> QED BY <2>1, FS_Interval DEF I
<1>13. Cardinality(id .. last) = last - id + 1
  <2>1. id \in Int /\ last \in Int /\ ~ (id > last)
    BY <1>1
  <2> QED BY <2>1, FS_Interval
<1>14. Cardinality(id .. last) <= Cardinality(I)
  BY <1>11, <1>12, FS_Injection
<1>15. last - id + 1 <= MaxSize
  BY <1>1, <1>2, <1>12, <1>13, <1>14, ProxyAssumption
<1>16. last + 1 - id <= MaxSize
  BY <1>1, <1>15, ProxyAssumption
<1> QED BY <1>16 DEF id, last

(***************************************************************************)
(* The proxy adds a message that is under way to a collection that has not *)
(* got it: the others under way stay in it.                                *)
(***************************************************************************)
LEMMA AddKeeps ==
    ASSUME NEW c, CollectionSound(c), NEW log \in Seq(Msgs), Unrepeated(log),
           NEW way, way \subseteq DOMAIN log, \A i \in way : Len(log) - i <= Window,
           Recent(c, log, way), DOMAIN c.hm \subseteq Elements(log),
           NEW k \in way, ~ Holds(c, log[k])
    PROVE  /\ ~ AddPanics(c, log[k])
           /\ CollectionSound(Add(c, log[k]))
           /\ Holds(Add(c, log[k]), log[k])
           /\ \A x : Holds(Add(c, log[k]), x) => x = log[k] \/ Holds(c, x)
           /\ \A i \in way : Holds(c, log[i]) => Holds(Add(c, log[k]), log[i])
           /\ Recent(Add(c, log[k]), log, way)
<1> DEFINE m == log[k]
           a == Add(c, m)
<1>1. Len(log) \in Nat /\ DOMAIN log = 1..Len(log) /\ \A i \in DOMAIN log : log[i] \in Msgs
  BY LenProperties
<1>2. k \in DOMAIN log /\ m \in Msgs
  BY <1>1
<1> HIDE DEF m
<1>3. /\ ~ AddPanics(c, m)
      /\ CollectionSound(a)
      /\ Holds(a, m) /\ a.hm[m] = c.last_id
      /\ \A x : Holds(a, x) /\ x # m => Holds(c, x) /\ a.hm[x] = c.hm[x]
      /\ \A x : Holds(c, x) /\ c.last_id + 1 - c.hm[x] <= MaxSize => Holds(a, x)
  BY <1>2, AddFacts DEF m
<1>4. \A i \in way : Holds(c, log[i]) => Holds(a, log[i])
  BY <1>3, NotForgotten DEF m
<1>5. ASSUME NEW i \in way, NEW j \in DOMAIN log, Holds(a, log[i]), Holds(a, log[j]),
             a.hm[log[j]] >= a.hm[log[i]]
      PROVE  i - j <= Window
  <2>1. i \in 1..Len(log) /\ j \in 1..Len(log) /\ Window \in Nat
    BY <1>1, ProxyAssumption
  <2>2. CASE log[i] # m /\ log[j] # m
    BY <1>3, <1>5, <2>2 DEF Recent
  <2>3. CASE log[j] = m
    <3>1. j = k /\ Len(log) - k <= Window
      BY <1>2, <2>3 DEF Unrepeated, m
    <3> QED BY <1>1, <2>1, <3>1
  <2>4. CASE log[i] = m /\ log[j] # m
    <3>1. Holds(c, log[j]) /\ a.hm[log[j]] = c.hm[log[j]] /\ a.hm[log[i]] = c.last_id
      BY <1>3, <1>5, <2>4
    <3>2. c.hm[log[j]] \in Nat /\ c.last_id \in Nat /\ c.hm[log[j]] <= c.last_id - 1
      BY <3>1 DEF CollectionSound, Holds
    <3> QED BY <1>5, <3>1, <3>2
  <2> QED BY <2>2, <2>3, <2>4
<1>6. Recent(a, log, way)
  BY <1>5 DEF Recent
<1> QED BY <1>3, <1>4, <1>6 DEF m

(***************************************************************************)
(* The same in the proxy's state, where only what has entered is held.     *)
(***************************************************************************)
LEMMA ProxyAdds ==
    ASSUME ProxyInv, NEW m \in Way
    PROVE  /\ m \in Msgs
           /\ ~ Holds(ws, m) =>
                 /\ ~ AddPanics(ws, m)
                 /\ CollectionSound(Add(ws, m)) /\ Holds(Add(ws, m), m)
                 /\ \A x : Holds(Add(ws, m), x) => x = m \/ Holds(ws, x)
                 /\ \A x \in Way : Holds(ws, x) => Holds(Add(ws, m), x)
                 /\ Recent(Add(ws, m), entered, Underway)
           /\ ~ Holds(redis, m) =>
                 /\ ~ AddPanics(redis, m)
                 /\ CollectionSound(Add(redis, m)) /\ Holds(Add(redis, m), m)
                 /\ \A x : Holds(Add(redis, m), x) => x = m \/ Holds(redis, x)
                 /\ \A x \in Way : Holds(redis, x) => Holds(Add(redis, m), x)
                 /\ Recent(Add(redis, m), entered, Underway)
<1>1. /\ CollectionSound(ws) /\ CollectionSound(redis)
      /\ entered \in Seq(Msgs) /\ Unrepeated(entered) /\ Way \subseteq Elements(entered)
      /\ \A i \in Underway : Len(entered) - i <= Window
      /\ Recent(ws, entered, Underway) /\ Recent(redis, entered, Underway)
  BY DEF ProxyInv, Traffic
<1>2. Underway \subseteq DOMAIN entered
  BY DEF Underway
<1>3. \A x \in Way : \E i \in Underway : entered[i] = x
  BY <1>1 DEF Underway, Elements
<1>4. DOMAIN ws.hm \subseteq Elements(entered) /\ DOMAIN redis.hm \subseteq Elements(entered)
  BY <1>1 DEF ProxyInv, Remembered, Unseen, Holds, CollectionSound
<1>5. PICK k \in Underway : entered[k] = m
  BY <1>3
<1>6. m \in Msgs
  BY <1>1, <1>2, <1>5, ElementsType DEF Elements
<1>7. ASSUME ~ Holds(ws, m)
      PROVE  /\ ~ AddPanics(ws, m)
             /\ CollectionSound(Add(ws, m)) /\ Holds(Add(ws, m), m)
             /\ \A x : Holds(Add(ws, m), x) => x = m \/ Holds(ws, x)
             /\ \A i \in Underway : Holds(ws, entered[i]) => Holds(Add(ws, m), entered[i])
             /\ Recent(Add(ws, m), entered, Underway)
  BY <1>1, <1>2, <1>4, <1>5, <1>7, AddKeeps
<1>8. ASSUME ~ Holds(redis, m)
      PROVE  /\ ~ AddPanics(redis, m)
             /\ CollectionSound(Add(redis, m)) /\ Holds(Add(redis, m), m)
             /\ \A x : Holds(Add(redis, m), x) => x = m \/ Holds(redis, x)
             /\ \A i \in Underway : Holds(redis, entered[i]) => Holds(Add(redis, m), entered[i])
             /\ Recent(Add(redis, m), entered, Underway)
  BY <1>1, <1>2, <1>4, <1>5, <1>8, AddKeeps
<1> QED BY <1>3, <1>6, <1>7, <1>8

(***************************************************************************)
(* When nothing enters and nothing new gets on its way, the messages under *)
(* way stay among the newest.                                              *)
(***************************************************************************)
LEMMA WayShrinks ==
    ASSUME ProxyInv, entered' = entered, Way' \subseteq Way,
           Recent(ws', entered, Underway), Recent(redis', entered, Underway)
    PROVE  /\ \A i \in Underway' : Len(entered') - i <= Window
           /\ Recent(ws', entered', Underway') /\ Recent(redis', entered', Underway')
<1>1. Underway' \subseteq Underway
  BY DEF Underway
<1>2. \A c : Recent(c, entered, Underway) => Recent(c, entered, Underway')
  BY <1>1 DEF Recent
<1>3. \A i \in Underway : Len(entered) - i <= Window
  BY DEF ProxyInv
<1> QED BY <1>1, <1>2, <1>3

(***************************************************************************)
(* A client sends a message or an instance publishes one.                  *)
(***************************************************************************)
LEMMA EnterStep ==
    ASSUME ProxyInv, NEW m \in Msgs,
           \/ ClientSends(m) /\ m \in ClientMsgs
           \/ PlatformPublishes(m) /\ m \in PlatformMsgs
    PROVE  ProxyInv'
<1>1. /\ m \notin Elements(entered) /\ Timely
      /\ entered' = Append(entered, m)
      /\ UNCHANGED <<ws, redis, toProxy, broadcasts, publishes, proxyPanic>>
  BY DEF ClientSends, PlatformPublishes, Elems, Elements
<1>2. /\ entered \in Seq(Msgs) /\ Unrepeated(entered)
      /\ toServer \in Seq(ClientMsgs) /\ Unrepeated(toServer)
      /\ fromRedis \in Seq(Msgs) /\ Unrepeated(fromRedis)
      /\ toProxy \in Seq(Msgs) /\ Unrepeated(toProxy)
      /\ Way \subseteq Elements(entered)
      /\ Elements(toServer) \cap Elements(toProxy) = {}
      /\ Elements(toServer) \cap Elements(fromRedis) = {}
      /\ Elements(toProxy) \cap Elements(fromRedis) = {}
  BY DEF ProxyInv, Traffic
<1>3. /\ entered' \in Seq(Msgs) /\ Unrepeated(entered')
      /\ Elements(entered') = Elements(entered) \cup {m}
  BY <1>1, <1>2, AppendElements
<1>4. m \notin Way
  BY <1>1, <1>2
<1>5. \/ /\ toServer' = Append(toServer, m) /\ fromRedis' = fromRedis /\ m \in ClientMsgs
      \/ /\ fromRedis' = Append(fromRedis, m) /\ toServer' = toServer /\ m \in PlatformMsgs
  BY DEF ClientSends, PlatformPublishes
<1>6. /\ toServer' \in Seq(ClientMsgs) /\ Unrepeated(toServer')
      /\ fromRedis' \in Seq(Msgs) /\ Unrepeated(fromRedis')
      /\ \/ /\ Elements(toServer') = Elements(toServer) \cup {m} /\ fromRedis' = fromRedis
            /\ m \in ClientMsgs
         \/ /\ Elements(fromRedis') = Elements(fromRedis) \cup {m} /\ toServer' = toServer
            /\ m \in PlatformMsgs
  <2>1. m \notin Elements(toServer) /\ m \notin Elements(fromRedis)
    BY <1>4 DEF Way
  <2>2. CASE toServer' = Append(toServer, m) /\ fromRedis' = fromRedis /\ m \in ClientMsgs
    BY <1>2, <2>1, <2>2, AppendElements
  <2>3. CASE fromRedis' = Append(fromRedis, m) /\ toServer' = toServer /\ m \in PlatformMsgs
    BY <1>2, <2>1, <2>3, AppendElements
  <2> QED BY <1>5, <2>2, <2>3
<1>7. Way' = Way \cup {m}
  BY <1>1, <1>6 DEF Way
<1>8. Traffic'
  <2>1. Way' \subseteq Elements(entered')
    BY <1>2, <1>3, <1>7
  <2>2. /\ Elements(toServer') \cap Elements(toProxy) = {}
        /\ Elements(toServer') \cap Elements(fromRedis') = {}
        /\ Elements(toProxy) \cap Elements(fromRedis') = {}
    BY <1>2, <1>4, <1>6 DEF Way
  <2> QED BY <1>1, <1>2, <1>3, <1>6, <2>1, <2>2 DEF Traffic
<1>9. Unseen(m)
  BY <1>1 DEF ProxyInv, Remembered
<1>10. m \in ClientMsgs <=> m \notin PlatformMsgs
  BY ProxyAssumption DEF Msgs
<1>11. Remembered'
  <2> SUFFICES ASSUME NEW x \in Msgs
               PROVE /\ x \notin Elements(entered') => Unseen(x)
                     /\ x \in Elements(toServer') => Unseen(x)
                     /\ x \in Elements(fromRedis') => IF x \in ClientMsgs THEN Holds(ws, x) ELSE Unseen(x)
                     /\ x \in Elements(toProxy) =>
                           IF x \in ClientMsgs THEN Holds(ws, x) /\ ~ Holds(redis, x) /\ publishes[x] = 0
                           ELSE Holds(redis, x)
    BY <1>1 DEF Remembered, Unseen, Holds
  <2>1. /\ x \notin Elements(entered) => Unseen(x)
        /\ x \in Elements(toServer) => Unseen(x)
        /\ x \in Elements(fromRedis) => IF x \in ClientMsgs THEN Holds(ws, x) ELSE Unseen(x)
        /\ x \in Elements(toProxy) =>
              IF x \in ClientMsgs THEN Holds(ws, x) /\ ~ Holds(redis, x) /\ publishes[x] = 0
              ELSE Holds(redis, x)
    BY DEF ProxyInv, Remembered
  <2> QED BY <1>3, <1>6, <1>9, <1>10, <2>1
<1>12. /\ Len(entered) \in Nat /\ DOMAIN entered = 1..Len(entered)
       /\ DOMAIN entered' = 1..(Len(entered) + 1) /\ Len(entered') = Len(entered) + 1
       /\ \A i \in 1..Len(entered) : entered'[i] = entered[i]
       /\ entered'[Len(entered) + 1] = m
  BY <1>1, <1>2, <1>3, AppendProperties, LenProperties
<1>13. \A i \in Underway' : i \in Underway \/ i = Len(entered) + 1
  <2> SUFFICES ASSUME NEW i \in DOMAIN entered', entered'[i] \in Way', i # Len(entered) + 1
               PROVE  i \in Underway
    BY DEF Underway
  <2>1. i \in DOMAIN entered /\ entered'[i] = entered[i]
    BY <1>12
  <2>2. entered[i] # m
    BY <1>1, <2>1 DEF Elements
  <2> QED BY <1>7, <2>1, <2>2 DEF Underway
<1>14. \A i \in Underway : Len(entered) - i < Window
  BY DEF Timely, OnTheWay, Underway, Way, Elems, Elements, ClientSends, PlatformPublishes
<1>15. \A i \in Underway' : Len(entered') - i <= Window
  <2> SUFFICES ASSUME NEW i \in Underway' PROVE (Len(entered) + 1) - i <= Window
    BY <1>12
  <2>1. CASE i = Len(entered) + 1
    BY <1>12, <2>1, ProxyAssumption
  <2>2. CASE i \in Underway
    <3>1. i \in 1..Len(entered) /\ Len(entered) - i < Window
      BY <1>12, <1>14, <2>2 DEF Underway
    <3> QED BY <1>12, <3>1, ProxyAssumption
  <2> QED BY <1>13, <2>1, <2>2
<1>16. ASSUME NEW c, ~ Holds(c, m), Recent(c, entered, Underway)
       PROVE  Recent(c, entered', Underway')
  <2> SUFFICES ASSUME NEW i \in Underway', NEW j \in DOMAIN entered',
                      Holds(c, entered'[i]), Holds(c, entered'[j]),
                      c.hm[entered'[j]] >= c.hm[entered'[i]]
               PROVE  i - j <= Window
    BY DEF Recent
  <2>1. i # Len(entered) + 1 /\ j # Len(entered) + 1
    BY <1>12, <1>16
  <2>2. i \in Underway /\ i \in DOMAIN entered
    BY <1>13, <2>1 DEF Underway
  <2>3. j \in DOMAIN entered /\ entered'[j] = entered[j] /\ entered'[i] = entered[i]
    BY <1>12, <2>1, <2>2
  <2> QED BY <1>16, <2>2, <2>3 DEF Recent
<1>17. Recent(ws', entered', Underway') /\ Recent(redis', entered', Underway')
  BY <1>1, <1>9, <1>16 DEF ProxyInv, Unseen
<1> QED BY <1>1, <1>8, <1>11, <1>15, <1>17 DEF ProxyInv, NoEcho

(***************************************************************************)
(* What is taken from the front of a queue, and what is passed on to the   *)
(* end of another.                                                         *)
(***************************************************************************)
LEMMA PassedOn ==
    ASSUME NEW S, NEW from \in Seq(S), from # <<>>, Unrepeated(from)
    PROVE  LET m == Head(from)
           IN  /\ m \in S /\ m \in Elements(from)
               /\ Tail(from) \in Seq(S) /\ Unrepeated(Tail(from))
               /\ Elements(Tail(from)) = Elements(from) \ {m}
               /\ \A T : \A to \in Seq(T) :
                     m \in T /\ Unrepeated(to) /\ m \notin Elements(to) =>
                        /\ Append(to, m) \in Seq(T) /\ Unrepeated(Append(to, m))
                        /\ Elements(Append(to, m)) = Elements(to) \cup {m}
<1>1. /\ Head(from) \in S /\ Head(from) \in Elements(from)
      /\ Tail(from) \in Seq(S)
      /\ Elements(from) = Elements(Tail(from)) \cup {Head(from)}
      /\ Unrepeated(Tail(from)) /\ Head(from) \notin Elements(Tail(from))
  BY TailElements
<1>2. ASSUME NEW T, NEW to \in Seq(T), Head(from) \in T, Unrepeated(to),
             Head(from) \notin Elements(to)
      PROVE  /\ Append(to, Head(from)) \in Seq(T) /\ Unrepeated(Append(to, Head(from)))
             /\ Elements(Append(to, Head(from))) = Elements(to) \cup {Head(from)}
  BY <1>2, AppendElements
<1>3. Elements(Tail(from)) = Elements(from) \ {Head(from)}
  BY <1>1
<1> QED BY <1>1, <1>2, <1>3

(***************************************************************************)
(* A message comes back to a thread that has seen it, and goes no further. *)
(***************************************************************************)
LEMMA DroppedStep ==
    ASSUME ProxyInv, UNCHANGED <<ws, redis, toServer, entered, broadcasts, publishes, proxyPanic>>,
           \/ toProxy # <<>> /\ toProxy' = Tail(toProxy) /\ fromRedis' = fromRedis
           \/ fromRedis # <<>> /\ fromRedis' = Tail(fromRedis) /\ toProxy' = toProxy
    PROVE  ProxyInv'
<1>1. /\ toProxy \in Seq(Msgs) /\ Unrepeated(toProxy)
      /\ fromRedis \in Seq(Msgs) /\ Unrepeated(fromRedis)
  BY DEF ProxyInv, Traffic
<1>2. /\ toProxy' \in Seq(Msgs) /\ Unrepeated(toProxy') /\ Elements(toProxy') \subseteq Elements(toProxy)
      /\ fromRedis' \in Seq(Msgs) /\ Unrepeated(fromRedis')
      /\ Elements(fromRedis') \subseteq Elements(fromRedis)
  <2>1. CASE toProxy # <<>> /\ toProxy' = Tail(toProxy) /\ fromRedis' = fromRedis
    BY <1>1, <2>1, TailElements
  <2>2. CASE fromRedis # <<>> /\ fromRedis' = Tail(fromRedis) /\ toProxy' = toProxy
    BY <1>1, <2>2, TailElements
  <2> QED BY <2>1, <2>2
<1>3. Way' \subseteq Way
  BY <1>2 DEF Way
<1>4. Traffic'
  BY <1>2, <1>3 DEF ProxyInv, Traffic
<1>5. Remembered'
  BY <1>2 DEF ProxyInv, Remembered, Unseen
<1>6. /\ \A i \in Underway' : Len(entered') - i <= Window
      /\ Recent(ws', entered', Underway') /\ Recent(redis', entered', Underway')
  BY <1>3, WayShrinks DEF ProxyInv
<1> QED BY <1>4, <1>5, <1>6 DEF ProxyInv, NoEcho

(***************************************************************************)
(* The websocket server gets a client's message, the first time.           *)
(***************************************************************************)
LEMMA ServerStep ==
    ASSUME ProxyInv, ServerHandles
    PROVE  ProxyInv'
<1> DEFINE m == Head(toServer)
<1>1. /\ toServer \in Seq(ClientMsgs) /\ toServer # <<>> /\ Unrepeated(toServer)
      /\ toProxy \in Seq(Msgs) /\ Unrepeated(toProxy)
      /\ toServer' = Tail(toServer)
      /\ UNCHANGED <<redis, fromRedis, entered, publishes>>
  BY DEF ProxyInv, Traffic, ServerHandles
<1>2. /\ m \in ClientMsgs /\ m \in Elements(toServer) /\ m \in Way
      /\ toServer' \in Seq(ClientMsgs) /\ Unrepeated(toServer')
      /\ Elements(toServer') = Elements(toServer) \ {m}
  BY <1>1, PassedOn DEF Way
<1>3. m \in Msgs /\ m \notin Unread /\ Unseen(m)
  BY <1>2, ProxyAssumption DEF Msgs, ProxyInv, Remembered
<1>4. /\ ~ AddPanics(ws, m)
      /\ CollectionSound(Add(ws, m)) /\ Holds(Add(ws, m), m)
      /\ \A x : Holds(Add(ws, m), x) => x = m \/ Holds(ws, x)
      /\ \A x \in Way : Holds(ws, x) => Holds(Add(ws, m), x)
      /\ Recent(Add(ws, m), entered, Underway)
  BY <1>2, <1>3, ProxyAdds DEF Unseen
<1>5. /\ ws' = Add(ws, m) /\ proxyPanic' = FALSE
      /\ toProxy' = Append(toProxy, m) /\ broadcasts' = [broadcasts EXCEPT ![m] = @ + 1]
  BY <1>3, <1>4 DEF ServerHandles, Unseen, Broadcast
<1> HIDE DEF m
<1>6. /\ m \notin Elements(toProxy) /\ m \notin Elements(fromRedis)
      /\ toProxy' \in Seq(Msgs) /\ Unrepeated(toProxy')
      /\ Elements(toProxy') = Elements(toProxy) \cup {m}
  <2>1. m \notin Elements(toProxy) /\ m \notin Elements(fromRedis)
    BY <1>2 DEF ProxyInv, Traffic
  <2> QED BY <1>1, <1>3, <1>5, <2>1, AppendElements
<1>7. Way' = Way
  BY <1>1, <1>2, <1>6 DEF Way
<1>8. Traffic'
  BY <1>1, <1>2, <1>6, <1>7 DEF ProxyInv, Traffic
<1>9. broadcasts \in [Msgs -> Nat] /\ broadcasts[m] = 0
  BY <1>3 DEF ProxyInv, Unseen
<1>10. /\ broadcasts' \in [Msgs -> Nat] /\ broadcasts'[m] = 1
       /\ \A x \in Msgs : x # m => broadcasts'[x] = broadcasts[x]
  BY <1>3, <1>5, <1>9
<1>11. Remembered'
  <2> SUFFICES ASSUME NEW x \in Msgs
               PROVE /\ x \notin Elements(entered') => Unseen(x)'
                     /\ x \in Elements(toServer') => Unseen(x)'
                     /\ x \in Elements(fromRedis') =>
                           IF x \in ClientMsgs THEN Holds(ws', x) ELSE Unseen(x)'
                     /\ x \in Elements(toProxy') =>
                           IF x \in ClientMsgs
                           THEN Holds(ws', x) /\ ~ Holds(redis', x) /\ publishes'[x] = 0
                           ELSE Holds(redis', x)
    BY DEF Remembered
  <2>1. CASE x = m
    BY <1>1, <1>2, <1>3, <1>4, <1>5, <1>6, <2>1 DEF Unseen, ProxyInv, Traffic
  <2>2. CASE x # m
    <3>1. Unseen(x) => Unseen(x)'
      BY <1>1, <1>4, <1>5, <1>10, <2>2 DEF Unseen
    <3>2. x \in Elements(fromRedis) \cup Elements(toProxy) /\ Holds(ws, x) => Holds(ws', x)
      BY <1>4, <1>5 DEF Way
    <3> QED BY <1>1, <1>2, <1>6, <2>2, <3>1, <3>2 DEF ProxyInv, Remembered
  <2> QED BY <2>1, <2>2
<1>12. NoEcho'
  <2>1. \A x \in Msgs : broadcasts[x] <= 1
    BY DEF ProxyInv, NoEcho
  <2>2. \A x \in Msgs : broadcasts'[x] <= 1
    BY <1>10, <2>1
  <2> QED BY <1>1, <2>2 DEF ProxyInv, NoEcho
<1>13. /\ \A i \in Underway' : Len(entered') - i <= Window
       /\ Recent(ws', entered', Underway') /\ Recent(redis', entered', Underway')
  BY <1>1, <1>4, <1>5, <1>7, WayShrinks DEF ProxyInv
<1> QED BY <1>1, <1>4, <1>5, <1>8, <1>10, <1>11, <1>12, <1>13 DEF ProxyInv

(***************************************************************************)
(* The proxy's client gets a broadcast: it publishes what did not come     *)
(* from Redis.                                                             *)
(***************************************************************************)
LEMMA ClientStep ==
    ASSUME ProxyInv, ProxyHandles
    PROVE  ProxyInv'
<1> DEFINE m == Head(toProxy)
<1>1. /\ toProxy \in Seq(Msgs) /\ toProxy # <<>> /\ Unrepeated(toProxy)
      /\ fromRedis \in Seq(Msgs) /\ Unrepeated(fromRedis)
      /\ toProxy' = Tail(toProxy)
      /\ UNCHANGED <<ws, toServer, entered, broadcasts>>
  BY DEF ProxyInv, Traffic, ProxyHandles
<1>2. /\ m \in Msgs /\ m \in Elements(toProxy) /\ m \in Way
      /\ toProxy' \in Seq(Msgs) /\ Unrepeated(toProxy')
      /\ Elements(toProxy') = Elements(toProxy) \ {m}
  BY <1>1, PassedOn DEF Way
<1>3. CASE Holds(redis, m)
  <2>1. UNCHANGED <<redis, fromRedis, publishes, proxyPanic>>
    BY <1>3 DEF ProxyHandles
  <2> QED BY <1>1, <2>1, DroppedStep
<1>4. CASE ~ Holds(redis, m)
  <2>1. m \in ClientMsgs /\ Holds(ws, m) /\ publishes[m] = 0
    BY <1>2, <1>4 DEF ProxyInv, Remembered
  <2>2. /\ ~ AddPanics(redis, m)
        /\ CollectionSound(Add(redis, m)) /\ Holds(Add(redis, m), m)
        /\ \A x : Holds(Add(redis, m), x) => x = m \/ Holds(redis, x)
        /\ \A x \in Way : Holds(redis, x) => Holds(Add(redis, m), x)
        /\ Recent(Add(redis, m), entered, Underway)
    BY <1>2, <1>4, ProxyAdds
  <2>3. /\ redis' = Add(redis, m) /\ proxyPanic' = FALSE
        /\ fromRedis' = Append(fromRedis, m) /\ publishes' = [publishes EXCEPT ![m] = @ + 1]
    BY <1>4, <2>2 DEF ProxyHandles
  <2> HIDE DEF m
  <2>4. /\ m \notin Elements(toServer) /\ m \notin Elements(fromRedis)
        /\ fromRedis' \in Seq(Msgs) /\ Unrepeated(fromRedis')
        /\ Elements(fromRedis') = Elements(fromRedis) \cup {m}
    <3>1. m \notin Elements(toServer) /\ m \notin Elements(fromRedis)
      BY <1>2 DEF ProxyInv, Traffic
    <3> QED BY <1>1, <1>2, <2>3, <3>1, AppendElements
  <2>5. Way' = Way
    BY <1>1, <1>2, <2>4 DEF Way
  <2>6. Traffic'
    BY <1>1, <1>2, <2>4, <2>5 DEF ProxyInv, Traffic
  <2>7. /\ publishes' \in [Msgs -> Nat] /\ publishes'[m] = 1
        /\ \A x \in Msgs : x # m => publishes'[x] = publishes[x]
    BY <1>2, <2>1, <2>3 DEF ProxyInv
  <2>8. Remembered'
    <3> SUFFICES ASSUME NEW x \in Msgs
                 PROVE /\ x \notin Elements(entered') => Unseen(x)'
                       /\ x \in Elements(toServer') => Unseen(x)'
                       /\ x \in Elements(fromRedis') =>
                             IF x \in ClientMsgs THEN Holds(ws', x) ELSE Unseen(x)'
                       /\ x \in Elements(toProxy') =>
                             IF x \in ClientMsgs
                             THEN Holds(ws', x) /\ ~ Holds(redis', x) /\ publishes'[x] = 0
                             ELSE Holds(redis', x)
      BY DEF Remembered
    <3>1. CASE x = m
      BY <1>1, <1>2, <2>1, <2>4, <3>1 DEF ProxyInv, Traffic
    <3>2. CASE x # m
      <4>1. Unseen(x) => Unseen(x)'
        BY <1>1, <2>2, <2>3, <2>7, <3>2 DEF Unseen
      <4>2. x \in Elements(toProxy) /\ Holds(redis, x) => Holds(redis', x)
        BY <2>2, <2>3 DEF Way
      <4>3. ~ Holds(redis, x) => ~ Holds(redis', x)
        BY <2>2, <2>3, <3>2
      <4> QED BY <1>1, <1>2, <2>4, <2>7, <3>2, <4>1, <4>2, <4>3 DEF ProxyInv, Remembered
    <3> QED BY <3>1, <3>2
  <2>9. NoEcho'
    <3>1. m \notin PlatformMsgs
      BY <2>1, ProxyAssumption
    <3>2. /\ \A x \in ClientMsgs : publishes[x] <= 1 /\ x \in Msgs
          /\ \A x \in PlatformMsgs : publishes[x] = 0 /\ x \in Msgs
      BY DEF ProxyInv, NoEcho, Msgs
    <3>3. /\ \A x \in ClientMsgs : publishes'[x] <= 1
          /\ \A x \in PlatformMsgs : publishes'[x] = 0
      BY <2>7, <3>1, <3>2
    <3> QED BY <1>1, <3>3 DEF ProxyInv, NoEcho
  <2>10. /\ \A i \in Underway' : Len(entered') - i <= Window
         /\ Recent(ws', entered', Underway') /\ Recent(redis', entered', Underway')
    BY <1>1, <2>2, <2>3, <2>5, WayShrinks DEF ProxyInv
  <2> QED BY <1>1, <2>2, <2>3, <2>6, <2>7, <2>8, <2>9, <2>10 DEF ProxyInv
<1> QED BY <1>3, <1>4

(***************************************************************************)
(* The proxy gets a message from Redis: it broadcasts what did not come    *)
(* from a client.                                                          *)
(***************************************************************************)
LEMMA RedisStep ==
    ASSUME ProxyInv, RedisHandles
    PROVE  ProxyInv'
<1> DEFINE m == Head(fromRedis)
<1>1. /\ fromRedis \in Seq(Msgs) /\ fromRedis # <<>> /\ Unrepeated(fromRedis)
      /\ toProxy \in Seq(Msgs) /\ Unrepeated(toProxy)
      /\ fromRedis' = Tail(fromRedis)
      /\ UNCHANGED <<toServer, entered, publishes>>
  BY DEF ProxyInv, Traffic, RedisHandles
<1>2. /\ m \in Msgs /\ m \in Elements(fromRedis) /\ m \in Way
      /\ fromRedis' \in Seq(Msgs) /\ Unrepeated(fromRedis')
      /\ Elements(fromRedis') = Elements(fromRedis) \ {m}
  BY <1>1, PassedOn DEF Way
<1>3. CASE m \in Unread \/ Holds(ws, m)
  <2>1. UNCHANGED <<ws, redis, toProxy, broadcasts, proxyPanic>>
    BY <1>3 DEF RedisHandles
  <2> QED BY <1>1, <2>1, DroppedStep
<1>4. CASE ~ (m \in Unread \/ Holds(ws, m))
  <2>1. m \notin ClientMsgs /\ Unseen(m)
    BY <1>2, <1>4 DEF ProxyInv, Remembered
  <2>2. /\ ~ AddPanics(ws, m)
        /\ CollectionSound(Add(ws, m)) /\ Holds(Add(ws, m), m)
        /\ \A x : Holds(Add(ws, m), x) => x = m \/ Holds(ws, x)
        /\ \A x \in Way : Holds(ws, x) => Holds(Add(ws, m), x)
        /\ Recent(Add(ws, m), entered, Underway)
    BY <1>2, <2>1, ProxyAdds DEF Unseen
  <2>3. /\ ~ AddPanics(redis, m)
        /\ CollectionSound(Add(redis, m)) /\ Holds(Add(redis, m), m)
        /\ \A x : Holds(Add(redis, m), x) => x = m \/ Holds(redis, x)
        /\ \A x \in Way : Holds(redis, x) => Holds(Add(redis, m), x)
        /\ Recent(Add(redis, m), entered, Underway)
    BY <1>2, <2>1, ProxyAdds DEF Unseen
  <2>4. /\ ws' = Add(ws, m) /\ redis' = Add(redis, m) /\ proxyPanic' = FALSE
        /\ toProxy' = Append(toProxy, m) /\ broadcasts' = [broadcasts EXCEPT ![m] = @ + 1]
    BY <1>4, <2>2, <2>3 DEF RedisHandles, Broadcast
  <2> HIDE DEF m
  <2>5. /\ m \notin Elements(toServer) /\ m \notin Elements(toProxy)
        /\ toProxy' \in Seq(Msgs) /\ Unrepeated(toProxy')
        /\ Elements(toProxy') = Elements(toProxy) \cup {m}
    <3>1. m \notin Elements(toServer) /\ m \notin Elements(toProxy)
      BY <1>2 DEF ProxyInv, Traffic
    <3> QED BY <1>1, <1>2, <2>4, <3>1, AppendElements
  <2>6. Way' = Way
    BY <1>1, <1>2, <2>5 DEF Way
  <2>7. Traffic'
    BY <1>1, <1>2, <2>5, <2>6 DEF ProxyInv, Traffic
  <2>8. /\ broadcasts' \in [Msgs -> Nat] /\ broadcasts'[m] = 1
        /\ \A x \in Msgs : x # m => broadcasts'[x] = broadcasts[x]
    BY <1>2, <2>1, <2>4 DEF ProxyInv, Unseen
  <2>9. Remembered'
    <3> SUFFICES ASSUME NEW x \in Msgs
                 PROVE /\ x \notin Elements(entered') => Unseen(x)'
                       /\ x \in Elements(toServer') => Unseen(x)'
                       /\ x \in Elements(fromRedis') =>
                             IF x \in ClientMsgs THEN Holds(ws', x) ELSE Unseen(x)'
                       /\ x \in Elements(toProxy') =>
                             IF x \in ClientMsgs
                             THEN Holds(ws', x) /\ ~ Holds(redis', x) /\ publishes'[x] = 0
                             ELSE Holds(redis', x)
      BY DEF Remembered
    <3>1. CASE x = m
      BY <1>1, <1>2, <2>1, <2>3, <2>4, <2>5, <3>1 DEF ProxyInv, Traffic
    <3>2. CASE x # m
      <4>1. Unseen(x) => Unseen(x)'
        BY <1>1, <2>2, <2>3, <2>4, <2>8, <3>2 DEF Unseen
      <4>2. x \in Elements(toProxy) \cup Elements(fromRedis) =>
               (Holds(redis, x) => Holds(redis', x)) /\ (Holds(ws, x) => Holds(ws', x))
        BY <2>2, <2>3, <2>4 DEF Way
      <4>3. ~ Holds(redis, x) => ~ Holds(redis', x)
        BY <2>3, <2>4, <3>2
      <4> QED BY <1>1, <1>2, <2>5, <3>2, <4>1, <4>2, <4>3 DEF ProxyInv, Remembered
    <3> QED BY <3>1, <3>2
  <2>10. NoEcho'
    <3>1. \A x \in Msgs : broadcasts[x] <= 1
      BY DEF ProxyInv, NoEcho
    <3>2. \A x \in Msgs : broadcasts'[x] <= 1
      BY <2>8, <3>1
    <3> QED BY <1>1, <3>2 DEF ProxyInv, NoEcho
  <2>11. /\ \A i \in Underway' : Len(entered') - i <= Window
         /\ Recent(ws', entered', Underway') /\ Recent(redis', entered', Underway')
    BY <1>1, <2>2, <2>3, <2>4, <2>6, WayShrinks
  <2> QED BY <1>1, <2>2, <2>3, <2>4, <2>7, <2>8, <2>9, <2>10, <2>11 DEF ProxyInv
<1> QED BY <1>3, <1>4

(***************************************************************************)
(* At first the collections are empty and nothing is on its way.           *)
(***************************************************************************)
LEMMA ProxyInitInv ==
    ASSUME ProxyInit
    PROVE  ProxyInv
<1>1. /\ ws = Empty /\ redis = Empty /\ proxyPanic = FALSE
      /\ toServer = <<>> /\ toProxy = <<>> /\ fromRedis = <<>> /\ entered = <<>>
      /\ broadcasts = [m \in Msgs |-> 0] /\ publishes = [m \in Msgs |-> 0]
  BY DEF ProxyInit
<1>2. DOMAIN <<>> = {} /\ \A S : <<>> \in Seq(S)
  OBVIOUS
<1>3. Elements(<<>>) = {} /\ Unrepeated(<<>>)
  BY <1>2 DEF Elements, Unrepeated
<1>4. CollectionSound(Empty) /\ \A m : ~ Holds(Empty, m)
  <2>1. /\ Empty = [hm |-> Empty.hm, first_id |-> Empty.first_id, last_id |-> Empty.last_id]
        /\ Empty.hm = <<>> /\ Empty.first_id = 0 /\ Empty.last_id = 0
    BY DEF Empty
  <2>2. <<>> \in [DOMAIN <<>> -> Nat]
    BY <1>2
  <2>3. 0 - 0 <= MaxSize /\ 0 .. (0 - 1) = {}
    BY ProxyAssumption
  <2> QED BY <1>2, <2>1, <2>2, <2>3 DEF CollectionSound, Holds
<1>5. Underway = {}
  BY <1>1, <1>2 DEF Underway
<1>6. Traffic
  BY <1>1, <1>2, <1>3 DEF Traffic, Way
<1>7. Remembered
  BY <1>1, <1>3, <1>4 DEF Remembered, Unseen
<1>8. NoEcho
  BY <1>1 DEF NoEcho, Msgs
<1> QED BY <1>1, <1>4, <1>5, <1>6, <1>7, <1>8 DEF ProxyInv, Recent

(***************************************************************************)
(* The proxy's threads never panic, and whoever has to recognise a message *)
(* that comes back still remembers it.                                     *)
(***************************************************************************)
THEOREM ProxyInvariant == ProxySpec => []ProxyInv
<1>1. ASSUME ProxyInv, [ProxyNext]_proxyVars PROVE ProxyInv'
  <2>1. CASE \E m \in ClientMsgs : ClientSends(m)
    BY <1>1, <2>1, EnterStep DEF Msgs
  <2>2. CASE \E m \in PlatformMsgs : PlatformPublishes(m)
    BY <1>1, <2>2, EnterStep DEF Msgs
  <2>3. CASE ServerHandles \/ ProxyHandles \/ RedisHandles
    BY <1>1, <2>3, ServerStep, ClientStep, RedisStep
  <2>4. CASE UNCHANGED proxyVars
    <3>1. UNCHANGED <<Way, Underway>>
      BY <2>4 DEF proxyVars, Way, Underway
    <3> QED BY <1>1, <2>4, <3>1 DEF proxyVars, ProxyInv, Traffic, Remembered, Unseen, NoEcho
  <2> QED BY <1>1, <2>1, <2>2, <2>3, <2>4 DEF ProxyNext
<1> QED BY <1>1, ProxyInitInv, PTL DEF ProxySpec

(***************************************************************************)
(* The collections have no holes, so add finds what it forgets, and no     *)
(* message goes round, for any messages and any window that is less than   *)
(* half of what the collections keep.                                      *)
(***************************************************************************)
THEOREM ProxyNeverEchoes == ProxySpec => []ProxySound
<1>1. ASSUME NEW c, CollectionSound(c)
      PROVE  /\ {c.hm[m] : m \in DOMAIN c.hm} = c.first_id .. (c.last_id - 1)
             /\ Cardinality(DOMAIN c.hm) <= MaxSize
             /\ Cardinality(DOMAIN c.hm) = c.last_id - c.first_id
  <2> DEFINE h == c.hm
             first == c.first_id
             last == c.last_id
  <2>1. /\ first \in Nat /\ last \in Nat /\ first <= last /\ last - first <= MaxSize
        /\ h \in [DOMAIN h -> Nat]
        /\ \A m, n \in DOMAIN h : h[m] = h[n] => m = n
        /\ \A m \in DOMAIN h : h[m] \in first .. (last - 1)
        /\ \A i \in first .. (last - 1) : \E m \in DOMAIN h : h[m] = i
    BY <1>1 DEF CollectionSound
  <2> HIDE DEF h, first, last
  <2>2. h \in [DOMAIN h -> first .. (last - 1)]
    BY <2>1
  <2>3. Cardinality(DOMAIN h) = last - first
    BY <2>1, <2>2, IdsCount
  <2>4. {h[m] : m \in DOMAIN h} = first .. (last - 1)
    BY <2>1
  <2> QED BY <2>1, <2>3, <2>4 DEF h, first, last
<1>2. ProxyInv => ProxySound
  BY <1>1 DEF ProxyInv, ProxySound, IdsContiguous
<1> QED BY <1>2, ProxyInvariant, PTL

-----------------------------------------------------------------------------
(* The closures that write ticks *)

\* The queries of a closure, of ticks of S.
Query(S) == [rows : Seq(S), fate : Fates]

\* What a closure works on, for ticks of S.
Sink(S, r) ==
    /\ {"dst", "held", "stored", "queries"} \subseteq DOMAIN r
    /\ r.held \in Seq(S) /\ r.stored \in Seq(S) /\ r.queries \in Seq(Query(S))

\* A record whose closure did something.
Worked(q, r) == q = [r EXCEPT !.held = q.held, !.stored = q.stored, !.queries = q.queries]

\* All that was written came first.
WrittenFirst(S, r, given) == \E rest \in Seq(S) : r.stored \o rest = given

\* The parts of a sequence that is put together from two.
LEMMA CutApart ==
    ASSUME NEW S, NEW s \in Seq(S), NEW t \in Seq(S)
    PROVE  /\ SubSeq(s \o t, 1, Len(s)) = s
           /\ SubSeq(s \o t, Len(s) + 1, Len(s) + Len(t)) = t
<1> DEFINE both == s \o t
           m == Len(s)
           n == Len(t)
<1>1. /\ m \in Nat /\ n \in Nat /\ both \in Seq(S) /\ Len(both) = m + n
      /\ \A i \in 1..m : s[i] \in S
      /\ \A i \in 1..n : t[i] \in S
      /\ \A i \in 1..(m + n) : both[i] = IF i <= m THEN s[i] ELSE t[i - m]
  BY ConcatProperties, LenProperties
<1> HIDE DEF both, m, n
<1>2. SubSeq(both, 1, m) \in Seq(S) /\ Len(SubSeq(both, 1, m)) = m
      /\ \A i \in 1..m : SubSeq(both, 1, m)[i] = s[i]
  <2>1. \A i \in 1..m : both[i] = s[i] /\ both[i] \in S
    BY <1>1
  <2>2. /\ SubSeq(both, 1, m) \in Seq(S)
        /\ Len(SubSeq(both, 1, m)) = IF 1 <= m THEN m - 1 + 1 ELSE 0
        /\ \A i \in 1 .. m - 1 + 1 : SubSeq(both, 1, m)[i] = both[1 + i - 1]
    BY <1>1, <2>1, SubSeqProperties
  <2>3. m - 1 + 1 = m /\ \A i \in 1..m : 1 + i - 1 = i
    BY <1>1
  <2> QED BY <1>1, <2>1, <2>2, <2>3
<1>3. /\ SubSeq(both, m + 1, m + n) \in Seq(S) /\ Len(SubSeq(both, m + 1, m + n)) = n
      /\ \A i \in 1..n : SubSeq(both, m + 1, m + n)[i] = t[i]
  <2>1. \A i \in 1..n : both[m + i] = t[i]
    BY <1>1
  <2>2. \A i \in m + 1 .. m + n : both[i] \in S
    BY <1>1
  <2>3. /\ SubSeq(both, m + 1, m + n) \in Seq(S)
        /\ Len(SubSeq(both, m + 1, m + n)) = IF m + 1 <= m + n THEN m + n - (m + 1) + 1 ELSE 0
        /\ \A i \in 1 .. m + n - (m + 1) + 1 : SubSeq(both, m + 1, m + n)[i] = both[m + 1 + i - 1]
    BY <1>1, <2>2, SubSeqProperties
  <2>4. /\ m + n - (m + 1) + 1 = n /\ \A i \in 1..n : m + 1 + i - 1 = m + i
        /\ m + 1 <= m + n <=> 1 <= n
    BY <1>1
  <2> QED BY <1>1, <2>1, <2>3, <2>4
<1>4. SubSeq(both, 1, m) = s
  BY <1>1, <1>2, SeqEqual DEF m
<1>5. SubSeq(both, m + 1, m + n) = t
  BY <1>1, <1>3, SeqEqual DEF n
<1> QED BY <1>4, <1>5 DEF both, m, n

\* A part of a longer sequence.
LEMMA CutOfLonger ==
    ASSUME NEW S, NEW s \in Seq(S), NEW e \in S, NEW m \in 1 .. Len(s) + 1
    PROVE  /\ \A n \in 0..Len(s) : SubSeq(Append(s, e), m, n) = SubSeq(s, m, n)
           /\ SubSeq(Append(s, e), m, Len(s) + 1) = Append(SubSeq(s, m, Len(s)), e)
<1>1. /\ Len(s) \in Nat /\ m \in Int /\ Append(s, e) \in Seq(S) /\ Append(s, e) = s \o <<e>>
      /\ Len(Append(s, e)) = Len(s) + 1 /\ Append(s, e)[Len(s) + 1] = e /\ <<e>> \in Seq(S)
  BY LenProperties, AppendProperties, AppendIsConcat
<1>2. ASSUME NEW n \in 0..Len(s) PROVE SubSeq(Append(s, e), m, n) = SubSeq(s, m, n)
  <2>1. CASE n < m
    BY <1>1, <2>1, SubSeqEmpty
  <2>2. CASE ~(n < m)
    <3>1. m \in 1..Len(s) /\ n \in 1..Len(s)
      BY <1>1, <2>2
    <3> QED BY <1>1, <3>1, SubSeqOfConcat1
  <2> QED BY <2>1, <2>2
<1>3. SubSeq(Append(s, e), m, Len(s) + 1) = Append(SubSeq(s, m, Len(s)), e)
  <2> DEFINE longer == Append(s, e)
             n == Len(s) + 1
             part == SubSeq(s, m, Len(s))
  <2>1. m \in 1..Len(longer) /\ n \in m..Len(longer) /\ n - 1 = Len(s)
    BY <1>1
  <2>2. SubSeq(longer, m, n) = SubSeq(longer, m, n - 1) \o <<longer[n]>>
    BY <1>1, <2>1, SubSeqRecursiveSecond
  <2>3. SubSeq(longer, m, n - 1) = part
    BY <1>1, <1>2, <2>1
  <2>4. part \in Seq(S)
    <3>1. \A i \in m..Len(s) : s[i] \in S
      BY <1>1, LenProperties
    <3> QED BY <1>1, <3>1, SubSeqProperties
  <2>5. Append(part, e) = part \o <<e>>
    BY <2>4, AppendIsConcat
  <2> QED BY <1>1, <2>2, <2>3, <2>5
<1> QED BY <1>2, <1>3

\* Batches lie one behind the other.
LEMMA BatchesLineUp ==
    ASSUME NEW n \in Nat, NEW size \in Nat
    PROVE  /\ n * size \in Nat /\ (n + 1) * size = n * size + size
           /\ \A k \in 1..n : /\ (k - 1) * size \in Nat /\ k * size \in Nat
                             /\ k * size <= n * size /\ (k - 1) * size <= n * size
<1>1. ASSUME NEW i \in Nat, NEW d \in Nat
      PROVE  /\ i * size \in Nat /\ d * size \in Nat /\ (i + 1) * size = i * size + size
             /\ (i + d) * size = i * size + d * size
  BY SMTT(30)
<1>2. ASSUME NEW k \in 1..n
      PROVE  /\ (k - 1) * size \in Nat /\ k * size \in Nat
             /\ k * size <= n * size /\ (k - 1) * size <= n * size
  <2>1. k \in Nat /\ k - 1 \in Nat /\ n - k \in Nat /\ k + (n - k) = n /\ k - 1 + 1 = k
    OBVIOUS
  <2>2. /\ k * size \in Nat /\ (n - k) * size \in Nat
        /\ (k + (n - k)) * size = k * size + (n - k) * size
    BY <1>1, <2>1
  <2>3. (k - 1) * size \in Nat /\ (k - 1 + 1) * size = (k - 1) * size + size
    BY <1>1, <2>1
  <2> DEFINE a == k * size
             b == (k - 1) * size
             c == (n - k) * size
  <2>4. n * size = a + c /\ a = b + size /\ a \in Nat /\ b \in Nat /\ c \in Nat
    BY <2>1, <2>2, <2>3, Zenon
  <2> HIDE DEF a, b, c
  <2>5. a <= n * size /\ b <= n * size
    BY <2>4
  <2> QED BY <2>4, <2>5 DEF a, b
<1> QED BY <1>1, <1>2

(***************************************************************************)
(* A tick goes through the closure and is accounted for.                   *)
(***************************************************************************)
LEMMA ClosureAccounts ==
    ASSUME NEW S, NEW r, Sink(S, r), NEW tick \in S, NEW given \in Seq(S),
           Accounted(r, given), NEW q, q = RxClosure(r, tick)
    PROVE  Sink(S, q) /\ Accounted(q, Append(given, tick)) /\ Worked(q, r)
<1> DEFINE held == Append(r.held, tick)
           after == Append(given, tick)
           B == BatchSize
           n == Len(r.queries)
           batch == [rows |-> held, fate |-> "underway"]
<1>1. /\ r.held \in Seq(S) /\ r.stored \in Seq(S) /\ r.queries \in Seq(Query(S))
      /\ Len(r.held) \in Nat /\ n \in Nat /\ Len(given) \in Nat /\ Len(r.held) < B
      /\ B \in Nat \ {0} /\ <<tick>> \in Seq(S) /\ <<>> \in Seq(S) /\ Len(<<>>) = 0
  BY TransferAssumption, LenProperties, EmptySeq DEF Sink, Accounted
<1>2. /\ held \in Seq(S) /\ Len(held) = Len(r.held) + 1 /\ held = r.held \o <<tick>>
      /\ after \in Seq(S) /\ Len(after) = Len(given) + 1 /\ after = given \o <<tick>>
  BY <1>1, AppendProperties, AppendIsConcat
<1>3. r.dst # "Postgres" => r.stored \o held = after
  <2>1. ASSUME NEW s \in Seq(S), NEW t \in Seq(S), NEW u \in Seq(S)
        PROVE  (s \o t) \o u = s \o (t \o u)
    BY ConcatAssociative
  <2>2. (r.stored \o r.held) \o <<tick>> = r.stored \o (r.held \o <<tick>>)
    BY <1>1, <2>1, Zenon
  <2>3. r.dst # "Postgres" => r.stored \o r.held = given
    BY DEF Accounted
  <2> QED BY <1>2, <2>2, <2>3, Zenon
<1>4. CASE r.dst \notin Buffering
  <2>1. q = [r EXCEPT !.stored = Append(@, tick)]
    BY <1>4 DEF RxClosure
  <2>2. /\ q.held = r.held /\ q.dst = r.dst /\ q.stored = Append(r.stored, tick)
        /\ q.queries = r.queries /\ DOMAIN q = DOMAIN r
    BY <2>1 DEF Sink
  <2>3. r.held = <<>> /\ r.dst # "Postgres" /\ r.queries = <<>>
    BY <1>4 DEF Accounted, Buffering
  <2>4. q.stored \in Seq(S) /\ q.stored = after
    <3>1. held = <<tick>>
      BY <1>1, <1>2, <2>3, ConcatEmptySeq
    <3>2. Append(r.stored, tick) \in Seq(S) /\ Append(r.stored, tick) = r.stored \o <<tick>>
      BY <1>1, AppendProperties, AppendIsConcat
    <3> HIDE DEF held, after
    <3> QED BY <1>3, <2>2, <2>3, <3>1, <3>2
  <2>5. q.stored \o q.held = after
    <3>1. q.stored \o <<>> = q.stored
      BY <2>4, ConcatEmptySeq
    <3> QED BY <2>2, <2>3, <2>4, <3>1
  <2>6. Sink(S, q)
    BY <1>1, <2>2, <2>4 DEF Sink
  <2>7. Worked(q, r)
    BY <2>1, <2>2 DEF Worked, Sink
  <2>8. Accounted(q, after)
    BY <1>1, <2>2, <2>3, <2>5 DEF Accounted
  <2> QED BY <2>6, <2>7, <2>8
<1>5. CASE r.dst \in Buffering /\ Len(held) < B
  <2>1. q = [r EXCEPT !.held = held]
    BY <1>5 DEF RxClosure
  <2>2. /\ q.held = held /\ q.dst = r.dst /\ q.stored = r.stored
        /\ q.queries = r.queries /\ DOMAIN q = DOMAIN r
    BY <2>1 DEF Sink
  <2>3. Sink(S, q)
    BY <1>1, <1>2, <2>2 DEF Sink
  <2>4. Worked(q, r)
    BY <2>1, <2>2 DEF Worked, Sink
  <2>5. CASE r.dst # "Postgres"
    <3>1. r.queries = <<>>
      BY <2>5 DEF Accounted
    <3> HIDE DEF held, after
    <3>2. Accounted(q, after)
      BY <1>3, <1>5, <2>2, <2>5, <3>1 DEF Accounted
    <3> QED BY <2>3, <2>4, <3>2 DEF after
  <2>6. CASE r.dst = "Postgres"
    <3> DEFINE m == n * B
    <3>1. /\ r.stored = <<>> /\ Len(given) = m + Len(r.held)
          /\ r.held = SubSeq(given, m + 1, Len(given))
          /\ \A k \in DOMAIN r.queries :
                r.queries[k].rows = SubSeq(given, (k - 1) * B + 1, k * B)
      BY <2>6 DEF Accounted
    <3>2. m \in Nat /\ DOMAIN r.queries = 1..n
      BY <1>1, LenProperties
    <3>3. \A k \in 1..n : (k - 1) * B \in Nat /\ k * B \in Nat /\ k * B <= m
                          /\ (k - 1) * B <= m
      BY <1>1, BatchesLineUp
    <3> HIDE DEF m, held
    <3>4. held = SubSeq(after, m + 1, Len(after))
      <4>1. m + 1 \in 1 .. Len(given) + 1
        <5>1. Len(given) = m + Len(r.held) /\ Len(r.held) \in Nat /\ m \in Nat
          BY <1>1, <3>1, <3>2
        <5> QED BY <5>1
      <4>2. SubSeq(after, m + 1, Len(given) + 1) = Append(SubSeq(given, m + 1, Len(given)), tick)
        BY <4>1, CutOfLonger
      <4> QED BY <1>2, <3>1, <4>2 DEF held
    <3>5. ASSUME NEW k \in 1..n
          PROVE  r.queries[k].rows = SubSeq(after, (k - 1) * B + 1, k * B)
      <4> DEFINE i == (k - 1) * B
                 j == k * B
      <4>1. i \in Nat /\ j \in Nat /\ j <= m /\ i <= m
        BY <3>3
      <4>2. r.queries[k].rows = SubSeq(given, i + 1, j)
        BY <3>1, <3>2
      <4> HIDE DEF i, j
      <4>3. i + 1 \in 1 .. Len(given) + 1 /\ j \in 0..Len(given)
        BY <1>1, <3>1, <3>2, <4>1
      <4>4. SubSeq(after, i + 1, j) = SubSeq(given, i + 1, j)
        BY <4>3, CutOfLonger
      <4> QED BY <4>2, <4>4 DEF i, j
    <3> HIDE DEF after
    <3>6. Len(after) = m + Len(held)
      BY <1>1, <1>2, <3>1, <3>2
    <3>7. Accounted(q, after)
      BY <1>5, <2>2, <2>6, <3>1, <3>2, <3>4, <3>5, <3>6 DEF Accounted, m
    <3> QED BY <2>3, <2>4, <3>7 DEF after
  <2> QED BY <2>5, <2>6
<1>6. CASE r.dst \in Buffering /\ ~(Len(held) < B) /\ r.dst # "Postgres"
  <2>1. q = [r EXCEPT !.held = <<>>, !.stored = @ \o held]
    BY <1>6 DEF RxClosure
  <2>2. /\ q.held = <<>> /\ q.dst = r.dst /\ q.stored = r.stored \o held
        /\ q.queries = r.queries /\ DOMAIN q = DOMAIN r
    BY <2>1 DEF Sink
  <2> HIDE DEF held, after
  <2>3. q.stored \in Seq(S) /\ q.stored \o <<>> = q.stored
    <3>1. q.stored \in Seq(S)
      BY <1>1, <1>2, <2>2, ConcatProperties
    <3> QED BY <3>1, ConcatEmptySeq
  <2>4. Sink(S, q)
    BY <1>1, <2>2, <2>3 DEF Sink
  <2>5. Worked(q, r)
    BY <2>1, <2>2 DEF Worked, Sink
  <2>6. r.queries = <<>>
    BY <1>6 DEF Accounted
  <2>7. Accounted(q, after)
    BY <1>1, <1>3, <1>6, <2>2, <2>3, <2>6 DEF Accounted
  <2> QED BY <2>4, <2>5, <2>7 DEF after
<1>7. CASE r.dst \in Buffering /\ ~(Len(held) < B) /\ r.dst = "Postgres"
  <2>1. q = [r EXCEPT !.held = <<>>, !.queries = Append(@, batch)]
    BY <1>7 DEF RxClosure
  <2>2. /\ q.held = <<>> /\ q.dst = r.dst /\ q.stored = r.stored
        /\ q.queries = Append(r.queries, batch) /\ DOMAIN q = DOMAIN r
    BY <2>1 DEF Sink
  <2>3. batch \in Query(S) /\ batch.rows = held
    BY <1>2 DEF Query, Fates
  <2>4. /\ q.queries \in Seq(Query(S)) /\ Len(q.queries) = n + 1
        /\ \A k \in 1..n : q.queries[k] = r.queries[k]
        /\ q.queries[n + 1] = batch /\ DOMAIN q.queries = 1..(n + 1)
    <3> HIDE DEF batch
    <3> QED BY <1>1, <2>2, <2>3, AppendProperties, LenProperties
  <2>5. Sink(S, q)
    BY <1>1, <2>2, <2>4 DEF Sink
  <2>6. Worked(q, r)
    BY <2>1, <2>2 DEF Worked, Sink
  <2> DEFINE m == n * B
  <2>7. /\ r.stored = <<>> /\ Len(given) = m + Len(r.held)
        /\ r.held = SubSeq(given, m + 1, Len(given))
        /\ \A k \in DOMAIN r.queries :
              r.queries[k].rows = SubSeq(given, (k - 1) * B + 1, k * B)
    BY <1>7 DEF Accounted
  <2>8. m \in Nat /\ DOMAIN r.queries = 1..n /\ (n + 1) * B = m + B
    BY <1>1, LenProperties
  <2>9. \A k \in 1..n : (k - 1) * B \in Nat /\ k * B \in Nat /\ k * B <= m
                        /\ (k - 1) * B <= m
    BY <1>1, BatchesLineUp
  <2> HIDE DEF held
  <2>10. Len(held) = B
    BY <1>1, <1>2, <1>7
  <2>11. Len(after) = m + B
    <3> HIDE DEF m, after
    <3>1. /\ Len(after) = Len(given) + 1 /\ Len(given) = m + Len(r.held) /\ m \in Nat
          /\ Len(r.held) \in Nat /\ Len(r.held) + 1 = B
      BY <1>1, <1>2, <2>7, <2>8, <2>10
    <3> QED BY <3>1
  <2>12. held = SubSeq(after, m + 1, m + B)
    <3> HIDE DEF m
    <3>1. m + 1 \in 1 .. Len(given) + 1
      BY <1>1, <2>7, <2>8
    <3>2. SubSeq(after, m + 1, Len(given) + 1) = Append(SubSeq(given, m + 1, Len(given)), tick)
      BY <3>1, CutOfLonger
    <3> QED BY <1>2, <2>7, <2>11, <3>2 DEF held
  <2>13. ASSUME NEW k \in 1..(n + 1)
         PROVE  q.queries[k].rows = SubSeq(after, (k - 1) * B + 1, k * B)
    <3>1. CASE k \in 1..n
      <4> DEFINE i == (k - 1) * B
                 j == k * B
      <4>1. i \in Nat /\ j \in Nat /\ j <= m /\ i <= m
        BY <2>9, <3>1
      <4>2. q.queries[k].rows = SubSeq(given, i + 1, j)
        BY <2>4, <2>7, <2>8, <3>1
      <4> HIDE DEF i, j, m
      <4>3. i + 1 \in 1 .. Len(given) + 1 /\ j \in 0..Len(given)
        BY <1>1, <2>7, <2>8, <4>1
      <4>4. SubSeq(after, i + 1, j) = SubSeq(given, i + 1, j)
        BY <4>3, CutOfLonger
      <4> QED BY <4>2, <4>4 DEF i, j
    <3>2. CASE k \notin 1..n
      <4>1. k = n + 1 /\ k - 1 = n
        BY <1>1, <3>2
      <4>2. (k - 1) * B = m /\ k * B = m + B
        BY <2>8, <4>1
      <4>3. q.queries[k].rows = held
        BY <2>3, <2>4, <4>1
      <4> HIDE DEF m, after
      <4> QED BY <2>12, <4>2, <4>3
    <3> QED BY <3>1, <3>2
  <2>14. SubSeq(after, (n + 1) * B + 1, Len(after)) = <<>>
    <3> HIDE DEF m, after
    <3>1. (n + 1) * B + 1 = m + B + 1 /\ m + B + 1 \in Int /\ m + B \in Int /\ m + B < m + B + 1
      BY <1>1, <2>8
    <3> QED BY <2>11, <3>1, SubSeqEmpty
  <2>15. Len(after) = (n + 1) * B + 0
    <3> HIDE DEF m, after
    <3> QED BY <1>1, <2>8, <2>11
  <2> HIDE DEF after, m
  <2>16. Accounted(q, after)
    <3>1. Len(q.held) = 0 /\ 0 < B /\ q.dst \in Buffering /\ q.dst = "Postgres"
      BY <1>1, <1>7, <2>2
    <3>2. q.held = SubSeq(after, Len(q.queries) * B + 1, Len(after))
      BY <2>2, <2>4, <2>14
    <3>3. Len(after) = Len(q.queries) * B + Len(q.held)
      BY <2>4, <2>15, <3>1
    <3>4. q.stored = <<>>
      BY <2>2, <2>7
    <3>5. \A k \in DOMAIN q.queries :
             q.queries[k].rows = SubSeq(after, (k - 1) * BatchSize + 1, k * BatchSize)
      BY <2>4, <2>13
    <3> QED BY <3>1, <3>2, <3>3, <3>4, <3>5 DEF Accounted
  <2> QED BY <2>5, <2>6, <2>16 DEF after
<1> QED BY <1>4, <1>5, <1>6, <1>7

(***************************************************************************)
(* A query is done with: nothing else changes.                             *)
(***************************************************************************)
LEMMA SettledAccounts ==
    ASSUME NEW S, NEW r, Sink(S, r), NEW q \in Settled(r)
    PROVE  /\ Sink(S, q) /\ Worked(q, r) /\ q.held = r.held /\ q.stored = r.stored /\ q.dst = r.dst
           /\ r.queries # <<>> /\ q.queries # <<>>
           /\ \A given : Accounted(r, given) => Accounted(q, given)
<1>1. PICK k \in DOMAIN r.queries, fate \in {"stored", "lost"} :
         q = [r EXCEPT !.queries[k].fate = fate]
  BY DEF Settled
<1> DEFINE settled == [r.queries EXCEPT ![k] = [r.queries[k] EXCEPT !.fate = fate]]
<1>2. r.queries \in Seq(Query(S)) /\ DOMAIN r.queries = 1..Len(r.queries) /\ Len(r.queries) \in Nat
  BY LenProperties DEF Sink
<1>3. r.queries[k] \in Query(S) /\ fate \in Fates
  BY <1>2, ElementOfSeq DEF Fates
<1>4. /\ [r.queries[k] EXCEPT !.fate = fate] \in Query(S)
      /\ [r.queries[k] EXCEPT !.fate = fate].rows = r.queries[k].rows
  BY <1>3 DEF Query
<1>5. /\ settled \in Seq(Query(S)) /\ Len(settled) = Len(r.queries)
      /\ DOMAIN settled = DOMAIN r.queries
      /\ \A j \in DOMAIN r.queries : settled[j].rows = r.queries[j].rows
  <2> HIDE DEF Query
  <2>1. \A e \in Query(S) :
           /\ [r.queries EXCEPT ![k] = e] \in Seq(Query(S))
           /\ Len([r.queries EXCEPT ![k] = e]) = Len(r.queries)
           /\ \A j \in 1 .. Len(r.queries) :
                 [r.queries EXCEPT ![k] = e][j] = IF j = k THEN e ELSE r.queries[j]
    BY <1>2, ExceptSeq
  <2> QED BY <1>2, <1>4, <2>1
<1>6. /\ q.queries = settled /\ q.held = r.held /\ q.stored = r.stored /\ q.dst = r.dst
      /\ DOMAIN q = DOMAIN r /\ q = [r EXCEPT !.queries = settled]
  BY <1>1 DEF Sink
<1> HIDE DEF settled
<1>7. Sink(S, q)
  BY <1>5, <1>6 DEF Sink
<1>8. Worked(q, r)
  BY <1>6 DEF Worked, Sink
<1>9. r.queries # <<>> /\ q.queries # <<>>
  BY <1>2, <1>5, <1>6, EmptySeq
<1>10. ASSUME NEW given, Accounted(r, given) PROVE Accounted(q, given)
  BY <1>5, <1>6, <1>9, <1>10 DEF Accounted
<1> QED BY <1>6, <1>7, <1>8, <1>9, <1>10

(***************************************************************************)
(* The closure panics: what is written came first, the rest is lost.       *)
(***************************************************************************)
LEMMA PanicWrites ==
    ASSUME NEW S, NEW r, Sink(S, r), NEW tick \in S, NEW given \in Seq(S),
           Accounted(r, given), NEW q \in RxPanics(r, tick)
    PROVE  Sink(S, q) /\ WrittenFirst(S, q, Append(given, tick)) /\ (q = r \/ Worked(q, r))
<1> DEFINE held == Append(r.held, tick)
           after == Append(given, tick)
<1>1. /\ r.held \in Seq(S) /\ r.stored \in Seq(S) /\ r.queries \in Seq(Query(S))
      /\ <<tick>> \in Seq(S) /\ <<>> \in Seq(S) /\ Len(<<>>) = 0
  BY DEF Sink
<1>2. /\ held \in Seq(S) /\ held = r.held \o <<tick>>
      /\ after \in Seq(S) /\ after = given \o <<tick>>
  BY <1>1, AppendProperties, AppendIsConcat
<1>3. r.dst # "Postgres"
  BY DEF RxPanics
<1>4. ASSUME NEW s \in Seq(S), NEW t \in Seq(S), NEW u \in Seq(S)
      PROVE  (s \o t) \o u = s \o (t \o u)
  BY ConcatAssociative
<1>5. r.stored \o held = after
  <2>1. (r.stored \o r.held) \o <<tick>> = r.stored \o (r.held \o <<tick>>)
    BY <1>1, <1>4, Zenon
  <2>2. r.stored \o r.held = given
    BY <1>3 DEF Accounted
  <2> QED BY <1>2, <2>1, <2>2, Zenon
<1>6. CASE q = r
  <2> HIDE DEF held, after
  <2>1. WrittenFirst(S, q, after)
    BY <1>2, <1>5, <1>6 DEF WrittenFirst
  <2> QED BY <1>6, <2>1 DEF after
<1>7. ASSUME NEW k \in 0..Len(held),
             q = [r EXCEPT !.held = <<>>, !.stored = @ \o SubSeq(held, 1, k)]
      PROVE  Sink(S, q) /\ WrittenFirst(S, q, after) /\ Worked(q, r)
  <2> HIDE DEF held, after
  <2> DEFINE first == SubSeq(held, 1, k)
             rest == SubSeq(held, k + 1, Len(held))
  <2>1. Len(held) \in Nat /\ \A i \in 1..Len(held) : held[i] \in S
    BY <1>2, LenProperties
  <2>2. first \in Seq(S) /\ rest \in Seq(S)
    <3>1. (\A i \in 1..k : held[i] \in S) /\ (\A i \in k + 1 .. Len(held) : held[i] \in S)
      BY <2>1
    <3> QED BY <2>1, <3>1, SubSeqProperties
  <2>3. first \o rest = held
    <3>1. 1 \in 1 .. Len(held) + 1 /\ k \in 1 - 1 .. Len(held) /\ Len(held) \in k..Len(held)
      BY <2>1
    <3>2. SubSeq(held, 1, k) \o SubSeq(held, k + 1, Len(held)) = SubSeq(held, 1, Len(held))
      BY ZenonT(30), <1>2, <3>1, ConcatAdjacentSubSeq
    <3>3. SubSeq(held, 1, Len(held)) = held
      BY <1>2, SubSeqFull
    <3> QED BY <3>2, <3>3
  <2> HIDE DEF first, rest
  <2>4. /\ q.held = <<>> /\ q.stored = r.stored \o first /\ q.dst = r.dst
        /\ q.queries = r.queries /\ DOMAIN q = DOMAIN r
    BY <1>7 DEF Sink, first
  <2>5. q.stored \in Seq(S) /\ q.stored \o rest = after
    <3>1. q.stored \in Seq(S)
      BY <1>1, <2>2, <2>4, ConcatProperties
    <3>2. (r.stored \o first) \o rest = r.stored \o (first \o rest)
      BY <1>1, <1>4, <2>2, ZenonT(40)
    <3> QED BY <1>5, <2>3, <2>4, <3>1, <3>2
  <2>6. Sink(S, q)
    BY <1>1, <2>4, <2>5 DEF Sink
  <2>7. Worked(q, r)
    BY <1>7, <2>4 DEF Worked, Sink
  <2> QED BY <2>2, <2>5, <2>6, <2>7 DEF WrittenFirst
<1>8. q = r \/ \E k \in 0..Len(held) :
                  q = [r EXCEPT !.held = <<>>, !.stored = @ \o SubSeq(held, 1, k)]
  <2> HIDE DEF held
  <2>1. RxPanics(r, tick) = IF r.dst = "Flatfile" THEN {r}
            ELSE IF r.dst \in {"RedisChannel", "RedisSet"} /\ Len(held) >= BatchSize
                 THEN {[r EXCEPT !.held = <<>>, !.stored = @ \o SubSeq(held, 1, k)] :
                          k \in 0..Len(held)}
            ELSE {}
    BY DEF RxPanics, held
  <2> QED BY <2>1
<1> QED BY <1>6, <1>7, <1>8

\* What came first is a prefix, and comes first of something longer.
LEMMA FirstIsPrefix ==
    ASSUME NEW S, NEW r, r.stored \in Seq(S), NEW given \in Seq(S), WrittenFirst(S, r, given)
    PROVE  /\ IsPrefix(r.stored, given)
           /\ \A tick \in S : WrittenFirst(S, r, Append(given, tick))
           /\ \A more \in Seq(S) : WrittenFirst(S, r, given \o more)
<1>1. PICK rest \in Seq(S) : r.stored \o rest = given
  BY DEF WrittenFirst
<1>2. /\ Len(given) = Len(r.stored) + Len(rest) /\ Len(r.stored) \in Nat /\ Len(rest) \in Nat
  BY <1>1, ConcatProperties, LenProperties
<1>3. IsPrefix(r.stored, given)
  <2>1. SubSeq(given, 1, Len(r.stored)) = r.stored /\ SubSeq(r.stored, 1, Len(r.stored)) = r.stored
    BY <1>1, CutApart, SubSeqFull
  <2>2. Len(r.stored) <= Len(given)
    BY <1>2
  <2> QED BY <2>1, <2>2 DEF IsPrefix
<1>4. ASSUME NEW more \in Seq(S) PROVE WrittenFirst(S, r, given \o more)
  <2>1. rest \o more \in Seq(S)
    BY ConcatProperties
  <2>2. \A s \in Seq(S), t \in Seq(S), u \in Seq(S) : (s \o t) \o u = s \o (t \o u)
    BY SMTT(30), ConcatAssociative
  <2>3. (r.stored \o rest) \o more = r.stored \o (rest \o more)
    BY <2>2, Zenon
  <2> QED BY <1>1, <2>1, <2>3 DEF WrittenFirst
<1>5. ASSUME NEW tick \in S PROVE WrittenFirst(S, r, Append(given, tick))
  <2>1. <<tick>> \in Seq(S) /\ Append(given, tick) = given \o <<tick>>
    BY AppendIsConcat
  <2> QED BY <1>4, <2>1
<1> QED BY <1>3, <1>4, <1>5

-----------------------------------------------------------------------------
(* Transfers of files and tables *)

\* Turned around, a sequence begins with its last element.
LEMMA ReverseLast ==
    ASSUME NEW S, NEW s \in Seq(S), s # <<>>
    PROVE  /\ Last(s) \in S /\ Front(s) \in Seq(S)
           /\ Reverse(s) \in Seq(S) /\ Reverse(Front(s)) \in Seq(S)
           /\ Reverse(s) = <<Last(s)>> \o Reverse(Front(s))
<1> DEFINE n == Len(s)
           f == Front(s)
           turned == Reverse(s)
           rest == Reverse(f)
<1>1. n \in Nat \ {0} /\ \A i \in 1..n : s[i] \in S
  BY LenProperties, EmptySeq
<1>2. Last(s) = s[n] /\ Last(s) \in S
  BY <1>1 DEF Last
<1>3. f \in Seq(S) /\ Len(f) = n - 1 /\ \A i \in 1..(n - 1) : f[i] = s[i]
  <2>1. f = SubSeq(s, 1, n - 1) /\ 1 \in Int /\ n - 1 \in Int /\ \A i \in 1..(n - 1) : s[i] \in S
    BY <1>1 DEF Front
  <2>2. /\ SubSeq(s, 1, n - 1) \in Seq(S)
        /\ Len(SubSeq(s, 1, n - 1)) = IF 1 <= n - 1 THEN n - 1 - 1 + 1 ELSE 0
        /\ \A i \in 1 .. n - 1 - 1 + 1 : SubSeq(s, 1, n - 1)[i] = s[1 + i - 1]
    BY <2>1, SubSeqProperties
  <2> HIDE DEF f
  <2>3. f \in Seq(S) /\ Len(f) = IF 1 <= n - 1 THEN n - 1 - 1 + 1 ELSE 0
    BY <2>1, <2>2
  <2>4. \A i \in 1..(n - 1) : i \in 1 .. n - 1 - 1 + 1 /\ 1 + i - 1 = i
    BY <1>1
  <2>5. \A i \in 1..(n - 1) : f[i] = s[i]
    BY <2>1, <2>2, <2>4
  <2>6. (IF 1 <= n - 1 THEN n - 1 - 1 + 1 ELSE 0) = n - 1
    <3>1. ASSUME NEW m \in Nat \ {0} PROVE (IF 1 <= m - 1 THEN m - 1 - 1 + 1 ELSE 0) = m - 1
      OBVIOUS
    <3> QED BY <1>1, <3>1, Zenon
  <2> QED BY <2>3, <2>5, <2>6
<1>4. /\ turned \in Seq(S) /\ Len(turned) = n
      /\ \A i \in 1..n : turned[i] = s[n - i + 1]
  BY <1>1 DEF Reverse
<1> HIDE DEF f
<1>5. /\ rest \in Seq(S) /\ Len(rest) = n - 1
      /\ \A i \in 1..(n - 1) : rest[i] = f[(n - 1) - i + 1]
  BY <1>1, <1>3 DEF Reverse
<1> HIDE DEF rest, turned, n
<1>6. /\ <<Last(s)>> \in Seq(S) /\ Len(<<Last(s)>>) = 1 /\ <<Last(s)>>[1] = s[n]
  BY <1>2
<1>7. /\ <<Last(s)>> \o rest \in Seq(S) /\ Len(<<Last(s)>> \o rest) = 1 + (n - 1)
      /\ \A i \in 1 .. 1 + (n - 1) : (<<Last(s)>> \o rest)[i] =
            IF i <= 1 THEN <<Last(s)>>[i] ELSE rest[i - 1]
  <2>1. \A u \in Seq(S), v \in Seq(S) :
           /\ u \o v \in Seq(S) /\ Len(u \o v) = Len(u) + Len(v)
           /\ \A i \in 1 .. Len(u) + Len(v) : (u \o v)[i] =
                 IF i <= Len(u) THEN u[i] ELSE v[i - Len(u)]
    BY ConcatProperties
  <2> QED BY <1>5, <1>6, <2>1
<1>8. ASSUME NEW i \in 1..n PROVE turned[i] = (<<Last(s)>> \o rest)[i]
  <2>1. CASE i = 1
    BY <1>1, <1>4, <1>6, <1>7, <2>1
  <2>2. CASE i # 1
    <3>1. i - 1 \in 1..(n - 1) /\ (n - 1) - (i - 1) + 1 = n - i + 1 /\ n - i + 1 \in 1..(n - 1)
      BY <1>1, <2>2
    <3>2. rest[i - 1] = s[n - i + 1]
      BY <1>3, <1>5, <3>1
    <3>3. (<<Last(s)>> \o rest)[i] = rest[i - 1]
      BY <1>1, <1>7, <2>2
    <3> QED BY <1>4, <3>2, <3>3
  <2> QED BY <2>1, <2>2
<1>9. turned = <<Last(s)>> \o rest
  BY <1>1, <1>4, <1>7, <1>8, SeqEqual
<1>10. f = Front(s) /\ rest = Reverse(Front(s)) /\ turned = Reverse(s)
  BY DEF f, rest, turned
<1> QED BY <1>2, <1>3, <1>4, <1>5, <1>9, <1>10, Zenon

\* The row before it in its chunk, or what division by the size of a chunk gives.
LEMMA ChunkOf ==
    ASSUME NEW k \in Nat, NEW c \in Nat \ {0}, NEW r \in 0..(c - 1)
    PROVE  (k * c + r) \div c = k /\ (k * c + r) % c = r /\ k * c \in Nat
  BY SMTT(30)

(***************************************************************************)
(* One chunk more is the next rows, turned around.                         *)
(***************************************************************************)
LEMMA ChunksGrow ==
    ASSUME NEW k \in Nat
    PROVE  /\ k * ChunkSize \in Nat /\ (k + 1) * ChunkSize = k * ChunkSize + ChunkSize
           /\ ChunksReversed(k * ChunkSize) \in Seq(Int)
           /\ ChunksReversed((k + 1) * ChunkSize)
                = ChunksReversed(k * ChunkSize)
                    \o Reverse([i \in 1..ChunkSize |-> k * ChunkSize + i])
<1> DEFINE C == ChunkSize
           n == k * C
           chunk == [i \in 1..C |-> n + i]
           row(i) == LET c == (i - 1) \div C IN (2 * c + 1) * C - i + 1
<1>1. C \in Nat \ {0} /\ n \in Nat /\ (k + 1) * C = n + C
  BY TransferAssumption
<1>2. ASSUME NEW i \in Nat \ {0} PROVE row(i) \in Int
  <2>1. i - 1 \in Nat
    OBVIOUS
  <2>2. (i - 1) \div C \in Int
    BY <1>1, <2>1
  <2> QED BY <1>1, <2>2
<1>3. ASSUME NEW j \in 1..C PROVE row(n + j) = n + C - j + 1
  <2>1. j - 1 \in 0..(C - 1) /\ n + j - 1 = n + (j - 1)
    BY <1>1
  <2>2. (n + j - 1) \div C = k
    BY <1>1, <2>1, ChunkOf
  <2>3. (2 * k + 1) * C = 2 * n + C
    BY <1>1
  <2> QED BY <1>1, <2>2, <2>3
<1>4. /\ ChunksReversed(n) = [i \in 1..n |-> row(i)]
      /\ ChunksReversed((k + 1) * C) = [i \in 1..(n + C) |-> row(i)]
  BY <1>1 DEF ChunksReversed
<1> HIDE DEF row
<1>5. /\ ChunksReversed(n) \in Seq(Int) /\ Len(ChunksReversed(n)) = n
      /\ \A i \in 1..n : ChunksReversed(n)[i] = row(i)
  BY <1>1, <1>2, <1>4
<1>6. /\ ChunksReversed((k + 1) * C) \in Seq(Int) /\ Len(ChunksReversed((k + 1) * C)) = n + C
      /\ \A i \in 1..(n + C) : ChunksReversed((k + 1) * C)[i] = row(i)
  BY <1>1, <1>2, <1>4
<1>7. /\ Reverse(chunk) \in Seq(Int) /\ Len(Reverse(chunk)) = C
      /\ \A j \in 1..C : Reverse(chunk)[j] = n + C - j + 1
  <2>1. Len(chunk) = C /\ \A i \in 1..C : chunk[i] = n + i
    BY <1>1
  <2>3. ASSUME NEW j \in 1..C PROVE chunk[(C - j) + 1] = n + C - j + 1 /\ n + C - j + 1 \in Int
    BY <1>1, <2>1
  <2> HIDE DEF chunk
  <2>2. Reverse(chunk) = [i \in 1..C |-> chunk[(C - i) + 1]]
    BY <2>1 DEF Reverse
  <2> QED BY <1>1, <2>2, <2>3
<1> HIDE DEF chunk, n, C
<1>8. /\ ChunksReversed(n) \o Reverse(chunk) \in Seq(Int)
      /\ Len(ChunksReversed(n) \o Reverse(chunk)) = n + C
      /\ \A i \in 1..(n + C) : (ChunksReversed(n) \o Reverse(chunk))[i] =
            IF i <= n THEN ChunksReversed(n)[i] ELSE Reverse(chunk)[i - n]
  <2>1. \A u \in Seq(Int), v \in Seq(Int) :
           /\ u \o v \in Seq(Int) /\ Len(u \o v) = Len(u) + Len(v)
           /\ \A i \in 1 .. Len(u) + Len(v) : (u \o v)[i] =
                 IF i <= Len(u) THEN u[i] ELSE v[i - Len(u)]
    BY ConcatProperties
  <2> DEFINE a == ChunksReversed(n)
             b == Reverse(chunk)
  <2>2. a \in Seq(Int) /\ b \in Seq(Int) /\ Len(a) = n /\ Len(b) = C
    BY <1>5, <1>7
  <2> HIDE DEF a, b
  <2>3. /\ a \o b \in Seq(Int) /\ Len(a \o b) = n + C
        /\ \A i \in 1..(n + C) : (a \o b)[i] = IF i <= n THEN a[i] ELSE b[i - n]
    BY <2>1, <2>2
  <2> QED BY <2>3 DEF a, b
<1>9. ASSUME NEW i \in 1..(n + C)
      PROVE  ChunksReversed((k + 1) * C)[i] = (ChunksReversed(n) \o Reverse(chunk))[i]
  <2>1. CASE i <= n
    <3>1. i \in 1..n
      BY <1>1, <2>1
    <3>2. ChunksReversed(n)[i] = row(i)
      BY <1>5, <3>1
    <3>3. (ChunksReversed(n) \o Reverse(chunk))[i] = ChunksReversed(n)[i]
      BY <1>8, <2>1
    <3> QED BY <1>6, <3>2, <3>3
  <2>2. CASE ~(i <= n)
    <3>1. i - n \in 1..C /\ n + (i - n) = i
      BY <1>1, <2>2
    <3>2. row(i) = n + C - (i - n) + 1
      BY <1>3, <3>1
    <3> QED BY <1>6, <1>7, <1>8, <2>2, <3>1, <3>2
  <2> QED BY <2>1, <2>2
<1>10. ChunksReversed((k + 1) * C) = ChunksReversed(n) \o Reverse(chunk)
  <2>1. n + C \in Nat
    BY <1>1
  <2> QED BY <1>6, <1>8, <1>9, <2>1, SeqEqual
<1> QED BY <1>1, <1>5, <1>10 DEF n, C, chunk

\* What a transfer is made of.
TransferRow ==
    [pc : {"none", "source", "sink", "read", "ended", "panicked", "unwritten"},
     src : HistTickSrc, dst : HistTickDst, size : Nat, rows : Seq(Nat), buffer : Seq(Nat),
     held : Seq(Nat), stored : Seq(Nat), queries : Seq(Query(Nat))]

\* Of a file k chunks are read, and what is not in the buffer was given to the closure.
FileRow(r, k, given) ==
    /\ r.size = k * ChunkSize + Len(r.rows)
    /\ r.rows = [i \in 1..Len(r.rows) |-> k * ChunkSize + i]
    /\ given \o Reverse(r.buffer) = ChunksReversed(k * ChunkSize)
    /\ IF r.pc = "unwritten" THEN WrittenFirst(1..r.size, r, given) ELSE Accounted(r, given)
    /\ r.pc # "ended"

ReadsFile(r) == \E k \in Nat : \E given \in Seq(1..r.size) : FileRow(r, k, given)

\* Before a transfer is spawned nothing of it is anywhere.
TransferSound(r) ==
    /\ r \in TransferRow /\ r.size \in RowCounts \cup {0}
    /\ r.rows \in Seq(1..r.size) /\ r.buffer \in Seq(1..r.size)
    /\ Sink(1..r.size, r)
    /\ r.pc = "none" => r = Unspawned
    /\ IF r.src = "Flatfile" THEN ReadsFile(r) ELSE r.buffer = <<>>

TransfersSound == DOMAIN transfer = Transfers /\ \A t \in Transfers : TransferSound(transfer[t])

\* A sequence of rows is one of numbers.
LEMMA RowsAreNumbers ==
    ASSUME NEW n \in Nat, NEW s \in Seq(1..n)
    PROVE  s \in Seq(Nat) /\ s \in Seq(Int)
<1>1. 1..n \subseteq Nat /\ 1..n \subseteq Int
  OBVIOUS
<1> QED BY <1>1, SeqMonotonic

\* Nothing read, nothing written.
LEMMA NoChunks == ChunksReversed(0 * ChunkSize) = <<>> /\ Reverse(<<>>) = <<>> /\ 0 * ChunkSize = 0
<1>1. 0 * ChunkSize = 0
  BY TransferAssumption
<1>2. ChunksReversed(0) = <<>>
  BY DEF ChunksReversed
<1>3. Reverse(<<>>) = <<>>
  BY DEF Reverse
<1> QED BY <1>1, <1>2, <1>3

\* Rows of a source are numbers, in a sink as well.
LEMMA SinksAreNumbers ==
    ASSUME NEW n \in Nat, NEW r, Sink(1..n, r)
    PROVE  r.held \in Seq(Nat) /\ r.stored \in Seq(Nat) /\ r.queries \in Seq(Query(Nat))
<1>1. Seq(1..n) \subseteq Seq(Nat)
  BY RowsAreNumbers
<1>2. Query(1..n) \subseteq Query(Nat)
  BY <1>1 DEF Query
<1> QED BY <1>1, <1>2, SeqMonotonic DEF Sink

\* Nothing given, nothing to account for.
LEMMA NothingGiven ==
    ASSUME NEW r, r.held = <<>>, r.stored = <<>>, r.queries = <<>>,
           {"dst", "held", "stored", "queries"} \subseteq DOMAIN r
    PROVE  Accounted(r, <<>>) /\ \A S : Sink(S, r) /\ <<>> \in Seq(S)
<1>1. Len(<<>>) = 0 /\ <<>> \o <<>> = <<>> /\ DOMAIN <<>> = {}
  OBVIOUS
<1>2. BatchSize \in Nat \ {0} /\ 0 * BatchSize = 0
  BY TransferAssumption
<1>3. SubSeq(<<>>, 1, 0) = <<>>
  BY SubSeqEmpty
<1>4. Accounted(r, <<>>)
  BY <1>1, <1>2, <1>3 DEF Accounted
<1>5. ASSUME NEW S PROVE Sink(S, r) /\ <<>> \in Seq(S)
  BY DEF Sink
<1> QED BY <1>4, <1>5

Begun(r, src, dst, n) ==
    [r EXCEPT !.pc = "source", !.src = src, !.dst = dst, !.size = n, !.rows = [i \in 1..n |-> i]]

\* A transfer begins.
LEMMA TransferBegins ==
    ASSUME NEW r, TransferSound(r), r.pc = "none",
           NEW src \in HistTickSrc, NEW dst \in HistTickDst, NEW n \in RowCounts,
           NEW q, q = Begun(r, src, dst, n)
    PROVE  TransferSound(q) /\ q.pc = "source"
<1> DEFINE rows == [i \in 1..n |-> i]
<1>1. r \in TransferRow /\ r = Unspawned
  BY DEF TransferSound
<1>2. n \in Nat
  BY TransferAssumption
<1>3. rows \in Seq(1..n) /\ Len(rows) = n /\ rows \in Seq(Nat)
  BY <1>2
<1>4. /\ q \in TransferRow /\ q.pc = "source" /\ q.src = src /\ q.dst = dst /\ q.size = n
      /\ q.rows = rows /\ q.buffer = <<>> /\ q.held = <<>> /\ q.stored = <<>>
      /\ q.queries = <<>> /\ {"dst", "held", "stored", "queries"} \subseteq DOMAIN q
  BY <1>1, <1>2, <1>3 DEF TransferRow, Begun, Unspawned
<1>5. Accounted(q, <<>>) /\ Sink(1..q.size, q) /\ <<>> \in Seq(1..q.size)
  BY <1>4, NothingGiven
<1>6. FileRow(q, 0, <<>>)
  <2>1. rows = [i \in 1..Len(rows) |-> 0 * ChunkSize + i]
    BY <1>2, <1>3, NoChunks
  <2>2. 0 * ChunkSize + Len(rows) = n
    BY <1>2, <1>3, NoChunks
  <2>3. <<>> \o Reverse(<<>>) = ChunksReversed(0 * ChunkSize)
    BY NoChunks
  <2> HIDE DEF rows
  <2> QED BY <1>4, <1>5, <2>1, <2>2, <2>3 DEF FileRow
<1> HIDE DEF rows
<1> QED BY <1>3, <1>4, <1>5, <1>6 DEF TransferSound, ReadsFile

\* A transfer opens its source or its sink, or gives up.
LEMMA TransferGoes ==
    ASSUME NEW r, TransferSound(r), NEW pc, NEW q, q = [r EXCEPT !.pc = pc],
           \/ r.pc \in {"source", "sink", "read"} /\ pc \in {"sink", "read", "panicked"}
           \/ r.pc = "read" /\ r.src = "Postgres" /\ pc = "ended"
    PROVE  TransferSound(q) /\ q.pc = pc
<1>1. /\ r \in TransferRow /\ pc \in {"sink", "panicked", "read", "ended"}
      /\ r.pc \notin {"none", "unwritten"}
  BY DEF TransferSound
<1>2. /\ q \in TransferRow /\ q.pc = pc /\ q.src = r.src /\ q.dst = r.dst /\ q.size = r.size
      /\ q.rows = r.rows /\ q.buffer = r.buffer /\ q.held = r.held /\ q.stored = r.stored
      /\ q.queries = r.queries /\ DOMAIN q = DOMAIN r
  BY <1>1 DEF TransferRow
<1>3. Sink(1..q.size, q)
  BY <1>2 DEF Sink, TransferSound
<1>4. ASSUME q.src = "Flatfile" PROVE ReadsFile(q)
  <2>1. PICK k \in Nat, given \in Seq(1..r.size) : FileRow(r, k, given)
    BY <1>2, <1>4 DEF TransferSound, ReadsFile
  <2>2. pc \notin {"ended", "unwritten"}
    BY <1>1, <1>2, <1>4
  <2>3. Accounted(q, given)
    BY <1>1, <1>2, <2>1 DEF FileRow, Accounted
  <2>4. FileRow(q, k, given)
    BY <1>2, <2>1, <2>2, <2>3 DEF FileRow
  <2> QED BY <1>2, <2>4 DEF ReadsFile
<1> QED BY <1>1, <1>2, <1>3, <1>4 DEF TransferSound

\* How long the end of a sequence is.
LEMMA RestLength ==
    ASSUME NEW a \in Nat, NEW b \in Nat, b <= a
    PROVE  (IF b + 1 <= a THEN a - (b + 1) + 1 ELSE 0) = a - b
  OBVIOUS

\* A whole chunk of the file is read.
LEMMA ChunkRead ==
    ASSUME NEW r, TransferSound(r), r.pc = "read", r.src = "Flatfile", r.buffer = <<>>,
           Len(r.rows) >= ChunkSize,
           NEW q, q = [r EXCEPT !.buffer = SubSeq(r.rows, 1, ChunkSize),
                                !.rows = SubSeq(r.rows, ChunkSize + 1, Len(r.rows))]
    PROVE  TransferSound(q) /\ q.pc = "read"
<1> DEFINE C == ChunkSize
           rows == r.rows
           chunk == SubSeq(rows, 1, C)
           rest == SubSeq(rows, C + 1, Len(rows))
<1>1. r \in TransferRow /\ rows \in Seq(1..r.size) /\ r.size \in Nat
  BY DEF TransferSound, TransferRow
<1>2. PICK k \in Nat, given \in Seq(1..r.size) : FileRow(r, k, given)
  BY DEF TransferSound, ReadsFile
<1> DEFINE n == k * C
<1>3. C \in Nat \ {0} /\ n \in Nat /\ (k + 1) * C = n + C /\ k + 1 \in Nat
  BY SMTT(30), TransferAssumption, ChunksGrow
<1>4. Len(rows) \in Nat /\ C <= Len(rows) /\ r.size = n + Len(rows)
      /\ \A i \in 1..Len(rows) : rows[i] = n + i /\ rows[i] \in 1..r.size
  BY <1>1, <1>2, LenProperties DEF FileRow
<1>0. n = k * ChunkSize /\ C = ChunkSize
  OBVIOUS
<1> HIDE DEF n, C
<1>5. /\ chunk \in Seq(1..r.size) /\ Len(chunk) = C
      /\ \A i \in 1..C : chunk[i] = n + i
  <2>0. \A i \in 1..C : i \in 1..Len(rows)
    <3>1. C \in Nat /\ Len(rows) \in Nat /\ C <= Len(rows)
      BY <1>3, <1>4
    <3> QED BY <3>1
  <2>1. 1 \in Int /\ C \in Int /\ \A i \in 1..C : rows[i] \in 1..r.size
    <3> HIDE DEF rows
    <3> QED BY <1>3, <1>4, <2>0
  <2>2. /\ chunk \in Seq(1..r.size) /\ Len(chunk) = IF 1 <= C THEN C - 1 + 1 ELSE 0
        /\ \A i \in 1 .. C - 1 + 1 : chunk[i] = rows[1 + i - 1]
    BY SMTT(30), <2>1, SubSeqProperties
  <2> HIDE DEF chunk, rows
  <2>3. Len(chunk) = C /\ C - 1 + 1 = C
    BY <1>3, <2>2
  <2>4. ASSUME NEW i \in 1..C PROVE chunk[i] = n + i
    <3>1. i \in 1 .. C - 1 + 1 /\ 1 + i - 1 = i /\ i \in 1..Len(rows)
      BY <1>3, <1>4
    <3> QED BY <1>4, <2>2, <3>1
  <2> QED BY <2>2, <2>3, <2>4
<1>6. /\ rest \in Seq(1..r.size) /\ Len(rest) = Len(rows) - C
      /\ \A i \in 1..(Len(rows) - C) : rest[i] = n + C + i
  <2>1. C + 1 \in Int /\ Len(rows) \in Int /\ \A i \in C + 1 .. Len(rows) : rows[i] \in 1..r.size
    <3>1. C \in Nat /\ Len(rows) \in Nat
      BY <1>3, <1>4
    <3>2. \A i \in C + 1 .. Len(rows) : i \in 1..Len(rows)
      BY <3>1
    <3> HIDE DEF rows
    <3> QED BY <1>4, <3>1, <3>2
  <2>2. /\ rest \in Seq(1..r.size)
        /\ Len(rest) = IF C + 1 <= Len(rows) THEN Len(rows) - (C + 1) + 1 ELSE 0
        /\ \A i \in 1 .. Len(rows) - (C + 1) + 1 : rest[i] = rows[C + 1 + i - 1]
    BY <2>1, SubSeqProperties
  <2> HIDE DEF rest, rows
  <2>3. Len(rest) = Len(rows) - C
    <3>2. C \in Nat /\ Len(rows) \in Nat /\ C <= Len(rows)
      BY <1>3, <1>4
    <3> QED BY <2>2, <3>2, RestLength
  <2>4. ASSUME NEW i \in 1..(Len(rows) - C) PROVE rest[i] = n + C + i
    <3>1. ASSUME NEW a \in Nat, NEW b \in Nat, b <= a, NEW c \in Nat, NEW j \in 1..(a - b)
          PROVE  /\ j \in 1 .. a - (b + 1) + 1 /\ b + 1 + j - 1 = b + j
                 /\ b + j \in 1..a /\ c + (b + j) = c + b + j
      OBVIOUS
    <3>2. C \in Nat /\ Len(rows) \in Nat /\ C <= Len(rows) /\ n \in Nat
      BY <1>3, <1>4
    <3>3. /\ i \in 1 .. Len(rows) - (C + 1) + 1 /\ C + 1 + i - 1 = C + i
          /\ C + i \in 1..Len(rows) /\ n + (C + i) = n + C + i
      BY <3>1, <3>2
    <3> QED BY <1>4, <2>2, <3>3
  <2> QED BY <2>2, <2>3, <2>4
<1>7. q = [r EXCEPT !.buffer = chunk, !.rows = rest]
  BY DEF C
<1> HIDE DEF chunk, rest
<1>8. chunk \in Seq(Nat) /\ rest \in Seq(Nat)
  BY <1>1, <1>5, <1>6, RowsAreNumbers
<1>9. /\ q \in TransferRow /\ q.pc = "read" /\ q.src = "Flatfile" /\ q.dst = r.dst /\ q.size = r.size
      /\ q.rows = rest /\ q.buffer = chunk /\ q.held = r.held /\ q.stored = r.stored
      /\ q.queries = r.queries /\ DOMAIN q = DOMAIN r
  BY <1>1, <1>7, <1>8 DEF TransferRow
<1>10. Sink(1..q.size, q)
  BY <1>9 DEF Sink, TransferSound
<1>11. FileRow(q, k + 1, given)
  <2>1. q.size = (k + 1) * C + Len(q.rows)
    <3>1. ASSUME NEW a \in Nat, NEW b \in Nat, NEW c \in Nat PROVE c + a = (c + b) + (a - b)
      OBVIOUS
    <3>2. C \in Nat /\ Len(rows) \in Nat /\ n \in Nat
      BY <1>3, <1>4
    <3>3. n + Len(rows) = (n + C) + (Len(rows) - C)
      BY <3>1, <3>2, Zenon
    <3>4. q.size = n + Len(rows) /\ Len(q.rows) = Len(rows) - C /\ (k + 1) * C = n + C
      BY <1>3, <1>4, <1>6, <1>9, Zenon
    <3> QED BY <3>3, <3>4, Zenon
  <2>2. q.rows = [i \in 1..Len(q.rows) |-> (k + 1) * C + i]
    <3>1. rest = [i \in 1..Len(rest) |-> rest[i]]
      BY <1>6
    <3>2. \A i \in 1..Len(rest) : rest[i] = (k + 1) * C + i
      BY <1>3, <1>6
    <3>3. [i \in 1..Len(rest) |-> rest[i]] = [i \in 1..Len(rest) |-> (k + 1) * C + i]
      BY <3>2, Zenon
    <3>4. q.rows = rest
      BY <1>9, Zenon
    <3> QED BY <3>1, <3>3, <3>4, Zenon
  <2>3. given \o Reverse(chunk) = ChunksReversed((k + 1) * C)
    <3>1. chunk = [i \in 1..C |-> n + i]
      <4>1. chunk = [i \in 1..Len(chunk) |-> chunk[i]]
        BY <1>5
      <4> QED BY <1>5, <4>1
    <3>2. given \o Reverse(<<>>) = ChunksReversed(n)
      BY <1>0, <1>2 DEF FileRow
    <3>3. given \o <<>> = given
      BY ConcatEmptySeq
    <3>4. given = ChunksReversed(n)
      BY <3>2, <3>3, NoChunks
    <3> QED BY <1>0, <3>1, <3>4, ChunksGrow
  <2>4. Accounted(q, given)
    BY <1>2, <1>9 DEF FileRow, Accounted
  <2>5. given \o Reverse(q.buffer) = ChunksReversed((k + 1) * ChunkSize)
    BY <1>0, <1>9, <2>3, Zenon
  <2>6. q.pc \notin {"unwritten", "ended"}
    BY <1>9
  <2> QED BY <1>0, <2>1, <2>2, <2>4, <2>5, <2>6, ZenonT(60) DEF FileRow
<1>12. ReadsFile(q)
  BY <1>3, <1>9, <1>11 DEF ReadsFile
<1> QED BY <1>5, <1>6, <1>9, <1>10, <1>12 DEF TransferSound

\* A tick leaves the buffer by its end and goes through the closure, which may panic.
LEMMA TickTaken ==
    ASSUME NEW r, TransferSound(r), r.pc = "read", r.buffer # <<>>,
           NEW p, p = [r EXCEPT !.buffer = Front(r.buffer)], NEW tick, tick = Last(r.buffer)
    PROVE  /\ \A q : q = RxClosure(p, tick) => TransferSound(q) /\ q.pc = "read"
           /\ \A q : \A left \in RxPanics(p, tick) :
                 q = [left EXCEPT !.pc = "unwritten"] => TransferSound(q) /\ q.pc = "unwritten"
<1> DEFINE S == 1..r.size
           front == Front(r.buffer)
<1>1. r \in TransferRow /\ r.buffer \in Seq(S) /\ r.size \in Nat /\ Sink(S, r)
  BY DEF TransferSound, TransferRow
<1>2. /\ tick \in S /\ front \in Seq(S) /\ Reverse(front) \in Seq(S)
      /\ Reverse(r.buffer) = <<tick>> \o Reverse(front)
  BY <1>1, ReverseLast
<1>3. p = [r EXCEPT !.buffer = front]
  OBVIOUS
<1> HIDE DEF front
<1>4. front \in Seq(Nat)
  BY <1>1, <1>2, RowsAreNumbers
<1>5. /\ p \in TransferRow /\ p.pc = "read" /\ p.src = r.src /\ p.dst = r.dst /\ p.size = r.size
      /\ p.rows = r.rows /\ p.buffer = front /\ p.held = r.held /\ p.stored = r.stored
      /\ p.queries = r.queries /\ DOMAIN p = DOMAIN r
  BY <1>1, <1>3, <1>4 DEF TransferRow
<1>6. Sink(S, p)
  BY <1>1, <1>5 DEF Sink
<1> HIDE DEF S
<1>7. ASSUME NEW k \in Nat, NEW given \in Seq(S), FileRow(r, k, given)
      PROVE  /\ Append(given, tick) \in Seq(S) /\ Accounted(p, given)
             /\ Append(given, tick) \o Reverse(front) = ChunksReversed(k * ChunkSize)
  <2>1. <<tick>> \in Seq(S) /\ Append(given, tick) \in Seq(S)
        /\ Append(given, tick) = given \o <<tick>>
    BY <1>2, AppendProperties, AppendIsConcat
  <2>2. \A s \in Seq(S), t \in Seq(S), u \in Seq(S) : (s \o t) \o u = s \o (t \o u)
    BY SMTT(30), ConcatAssociative
  <2>3. (given \o <<tick>>) \o Reverse(front) = given \o (<<tick>> \o Reverse(front))
    BY <1>2, <2>1, <2>2, Zenon
  <2>4. given \o Reverse(r.buffer) = ChunksReversed(k * ChunkSize)
    BY <1>7 DEF FileRow
  <2>5. Append(given, tick) \o Reverse(front) = ChunksReversed(k * ChunkSize)
    BY <1>2, <2>1, <2>3, <2>4, Zenon
  <2>6. Accounted(p, given)
    BY <1>5, <1>7 DEF FileRow, Accounted
  <2> QED BY <2>1, <2>5, <2>6
<1>8. r.src = "Flatfile"
  BY DEF TransferSound
<1>9. PICK k \in Nat, given \in Seq(S) : FileRow(r, k, given)
  BY <1>8 DEF TransferSound, ReadsFile, S
<1> DEFINE after == Append(given, tick)
<1>10. /\ after \in Seq(S) /\ Accounted(p, given)
       /\ after \o Reverse(front) = ChunksReversed(k * ChunkSize)
  BY <1>7, <1>9
<1> HIDE DEF after
<1>11. ASSUME NEW q, Sink(S, q), q = p \/ Worked(q, p), NEW pc \in {"read", "unwritten"},
              NEW s, s = [q EXCEPT !.pc = pc],
              IF pc = "unwritten" THEN WrittenFirst(S, q, after) ELSE Accounted(q, after)
       PROVE  TransferSound(s) /\ s.pc = pc
  <2>1. q.held \in Seq(Nat) /\ q.stored \in Seq(Nat) /\ q.queries \in Seq(Query(Nat))
    BY <1>1, <1>11, SinksAreNumbers DEF S
  <2>2. /\ q \in TransferRow /\ q.src = r.src /\ q.dst = r.dst /\ q.size = r.size
        /\ q.rows = r.rows /\ q.buffer = front
    <3>1. CASE q = p
      BY <1>5, <3>1
    <3>2. CASE Worked(q, p)
      <4> DEFINE h == q.held
                 w == q.stored
                 b == q.queries
      <4>1. q = [p EXCEPT !.held = h, !.stored = w, !.queries = b]
        BY <3>2 DEF Worked
      <4>2. h \in Seq(Nat) /\ w \in Seq(Nat) /\ b \in Seq(Query(Nat))
        BY <2>1
      <4> HIDE DEF h, w, b
      <4>3. q \in TransferRow
        BY <1>5, <4>1, <4>2 DEF TransferRow
      <4>4. /\ q.src = p.src /\ q.dst = p.dst /\ q.size = p.size
            /\ q.rows = p.rows /\ q.buffer = p.buffer
        BY <1>5, <4>1 DEF TransferRow
      <4> QED BY <1>5, <4>3, <4>4
    <3> QED BY <1>11, <3>1, <3>2
  <2>3. /\ s \in TransferRow /\ s.src = r.src /\ s.dst = r.dst /\ s.size = r.size
        /\ s.rows = r.rows /\ s.buffer = front /\ s.held = q.held /\ s.stored = q.stored
        /\ s.queries = q.queries /\ s.pc = pc /\ DOMAIN s = DOMAIN q
    BY <1>11, <2>2 DEF TransferRow
  <2>4. Sink(S, s)
    BY <1>11, <2>3 DEF Sink
  <2>5. s.pc = "unwritten" => WrittenFirst(S, s, after)
    BY <1>11, <2>3 DEF WrittenFirst
  <2>6. s.pc # "unwritten" => Accounted(s, after)
    BY <1>11, <2>2, <2>3 DEF Accounted
  <2>7. FileRow(s, k, after)
    BY <1>9, <1>10, <2>3, <2>5, <2>6, Zenon DEF FileRow, S
  <2>8. ReadsFile(s)
    BY <1>10, <2>3, <2>7 DEF ReadsFile, S
  <2>9. s.rows \in Seq(1..s.size) /\ s.buffer \in Seq(1..s.size) /\ s.size \in RowCounts \cup {0}
    BY <1>2, <2>3 DEF TransferSound, S
  <2> QED BY <2>3, <2>4, <2>8, <2>9 DEF TransferSound, S
<1>12. ASSUME NEW q, q = RxClosure(p, tick) PROVE TransferSound(q) /\ q.pc = "read"
  <2>1. Sink(S, q) /\ Worked(q, p) /\ Accounted(q, after)
    BY <1>2, <1>6, <1>10, <1>12, ClosureAccounts DEF after
  <2>2. q.held \in Seq(Nat) /\ q.stored \in Seq(Nat) /\ q.queries \in Seq(Query(Nat))
    BY <1>1, <2>1, SinksAreNumbers DEF S
  <2>3. q \in TransferRow /\ q.pc = "read"
    BY <1>5, <2>1, <2>2 DEF Worked, TransferRow
  <2>4. q = [q EXCEPT !.pc = "read"]
    BY <2>3 DEF TransferRow
  <2> QED BY <1>11, <2>1, <2>4
<1>13. ASSUME NEW left \in RxPanics(p, tick), NEW q, q = [left EXCEPT !.pc = "unwritten"]
       PROVE  TransferSound(q) /\ q.pc = "unwritten"
  <2>1. Sink(S, left) /\ WrittenFirst(S, left, after) /\ (left = p \/ Worked(left, p))
    BY <1>2, <1>6, <1>10, PanicWrites DEF after
  <2> QED BY <1>11, <1>13, <2>1
<1> QED BY <1>12, <1>13

\* A connection is done with a batch.
LEMMA BatchSettled ==
    ASSUME NEW r, TransferSound(r), NEW q \in Settled(r)
    PROVE  TransferSound(q) /\ q.pc = r.pc /\ r.pc # "none"
<1>1. r \in TransferRow /\ r.size \in Nat /\ Sink(1..r.size, r)
  BY DEF TransferSound, TransferRow
<1>2. /\ Sink(1..r.size, q) /\ Worked(q, r) /\ q.held = r.held /\ q.stored = r.stored
      /\ r.queries # <<>> /\ \A given : Accounted(r, given) => Accounted(q, given)
  BY <1>1, SettledAccounts
<1>3. q.queries \in Seq(Query(Nat))
  BY <1>1, <1>2, SinksAreNumbers
<1>4. /\ q \in TransferRow /\ q.pc = r.pc /\ q.src = r.src /\ q.size = r.size
      /\ q.rows = r.rows /\ q.buffer = r.buffer
  BY <1>1, <1>2, <1>3 DEF TransferRow, Worked
<1>5. r.pc # "none"
  BY <1>2 DEF TransferSound, Unspawned
<1>6. ASSUME r.src = "Flatfile" PROVE ReadsFile(q)
  <2>1. PICK k \in Nat, given \in Seq(1..r.size) : FileRow(r, k, given)
    BY <1>6 DEF TransferSound, ReadsFile
  <2>2. IF r.pc = "unwritten" THEN WrittenFirst(1..r.size, q, given) ELSE Accounted(q, given)
    BY <1>2, <2>1 DEF FileRow, WrittenFirst
  <2>3. FileRow(q, k, given)
    BY <1>4, <2>1, <2>2 DEF FileRow
  <2> QED BY <1>4, <2>3 DEF ReadsFile
<1> QED BY <1>2, <1>4, <1>5, <1>6 DEF TransferSound

\* What is turned around twice is as it was.
LEMMA ReverseTwice ==
    ASSUME NEW S, NEW s \in Seq(S)
    PROVE  /\ Reverse(s) \in Seq(S) /\ Len(Reverse(s)) = Len(s) /\ Reverse(Reverse(s)) = s
<1>1. /\ Len(s) \in Nat /\ s = [i \in 1..Len(s) |-> s[i]]
      /\ \A i \in 1..Len(s) : s[i] \in S /\ (Len(s) - i) + 1 \in 1..Len(s)
                            /\ (Len(s) - ((Len(s) - i) + 1)) + 1 = i
  BY LenProperties
<1>2. /\ Reverse(s) \in Seq(S) /\ Len(Reverse(s)) = Len(s)
      /\ \A i \in 1..Len(s) : Reverse(s)[i] = s[(Len(s) - i) + 1]
  BY <1>1 DEF Reverse
<1>3. \A i \in 1..Len(s) : Reverse(s)[(Len(s) - i) + 1] = s[i]
  BY <1>1, <1>2
<1>4. Reverse(Reverse(s)) = [i \in 1..Len(s) |-> Reverse(s)[(Len(s) - i) + 1]]
  BY <1>2 DEF Reverse
<1>5. Reverse(Reverse(s)) = [i \in 1..Len(s) |-> s[i]]
  BY <1>3, <1>4
<1> QED BY <1>1, <1>2, <1>5

(***************************************************************************)
(* What a file's transfer has given to its closure, and where it is.       *)
(***************************************************************************)
LEMMA FileRowExact ==
    ASSUME NEW r, TransferSound(r), r.src = "Flatfile", NEW taken, taken = r.size - Len(r.rows),
           NEW given, given = SubSeq(ChunksReversed(taken), 1, taken - Len(r.buffer))
    PROVE  /\ r.buffer = Reverse(SubSeq(ChunksReversed(taken), Len(given) + 1, taken))
           /\ IF r.pc = "unwritten" THEN IsPrefix(r.stored, given) ELSE Accounted(r, given)
           /\ r.pc # "ended"
<1> DEFINE S == 1..r.size
<1>1. PICK k \in Nat, gave \in Seq(S) : FileRow(r, k, gave)
  BY DEF TransferSound, ReadsFile
<1>2. /\ r.size \in Nat /\ r.buffer \in Seq(S) /\ r.stored \in Seq(S)
      /\ Len(r.buffer) \in Nat /\ Len(r.rows) \in Nat /\ Len(gave) \in Nat
  BY LenProperties DEF TransferSound, TransferRow, Sink
<1> HIDE DEF S
<1>3. taken = k * ChunkSize /\ k * ChunkSize \in Nat
  <2> DEFINE n == k * ChunkSize
  <2>1. n \in Nat /\ r.size = n + Len(r.rows)
    BY <1>1, ChunksGrow DEF FileRow
  <2> HIDE DEF n
  <2>2. taken = n
    BY <1>2, <2>1
  <2> QED BY <2>1, <2>2 DEF n
<1> DEFINE turned == Reverse(r.buffer)
<1>4. turned \in Seq(S) /\ Len(turned) = Len(r.buffer) /\ Reverse(turned) = r.buffer
  BY <1>2, ReverseTwice
<1>5. ChunksReversed(taken) = gave \o turned
  BY <1>1, <1>3 DEF FileRow
<1> HIDE DEF turned
<1>6. taken = Len(gave) + Len(r.buffer)
  <2>1. Len(ChunksReversed(taken)) = taken
    BY <1>3 DEF ChunksReversed
  <2>2. Len(gave \o turned) = Len(gave) + Len(turned)
    BY <1>4, ConcatProperties
  <2> QED BY <1>4, <1>5, <2>1, <2>2
<1>7. /\ SubSeq(gave \o turned, 1, Len(gave)) = gave
      /\ SubSeq(gave \o turned, Len(gave) + 1, Len(gave) + Len(turned)) = turned
  BY <1>4, CutApart
<1>8. given = gave
  <2>1. taken - Len(r.buffer) = Len(gave)
    BY <1>2, <1>6
  <2> QED BY <1>5, <1>7, <2>1
<1>9. SubSeq(ChunksReversed(taken), Len(given) + 1, taken) = turned
  BY <1>4, <1>5, <1>6, <1>7, <1>8
<1>10. r.pc = "unwritten" => IsPrefix(r.stored, given)
  BY <1>1, <1>2, <1>8, FirstIsPrefix DEF FileRow, S
<1>11. (r.pc # "unwritten" => Accounted(r, given)) /\ r.pc # "ended"
  BY <1>1, <1>8 DEF FileRow
<1> QED BY <1>4, <1>9, <1>10, <1>11

\* A thread that moves on keeps all transfers sound.
LEMMA TransferMoves ==
    ASSUME TransfersSound, NEW t \in Transfers, NEW q, transfer' = [transfer EXCEPT ![t] = q],
           TransferSound(q)
    PROVE  TransfersSound'
  BY DEF TransfersSound

\* The steps of a transfer that has begun, whoever began it.
LEMMA TransferRuns ==
    ASSUME TransfersSound, NEW t \in Transfers,
           TransferStep(t) \/ QuerySettles(t) \/ \E ok \in BOOLEAN : OpenSource(t, ok)
    PROVE  \E q : /\ transfer' = [transfer EXCEPT ![t] = q] /\ TransferSound(q)
                  /\ q.pc # "none" /\ transfer[t].pc # "none"
<1> DEFINE r == transfer[t]
<1>1. TransferSound(r)
  BY DEF TransfersSound
<1>2. ASSUME NEW ok \in BOOLEAN, OpenSource(t, ok)
      PROVE  \E q : /\ transfer' = [transfer EXCEPT ![t] = q] /\ TransferSound(q)
                    /\ q.pc # "none" /\ transfer[t].pc # "none"
  <2> DEFINE pc == IF ok THEN "sink" ELSE "panicked"
             q == [r EXCEPT !.pc = pc]
  <2>1. r.pc = "source" /\ transfer' = [transfer EXCEPT ![t] = q] /\ pc \in {"sink", "panicked"}
    BY <1>2 DEF OpenSource
  <2>2. TransferSound(q) /\ q.pc = pc
    BY <1>1, <2>1, TransferGoes
  <2> QED BY <2>1, <2>2
<1>3. CASE OpenSink(t)
  <2>1. PICK ok \in BOOLEAN :
           transfer' = [transfer EXCEPT ![t].pc = IF ok THEN "read" ELSE "panicked"]
    BY <1>3 DEF OpenSink
  <2> DEFINE pc == IF ok THEN "read" ELSE "panicked"
             q == [r EXCEPT !.pc = pc]
  <2>2. r.pc = "sink" /\ transfer' = [transfer EXCEPT ![t] = q] /\ pc \in {"read", "panicked"}
    BY <1>3, <2>1 DEF OpenSink
  <2>3. TransferSound(q) /\ q.pc = pc
    BY <1>1, <2>2, TransferGoes
  <2> QED BY <2>2, <2>3
<1>4. CASE PopulateFromFile(t)
  <2>1. r.pc = "read" /\ r.buffer = <<>> /\ r.src = "Flatfile"
    BY <1>4 DEF PopulateFromFile
  <2>2. CASE Len(r.rows) >= ChunkSize
    <3> DEFINE q == [r EXCEPT !.buffer = SubSeq(r.rows, 1, ChunkSize),
                              !.rows = SubSeq(r.rows, ChunkSize + 1, Len(r.rows))]
    <3>1. transfer' = [transfer EXCEPT ![t] = q]
      BY <1>4, <2>2 DEF PopulateFromFile
    <3>2. TransferSound(q) /\ q.pc = "read"
      BY <1>1, <2>1, <2>2, ChunkRead
    <3> QED BY <2>1, <3>1, <3>2
  <2>3. CASE ~(Len(r.rows) >= ChunkSize)
    <3> DEFINE q == [r EXCEPT !.pc = "panicked"]
    <3>1. transfer' = [transfer EXCEPT ![t] = q]
      BY <1>4, <2>3 DEF PopulateFromFile
    <3>2. Len(r.rows) < ChunkSize
      <4>1. Len(r.rows) \in Nat /\ ChunkSize \in Nat
        BY <1>1, TransferAssumption, LenProperties DEF TransferSound
      <4> QED BY <2>3, <4>1
    <3>3. TransferSound(q) /\ q.pc = "panicked"
      BY <1>1, <2>1, <3>2, TransferGoes
    <3> QED BY <2>1, <3>1, <3>3
  <2> QED BY <2>2, <2>3
<1>5. CASE PopulateFromTable(t)
  <2>1. PICK answered \in BOOLEAN :
           transfer' = [transfer EXCEPT ![t].pc =
                           IF answered /\ transfer[t].rows # <<>> THEN "panicked" ELSE "ended"]
    BY <1>5 DEF PopulateFromTable
  <2> DEFINE pc == IF answered /\ r.rows # <<>> THEN "panicked" ELSE "ended"
             q == [r EXCEPT !.pc = pc]
  <2>2. /\ r.pc = "read" /\ r.src = "Postgres" /\ transfer' = [transfer EXCEPT ![t] = q]
        /\ pc \in {"ended", "panicked"}
    BY <1>5, <2>1 DEF PopulateFromTable
  <2>3. TransferSound(q) /\ q.pc = pc
    BY <1>1, <2>2, TransferGoes
  <2> QED BY <2>2, <2>3
<1>6. CASE NextHistTick(t)
  <2> DEFINE p == [r EXCEPT !.buffer = Front(r.buffer)]
             tick == Last(r.buffer)
             q == RxClosure(p, tick)
  <2>1. /\ r.pc = "read" /\ r.buffer # <<>>
        /\ \/ transfer' = [transfer EXCEPT ![t] = q]
           \/ \E left \in RxPanics(p, tick) :
                 transfer' = [transfer EXCEPT ![t] = [left EXCEPT !.pc = "unwritten"]]
    BY <1>6 DEF NextHistTick
  <2> HIDE DEF r
  <2>2. TransferSound(q) /\ q.pc = "read"
    BY <1>1, <2>1, TickTaken
  <2>3. ASSUME NEW left \in RxPanics(p, tick)
        PROVE  /\ TransferSound([left EXCEPT !.pc = "unwritten"])
               /\ [left EXCEPT !.pc = "unwritten"].pc = "unwritten"
    BY <1>1, <2>1, <2>3, TickTaken
  <2> HIDE DEF q, p, tick
  <2>4. CASE transfer' = [transfer EXCEPT ![t] = q]
    BY <2>1, <2>2, <2>4 DEF r
  <2>5. ASSUME NEW left \in RxPanics(p, tick),
               transfer' = [transfer EXCEPT ![t] = [left EXCEPT !.pc = "unwritten"]]
        PROVE  \E s : /\ transfer' = [transfer EXCEPT ![t] = s] /\ TransferSound(s)
                      /\ s.pc # "none" /\ transfer[t].pc # "none"
    <3> DEFINE s == [left EXCEPT !.pc = "unwritten"]
    <3>1. TransferSound(s) /\ s.pc = "unwritten" /\ transfer' = [transfer EXCEPT ![t] = s]
      BY <2>3, <2>5
    <3> HIDE DEF s
    <3> QED BY <2>1, <3>1 DEF r
  <2> QED BY <2>1, <2>4, <2>5
<1>7. CASE QuerySettles(t)
  <2>1. PICK q \in Settled(r) : transfer' = [transfer EXCEPT ![t] = q]
    BY <1>7 DEF QuerySettles
  <2>2. TransferSound(q) /\ q.pc = r.pc /\ r.pc # "none"
    BY <1>1, BatchSettled
  <2> QED BY <2>1, <2>2
<1> QED BY <1>2, <1>3, <1>4, <1>5, <1>6, <1>7 DEF TransferStep

-----------------------------------------------------------------------------
(* Weekly downloads *)

\* The weeks from a up to b, which is not one of them.
Span(a, b) == {w \in Weeks : ~Later(a, w) /\ Later(b, w)}

\* The weeks a download has started a transfer for.
StartedBy(f, d) == {w \in Weeks : <<d, w>> \in Transfers /\ f[<<d, w>>].pc # "none"}

DownloadRow ==
    [pc : {"none", "fetch", "transfer", "finish", "ended", "panicked"},
     first : Weeks, start : Weeks, cur : Weeks, saved : SUBSET Weeks, dst : HistTickDst]

\* What a download has saved, and what of it is on its way.
DownloadSound(r, d, f) ==
    /\ r \in DownloadRow
    /\ r.saved = Span(r.first, r.cur) /\ ~Later(r.first, r.cur)
    /\ r.pc = "none" => r.saved = {}
    /\ r.pc # "none" => \A w \in r.saved \cup {r.cur} : <<d, w>> \in Transfers
    /\ r.pc \in {"none", "fetch"} => StartedBy(f, d) = {} /\ r.start = r.first
    /\ r.pc = "transfer" =>
          /\ StartedBy(f, d) = Span(r.first, r.start)
          /\ ~Later(r.first, r.start) /\ ~Later(r.start, r.cur)
    /\ r.pc = "finish" => StartedBy(f, d) = r.saved \cup {r.cur}

FlatInv ==
    /\ TransfersSound
    /\ lastWeek \in LastWeeks /\ poisoned \in BOOLEAN
    /\ loop \in {"listening", "killed", "exited"}
    /\ DOMAIN download = Archives
    /\ \A d \in Archives : DownloadSound(download[d], d, transfer)

(***************************************************************************)
(* The next week follows at once, at the turn of the year as within it.    *)
(***************************************************************************)
LEMMA NextWeekFollows ==
    ASSUME NEW w \in Weeks
    PROVE  /\ NextWeek(w) \in Weeks
           /\ \A v \in Weeks : Later(NextWeek(w), v) <=> Later(w, v) \/ v = w
           /\ \A v \in Weeks : Later(v, w) => ~Later(NextWeek(w), v)
<1>1. /\ w = <<w[1], w[2]>> /\ w[1] \in Nat /\ w[2] \in 1..WeeksPerYear
      /\ WeeksPerYear \in Nat \ {0}
  BY ArchiveAssumption DEF Weeks
<1>2. NextWeek(w) \in Weeks
  BY <1>1 DEF NextWeek, Weeks
<1>3. ASSUME NEW v \in Weeks
      PROVE  /\ Later(NextWeek(w), v) <=> Later(w, v) \/ v = w
             /\ Later(v, w) => ~Later(NextWeek(w), v)
  <2>1. v = <<v[1], v[2]>> /\ v[1] \in Nat /\ v[2] \in 1..WeeksPerYear
    BY DEF Weeks
  <2>2. v = w <=> v[1] = w[1] /\ v[2] = w[2]
    BY <1>1, <2>1
  <2>3. CASE w[2] < WeeksPerYear
    <3>1. NextWeek(w)[1] = w[1] /\ NextWeek(w)[2] = w[2] + 1
      BY <2>3 DEF NextWeek
    <3> QED BY <1>1, <2>1, <2>2, <2>3, <3>1 DEF Later
  <2>4. CASE ~(w[2] < WeeksPerYear)
    <3>1. NextWeek(w)[1] = w[1] + 1 /\ NextWeek(w)[2] = 1
      BY <2>4 DEF NextWeek
    <3> QED BY <1>1, <2>1, <2>2, <2>4, <3>1 DEF Later
  <2> QED BY <2>3, <2>4
<1> QED BY <1>2, <1>3

\* Weeks are in a line.
LEMMA WeeksInLine ==
    ASSUME NEW a \in Weeks, NEW b \in Weeks
    PROVE  /\ ~Later(a, a) /\ Span(a, a) = {}
           /\ ~Later(a, b) => a = b \/ Later(b, a)
           /\ Later(a, b) => ~Later(b, a)
<1>1. \A v \in Weeks : v = <<v[1], v[2]>> /\ v[1] \in Nat /\ v[2] \in Nat
  BY ArchiveAssumption DEF Weeks
<1>2. a = b <=> a[1] = b[1] /\ a[2] = b[2]
  BY <1>1
<1> QED BY <1>1, <1>2 DEF Later, Span

\* One week more in a span.
LEMMA SpanGrows ==
    ASSUME NEW a \in Weeks, NEW b \in Weeks, ~Later(a, b)
    PROVE  Span(a, NextWeek(b)) = Span(a, b) \cup {b} /\ ~Later(a, NextWeek(b))
<1>1. \A w \in Weeks : Later(NextWeek(b), w) <=> Later(b, w) \/ w = b
  BY NextWeekFollows
<1>2. Later(NextWeek(b), a)
  BY <1>1, WeeksInLine
<1>3. ~Later(a, NextWeek(b))
  BY <1>2, NextWeekFollows, WeeksInLine
<1> QED BY <1>1, <1>3 DEF Span

\* A download's own threads are its own.
LEMMA OthersStarted ==
    ASSUME DOMAIN transfer = Transfers, NEW t, NEW q, transfer' = [transfer EXCEPT ![t] = q],
           NEW d \in Archives,
           \A w \in Weeks : t # <<d, w>> \/ (transfer[t].pc # "none" /\ q.pc # "none")
    PROVE  StartedBy(transfer', d) = StartedBy(transfer, d)
<1>1. ASSUME NEW w \in Weeks, <<d, w>> \in Transfers
      PROVE  transfer'[<<d, w>>].pc # "none" <=> transfer[<<d, w>>].pc # "none"
  BY <1>1
<1> QED BY <1>1 DEF StartedBy

\* A download that moves on while the transfers stay as they are.
LEMMA DownloadMoves ==
    ASSUME FlatInv, NEW d \in Archives, NEW q, download' = [download EXCEPT ![d] = q],
           DownloadSound(q, d, transfer), UNCHANGED <<transfer, lastWeek, loop>>,
           poisoned' \in BOOLEAN
    PROVE  FlatInv'
<1>1. TransfersSound'
  BY DEF FlatInv, TransfersSound
<1>2. ASSUME NEW e \in Archives PROVE DownloadSound(download'[e], e, transfer')
  BY DEF FlatInv
<1> QED BY <1>1, <1>2 DEF FlatInv

\* The thread of a week is none that was asked for by command.
LEMMA WeeksThread ==
    ASSUME NEW d \in Archives, NEW w \in Weeks, <<d, w>> \in Transfers
    PROVE  <<d, w>> \in Transfers \ Requests /\ <<d, w>>[1] = d /\ <<d, w>>[2] = w
  BY ArchiveAssumption

\* DownloadTicks spawns a thread.
LEMMA DownloadBegins ==
    ASSUME FlatInv, NEW d \in Archives, NEW w \in StartWeeks, NEW dst \in Destinations,
           DownloadTicks(d, w, dst)
    PROVE  FlatInv'
<1> DEFINE r == download[d]
           q == [r EXCEPT !.pc = "fetch", !.first = w, !.start = w, !.cur = w, !.dst = dst]
<1>1. DownloadSound(r, d, transfer) /\ r.pc = "none" /\ r \in DownloadRow /\ r.saved = {}
  BY DEF FlatInv, DownloadTicks, DownloadSound
<1>2. download' = [download EXCEPT ![d] = q] /\ UNCHANGED <<transfer, lastWeek, poisoned, loop>>
  BY DEF DownloadTicks
<1>3. w \in Weeks /\ <<d, w>> \in Transfers /\ dst \in HistTickDst
  BY ArchiveAssumption, TransferAssumption
<1>4. /\ q \in DownloadRow /\ q.pc = "fetch" /\ q.first = w /\ q.start = w /\ q.cur = w
      /\ q.saved = {}
  BY <1>1, <1>3 DEF DownloadRow
<1>5. Span(w, w) = {} /\ ~Later(w, w)
  BY <1>3, WeeksInLine
<1>6. StartedBy(transfer, d) = {}
  BY <1>1 DEF DownloadSound
<1> HIDE DEF q
<1>7. DownloadSound(q, d, transfer)
  BY <1>3, <1>4, <1>5, <1>6 DEF DownloadSound
<1> QED BY <1>2, <1>7, DownloadMoves DEF FlatInv

\* A download that ends changes nothing else.
LEMMA DownloadEnds ==
    ASSUME NEW r, NEW d, NEW f, DownloadSound(r, d, f), r.pc # "none",
           NEW pc \in {"ended", "panicked"}, NEW q, q = [r EXCEPT !.pc = pc]
    PROVE  DownloadSound(q, d, f)
<1>1. r \in DownloadRow
  BY DEF DownloadSound
<1>2. /\ q \in DownloadRow /\ q.pc = pc /\ q.first = r.first /\ q.cur = r.cur
      /\ q.saved = r.saved
  BY <1>1 DEF DownloadRow
<1> QED BY <1>2 DEF DownloadSound

\* One week more, or the end of them.
LEMMA DownloadFetches ==
    ASSUME FlatInv, NEW d \in Archives, Fetch(d)
    PROVE  FlatInv'
<1> DEFINE r == download[d]
<1>1. DownloadSound(r, d, transfer) /\ r.pc = "fetch" /\ r \in DownloadRow
  BY DEF FlatInv, DownloadSound, Fetch, FetchWeek, FetchMissing, FetchFails
<1>2. /\ r.first \in Weeks /\ r.cur \in Weeks /\ r.saved \subseteq Weeks
      /\ r.saved = Span(r.first, r.cur) /\ ~Later(r.first, r.cur)
      /\ StartedBy(transfer, d) = {} /\ r.start = r.first
      /\ \A w \in r.saved \cup {r.cur} : <<d, w>> \in Transfers
  BY <1>1 DEF DownloadSound, DownloadRow
<1>3. CASE FetchWeek(d)
  <2> DEFINE next == NextWeek(r.cur)
             pc == IF poisoned THEN "panicked" ELSE "fetch"
             q == [r EXCEPT !.saved = r.saved \cup {r.cur}, !.cur = next, !.pc = pc]
  <2>1. /\ download' = [download EXCEPT ![d] = q] /\ UNCHANGED <<transfer, lastWeek, poisoned, loop>>
        /\ ~Later(r.cur, lastWeek)
    BY <1>3 DEF FetchWeek
  <2>2. /\ next \in Weeks /\ Span(r.first, next) = r.saved \cup {r.cur}
        /\ ~Later(r.first, next)
    BY <1>2, NextWeekFollows, SpanGrows
  <2>3. <<d, next>> \in Transfers
    <3> DEFINE t == <<d, r.cur>>
               w == r.cur
    <3>1. t \in Transfers \ Requests /\ t[1] = d /\ t[2] = w
      BY <1>2, WeeksThread
    <3>2. lastWeek \in LastWeeks
      BY DEF FlatInv
    <3>3. \/ w[2] < WeeksPerYear /\ <<d, <<w[1], w[2] + 1>>>> \in Transfers
          \/ w[2] = WeeksPerYear /\ <<d, <<w[1] + 1, 1>>>> \in Transfers
      BY <2>1, <3>1, <3>2, ArchiveAssumption
    <3>4. WeeksPerYear \in Nat /\ w[2] \in Nat
      BY <1>2, ArchiveAssumption DEF Weeks
    <3> QED BY <3>3, <3>4 DEF NextWeek
  <2>4. pc \in {"panicked", "fetch"}
    OBVIOUS
  <2> HIDE DEF next, pc
  <2>5. /\ q \in DownloadRow /\ q.pc = pc /\ q.first = r.first /\ q.start = r.start /\ q.cur = next
        /\ q.saved = r.saved \cup {r.cur}
    BY <1>1, <1>2, <2>2, <2>4 DEF DownloadRow
  <2> HIDE DEF q
  <2>6. DownloadSound(q, d, transfer)
    BY <1>2, <2>2, <2>3, <2>4, <2>5 DEF DownloadSound
  <2> QED BY <2>1, <2>6, DownloadMoves DEF FlatInv
<1>4. CASE FetchMissing(d)
  <2> DEFINE q == [r EXCEPT !.pc = "transfer"]
  <2>1. download' = [download EXCEPT ![d] = q] /\ UNCHANGED <<transfer, lastWeek, poisoned, loop>>
    BY <1>4 DEF FetchMissing
  <2>2. /\ q \in DownloadRow /\ q.pc = "transfer" /\ q.first = r.first /\ q.start = r.start
        /\ q.cur = r.cur /\ q.saved = r.saved
    BY <1>1 DEF DownloadRow
  <2>3. Span(r.first, r.first) = {} /\ ~Later(r.first, r.first)
    BY <1>2, WeeksInLine
  <2> HIDE DEF q
  <2>4. DownloadSound(q, d, transfer)
    BY <1>2, <2>2, <2>3 DEF DownloadSound
  <2> QED BY <2>1, <2>4, DownloadMoves DEF FlatInv
<1>5. CASE FetchFails(d)
  <2>1. PICK how \in {"ended", "panicked"} : download' = [download EXCEPT ![d].pc = how]
    BY <1>5 DEF FetchFails
  <2> DEFINE q == [r EXCEPT !.pc = how]
  <2>2. download' = [download EXCEPT ![d] = q] /\ UNCHANGED <<transfer, lastWeek, poisoned, loop>>
    BY <1>5, <2>1 DEF FetchFails
  <2>3. DownloadSound(q, d, transfer)
    BY <1>1, DownloadEnds
  <2> QED BY <2>2, <2>3, DownloadMoves DEF FlatInv
<1> QED BY <1>3, <1>4, <1>5 DEF Fetch

\* The expect at the end of a download.
LEMMA DownloadFinishes ==
    ASSUME FlatInv, NEW d \in Archives, FinishDownload(d)
    PROVE  FlatInv'
<1> DEFINE r == download[d]
           q == [r EXCEPT !.pc = "panicked"]
<1>1. DownloadSound(r, d, transfer) /\ r.pc = "finish"
  BY DEF FlatInv, FinishDownload
<1>2. /\ download' = [download EXCEPT ![d] = q] /\ UNCHANGED <<transfer, lastWeek, loop>>
      /\ poisoned' = TRUE
  BY DEF FinishDownload
<1>3. DownloadSound(q, d, transfer)
  BY <1>1, DownloadEnds
<1> QED BY <1>2, <1>3, DownloadMoves

(***************************************************************************)
(* A transfer is started for the week that is next, and for no other.      *)
(***************************************************************************)
LEMMA DownloadTransfers ==
    ASSUME FlatInv, NEW d \in Archives, NEW n \in RowCounts, TransferWeek(d, n)
    PROVE  FlatInv'
<1> DEFINE r == download[d]
           w == r.start
           t == <<d, w>>
           was == transfer[t]
           is == Begun(was, "Flatfile", r.dst, n)
           q == IF w = r.cur THEN [r EXCEPT !.pc = "finish"] ELSE [r EXCEPT !.start = NextWeek(w)]
<1>1. DownloadSound(r, d, transfer) /\ r.pc = "transfer" /\ r \in DownloadRow
  BY DEF FlatInv, DownloadSound, TransferWeek
<1>2. /\ r.first \in Weeks /\ r.cur \in Weeks /\ w \in Weeks /\ r.dst \in HistTickDst
      /\ r.saved = Span(r.first, r.cur) /\ ~Later(r.first, r.cur)
      /\ StartedBy(transfer, d) = Span(r.first, w) /\ ~Later(r.first, w) /\ ~Later(w, r.cur)
      /\ \A v \in r.saved \cup {r.cur} : <<d, v>> \in Transfers
  BY <1>1 DEF DownloadSound, DownloadRow
<1>3. /\ download' = [download EXCEPT ![d] = q] /\ UNCHANGED <<lastWeek, poisoned, loop>>
      /\ transfer' = [transfer EXCEPT ![t] = is] /\ was.pc = "none"
  BY DEF TransferWeek, TransferData, Begun
<1>4. w \in r.saved \cup {r.cur} /\ t \in Transfers
  <2>1. w = r.cur \/ Later(r.cur, w)
    BY <1>2, WeeksInLine
  <2>2. w \in r.saved \cup {r.cur}
    BY <1>2, <2>1 DEF Span
  <2> QED BY <1>2, <2>2
<1> HIDE DEF is, q
<1>5. TransferSound(is) /\ is.pc = "source"
  <2>1. TransferSound(was) /\ "Flatfile" \in HistTickSrc
    BY <1>4 DEF FlatInv, TransfersSound, HistTickSrc
  <2>2. is = Begun(was, "Flatfile", r.dst, n)
    BY DEF is
  <2>3. r.dst \in HistTickDst /\ was.pc = "none"
    BY <1>2, <1>3
  <2> HIDE DEF r, was
  <2> QED BY <2>1, <2>2, <2>3, TransferBegins
<1>6. TransfersSound'
  BY <1>3, <1>4, <1>5, TransferMoves DEF FlatInv
<1>7. StartedBy(transfer', d) = StartedBy(transfer, d) \cup {w}
  <2>1. DOMAIN transfer = Transfers
    BY DEF FlatInv, TransfersSound
  <2>2. ASSUME NEW v \in Weeks, <<d, v>> \in Transfers
        PROVE  transfer'[<<d, v>>].pc # "none" <=> transfer[<<d, v>>].pc # "none" \/ v = w
    <3>1. CASE v = w
      BY <1>3, <1>4, <1>5, <2>1, <3>1
    <3>2. CASE v # w
      <4>1. <<d, v>> # t
        BY <3>2
      <4> QED BY <1>3, <2>1, <2>2, <3>2, <4>1
    <3> QED BY <3>1, <3>2
  <2> QED BY <1>2, <1>4, <2>2 DEF StartedBy
<1>8. ASSUME NEW e \in Archives, e # d
      PROVE  StartedBy(transfer', e) = StartedBy(transfer, e)
  <2>1. \A v \in Weeks : t # <<e, v>>
    BY <1>8
  <2> HIDE DEF t
  <2> QED BY <1>3, <2>1, OthersStarted DEF FlatInv, TransfersSound
<1>9. DownloadSound(q, d, transfer')
  <2>1. CASE w = r.cur
    <3>1. q = [r EXCEPT !.pc = "finish"]
      BY <2>1 DEF q
    <3>2. /\ q \in DownloadRow /\ q.pc = "finish" /\ q.first = r.first /\ q.cur = r.cur
          /\ q.saved = r.saved
      BY <1>1, <3>1 DEF DownloadRow
    <3> QED BY <1>2, <1>7, <2>1, <3>2 DEF DownloadSound
  <2>2. CASE w # r.cur
    <3>1. q = [r EXCEPT !.start = NextWeek(w)]
      BY <2>2 DEF q
    <3>2. NextWeek(w) \in Weeks /\ Span(r.first, NextWeek(w)) = Span(r.first, w) \cup {w}
          /\ ~Later(r.first, NextWeek(w))
      BY <1>2, NextWeekFollows, SpanGrows
    <3>3. ~Later(NextWeek(w), r.cur)
      BY <1>2, <2>2, NextWeekFollows
    <3>4. /\ q \in DownloadRow /\ q.pc = "transfer" /\ q.first = r.first /\ q.cur = r.cur
          /\ q.saved = r.saved /\ q.start = NextWeek(w)
      BY <1>1, <3>1, <3>2 DEF DownloadRow
    <3> QED BY <1>2, <1>7, <3>2, <3>3, <3>4 DEF DownloadSound
  <2> QED BY <2>1, <2>2
<1>10. ASSUME NEW e \in Archives PROVE DownloadSound(download'[e], e, transfer')
  <2>1. CASE e = d
    BY <1>3, <1>9, <2>1 DEF FlatInv
  <2>2. CASE e # d
    <3>1. download'[e] = download[e] /\ DownloadSound(download[e], e, transfer)
      BY <1>3, <2>2 DEF FlatInv
    <3>2. StartedBy(transfer', e) = StartedBy(transfer, e)
      BY <1>8, <2>2
    <3> QED BY <3>1, <3>2 DEF DownloadSound
  <2> QED BY <2>1, <2>2
<1> QED BY <1>3, <1>6, <1>10 DEF FlatInv

\* A transfer that starts by command or moves on leaves the downloads' alone.
LEMMA TransferApart ==
    ASSUME FlatInv, NEW t \in Transfers, NEW q, transfer' = [transfer EXCEPT ![t] = q],
           TransferSound(q), UNCHANGED <<lastWeek, download, poisoned, loop>>,
           t \in Requests \/ (transfer[t].pc # "none" /\ q.pc # "none")
    PROVE  FlatInv'
<1>1. TransfersSound'
  BY TransferMoves DEF FlatInv
<1>2. ASSUME NEW e \in Archives PROVE DownloadSound(download'[e], e, transfer')
  <2>1. \A w \in Weeks : t # <<e, w>> \/ (transfer[t].pc # "none" /\ q.pc # "none")
    BY ArchiveAssumption
  <2>2. StartedBy(transfer', e) = StartedBy(transfer, e)
    BY <2>1, OthersStarted DEF FlatInv, TransfersSound
  <2>3. download'[e] = download[e] /\ DownloadSound(download[e], e, transfer)
    BY DEF FlatInv
  <2> QED BY <2>2, <2>3 DEF DownloadSound
<1> QED BY <1>1, <1>2 DEF FlatInv

(***************************************************************************)
(* Every step keeps the weeks and the rows where they belong.              *)
(***************************************************************************)
THEOREM FlatInvariant == FlatSpec => []FlatInv
<1>1. FlatInit => FlatInv
  <2> SUFFICES ASSUME FlatInit PROVE FlatInv
    OBVIOUS
  <2>1. ASSUME NEW t \in Transfers PROVE TransferSound(transfer[t])
    <3> DEFINE r == transfer[t]
    <3>1. r = Unspawned
      BY DEF FlatInit, TransferInit
    <3>2. /\ r \in TransferRow /\ r.size = 0 /\ r.rows = <<>> /\ r.buffer = <<>> /\ r.held = <<>>
          /\ r.stored = <<>> /\ r.queries = <<>> /\ r.pc = "none"
          /\ {"dst", "held", "stored", "queries"} \subseteq DOMAIN r
      BY <3>1 DEF Unspawned, TransferRow, HistTickSrc, HistTickDst
    <3> HIDE DEF r
    <3>3. <<>> \in Seq(1..0) /\ Len(<<>>) = 0
      OBVIOUS
    <3>4. Accounted(r, <<>>) /\ Sink(1..r.size, r)
      BY <3>2, NothingGiven
    <3>5. FileRow(r, 0, <<>>)
      <4>1. <<>> = [i \in 1..Len(<<>>) |-> 0 * ChunkSize + i]
        BY <3>3
      <4>2. 0 * ChunkSize + 0 = 0 /\ <<>> \o <<>> = <<>>
        BY NoChunks
      <4> QED BY <3>2, <3>3, <3>4, <4>1, <4>2, NoChunks DEF FileRow
    <3>6. ReadsFile(r)
      BY <3>2, <3>3, <3>5 DEF ReadsFile
    <3>7. r.rows \in Seq(1..r.size) /\ r.buffer \in Seq(1..r.size)
      BY <3>2, <3>3
    <3>8. TransferSound(r)
      BY <3>1, <3>2, <3>4, <3>6, <3>7 DEF TransferSound
    <3> QED BY <3>8 DEF r
  <2>2. ASSUME NEW d \in Archives PROVE DownloadSound(download[d], d, transfer)
    <3> DEFINE r == download[d]
               a == <<0, 1>>
    <3>1. a \in Weeks
      BY ArchiveAssumption DEF Weeks
    <3>2. StartedBy(transfer, d) = {}
      BY DEF FlatInit, TransferInit, Unspawned, StartedBy
    <3>3. /\ r \in DownloadRow /\ r.pc = "none" /\ r.first = a /\ r.start = a /\ r.cur = a
          /\ r.saved = {}
      BY <3>1 DEF FlatInit, DownloadRow, HistTickDst
    <3>4. Span(a, a) = {} /\ ~Later(a, a)
      BY <3>1, WeeksInLine
    <3> QED BY <3>2, <3>3, <3>4 DEF DownloadSound
  <2> QED BY <2>1, <2>2 DEF FlatInv, FlatInit, TransferInit, TransfersSound
<1>2. FlatInv /\ [FlatNext]_flatVars => FlatInv'
  <2> SUFFICES ASSUME FlatInv, [FlatNext]_flatVars PROVE FlatInv'
    OBVIOUS
  <2>1. CASE UNCHANGED flatVars
    BY <2>1 DEF FlatInv, flatVars, TransfersSound
  <2>2. ASSUME NEW d \in Archives, NEW w \in StartWeeks, NEW dst \in Destinations,
               DownloadTicks(d, w, dst)
        PROVE  FlatInv'
    BY <2>2, DownloadBegins
  <2>3. ASSUME NEW d \in Archives, DownloadStep(d) PROVE FlatInv'
    BY <2>3, DownloadFetches, DownloadTransfers, DownloadFinishes DEF DownloadStep
  <2>4. ASSUME NEW t \in Requests, NEW src \in HistTickSrc, NEW dst \in Destinations,
               NEW n \in RowCounts, TransferHistData(t, src, dst, n)
        PROVE  FlatInv'
    <3> DEFINE r == transfer[t]
               q == Begun(r, src, dst, n)
    <3>1. /\ r.pc = "none" /\ transfer' = [transfer EXCEPT ![t] = q]
          /\ UNCHANGED <<lastWeek, download, poisoned, loop>>
      BY <2>4 DEF TransferHistData, TransferData, Begun
    <3>2. t \in Transfers /\ dst \in HistTickDst
      BY ArchiveAssumption, TransferAssumption
    <3>3. TransferSound(r)
      BY <3>2 DEF FlatInv, TransfersSound
    <3>4. TransferSound(q)
      BY <3>1, <3>2, <3>3, TransferBegins
    <3> HIDE DEF q
    <3> QED BY <3>1, <3>2, <3>4, TransferApart
  <2>5. ASSUME NEW t \in Transfers, OpenTransferSource(t) \/ RunTransfer(t) \/ BatchSettles(t)
        PROVE  FlatInv'
    <3>1. /\ TransferStep(t) \/ QuerySettles(t) \/ \E ok \in BOOLEAN : OpenSource(t, ok)
          /\ UNCHANGED <<lastWeek, download, poisoned, loop>>
      BY <2>5 DEF OpenTransferSource, RunTransfer, BatchSettles, HasFile
    <3>2. PICK q : /\ transfer' = [transfer EXCEPT ![t] = q] /\ TransferSound(q)
                   /\ q.pc # "none" /\ transfer[t].pc # "none"
      BY <3>1, TransferRuns DEF FlatInv
    <3> QED BY <3>1, <3>2, TransferApart
  <2>6. CASE ListRunning \/ KillDownloader
    <3>1. /\ UNCHANGED <<transfer, lastWeek, download, poisoned>>
          /\ loop' \in {"listening", "killed", "exited"}
      BY <2>6 DEF ListRunning, KillDownloader
    <3>2. TransfersSound'
      BY <3>1 DEF FlatInv, TransfersSound
    <3> QED BY <3>1, <3>2 DEF FlatInv
  <2> QED BY <2>1, <2>2, <2>3, <2>4, <2>5, <2>6 DEF FlatNext
<1> QED BY <1>1, <1>2, PTL DEF FlatSpec

(***************************************************************************)
(* Every week that was saved is on its way, with the one the server did    *)
(* not have and no other; and what a file's transfer has read goes to its  *)
(* sink in order, back to front by chunks, up to the write that fails.     *)
(***************************************************************************)
THEOREM DownloadsExact == FlatSpec => []DownloadsSound
<1>1. FlatInv => DownloadsSound
  <2> SUFFICES ASSUME FlatInv PROVE DownloadsSound
    OBVIOUS
  <2>1. ASSUME NEW t \in Transfers PROVE TransferSound(transfer[t])
    BY DEF FlatInv, TransfersSound
  <2>2. ASSUME NEW d \in Archives PROVE DownloadSound(download[d], d, transfer)
    BY DEF FlatInv
  <2>3. TransferTypeOK
    <3>1. ASSUME NEW t \in Transfers, NEW k \in DOMAIN transfer[t].queries
          PROVE  /\ transfer[t].queries[k].rows \in Seq(1..transfer[t].size)
                 /\ transfer[t].queries[k].fate \in Fates
      <4>1. transfer[t].queries \in Seq(Query(1..transfer[t].size))
        BY <2>1 DEF TransferSound, Sink
      <4>2. transfer[t].queries[k] \in Query(1..transfer[t].size)
        BY <3>1, <4>1, LenProperties, ElementOfSeq
      <4> QED BY <4>2 DEF Query
    <3> QED BY <2>1, <3>1 DEF TransferTypeOK, TransferSound, TransferRow, Sink
  <2>4. FlatTypeOK
    <3>1. ASSUME NEW d \in Archives
          PROVE  /\ download[d].pc \in {"none", "fetch", "transfer", "finish", "ended", "panicked"}
                 /\ \A w \in {download[d].first, download[d].start, download[d].cur} : w \in Weeks
      BY <2>2 DEF DownloadSound, DownloadRow
    <3> QED BY <2>3, <3>1 DEF FlatTypeOK, FlatInv
  <2>5. FileTransferExact
    <3>1. ASSUME NEW t \in Transfers, transfer[t].src = "Flatfile"
          PROVE  LET r == transfer[t]
                     taken == r.size - Len(r.rows)
                     given == SubSeq(ChunksReversed(taken), 1, taken - Len(r.buffer))
                 IN  /\ r.buffer = Reverse(SubSeq(ChunksReversed(taken), Len(given) + 1, taken))
                     /\ IF r.pc = "unwritten" THEN IsPrefix(r.stored, given)
                        ELSE Accounted(r, given)
                     /\ r.pc # "ended"
      <4> DEFINE r == transfer[t]
      <4>1. TransferSound(r) /\ r.src = "Flatfile"
        BY <2>1, <3>1
      <4> HIDE DEF r
      <4> QED BY <4>1, FileRowExact, Zenon DEF r
    <3> QED BY <3>1, Zenon DEF FileTransferExact
  <2>6. ASSUME NEW d \in Archives, download[d].pc = "finish"
        PROVE  {t \in Transfers : transfer[t].pc # "none" /\ t \notin Requests /\ t[1] = d}
                   = {d} \X (download[d].saved \cup {download[d].cur})
    <3> DEFINE weeks == StartedBy(transfer, d)
               threads == {t \in Transfers : transfer[t].pc # "none" /\ t \notin Requests /\ t[1] = d}
    <3>1. weeks = download[d].saved \cup {download[d].cur}
      BY <2>2, <2>6 DEF DownloadSound
    <3>2. ASSUME NEW t \in threads PROVE t \in {d} \X weeks
      <4>1. t \in Archives \X Weeks
        BY ArchiveAssumption
      <4>2. t = <<d, t[2]>> /\ t[2] \in Weeks
        BY <4>1
      <4>3. t[2] \in weeks
        BY <4>2 DEF StartedBy
      <4> QED BY <4>2, <4>3
    <3>3. ASSUME NEW w \in weeks PROVE <<d, w>> \in threads
      BY WeeksThread DEF StartedBy
    <3> QED BY <3>1, <3>2, <3>3
  <2> QED BY <2>4, <2>5, <2>6 DEF WeeksTransferred, DownloadsSound
<1> QED BY <1>1, FlatInvariant, PTL

-----------------------------------------------------------------------------
(* Native downloads *)

\* What a history's threads are made of.
HistoryRow ==
    [pc : {"none", "login", "probe", "failed", "push", "announce", "history", "remove",
           "report", "ended"},
     desc : Descriptors, dst : Destinations \cup {"Console"},
     consumer : {"none", "open", "recv", "panicked", "unwritten", "ended"},
     called : Seq(Nat), chan : Seq(Nat), held : Seq(Nat), stored : Seq(Nat),
     queries : Seq(Query(Nat)), started : BOOLEAN, complete : BOOLEAN]

\* What the library called back with went to the closure, or is in the channel.
Passed(r) == \E given \in Seq(Nat) : given \o r.chan = r.called /\ Accounted(r, given)

(***************************************************************************)
(* A history's ticks are in the order of the callbacks up to the write     *)
(* that fails; before its consumer receives it has none; and who is        *)
(* through has said so.                                                    *)
(***************************************************************************)
HistorySound(r) ==
    /\ r \in HistoryRow
    /\ Sink(Nat, r)
    /\ r.consumer \in {"none", "open", "panicked"} =>
          r.stored = <<>> /\ r.held = <<>> /\ r.queries = <<>>
    /\ r.consumer = "unwritten" => WrittenFirst(Nat, r, r.called)
    /\ r.consumer \notin Dead => Passed(r)
    /\ r.pc \in {"none", "login", "probe"} =>
          r.consumer = "none" /\ r.called = <<>> /\ r.chan = <<>>
    /\ r.pc = "ended" \/ r.consumer = "ended" => r.complete

\* Nothing of the ticks has changed.
Goes(q, r) ==
    q = [r EXCEPT !.pc = q.pc, !.consumer = q.consumer, !.started = q.started,
                  !.complete = q.complete]

\* The downloads that are on the list with a descriptor.
ListedAs(n, d) ==
    {h \in Histories : n[h].pc \in {"announce", "history", "remove"} /\ n[h].desc = d}

\* The list has an entry for each of them.
ListFits(list, n) ==
    \A d \in Descriptors : Cardinality(At(list, d)) = Cardinality(ListedAs(n, d))

HistoriesInv ==
    /\ DOMAIN native = Histories
    /\ \A h \in Histories : HistorySound(native[h])
    /\ running \in Seq(Descriptors)
    /\ ListFits(running, native)

(***************************************************************************)
(* Removing an element that is there removes one of its places.            *)
(***************************************************************************)
LEMMA RemoveFirstPlace ==
    ASSUME NEW S, NEW list \in Seq(S), NEW e \in Elements(list)
    PROVE  \E k \in DOMAIN list : list[k] = e /\ RemoveFirst(list, e) = Without(list, k)
<1> DEFINE Places == {i \in 1..Len(list) : list[i] = e}
           k == CHOOSE i \in Places : \A j \in Places : i <= j
<1>1. DOMAIN list = 1..Len(list) /\ Len(list) \in Nat
  BY LenProperties
<1>2. Places # {} /\ Places \subseteq Nat /\ \E i \in 1..Len(list) : list[i] = e
  BY <1>1 DEF Elements
<1>3. k \in Places
  BY <1>2, FirstPlace
<1>4. SelectInSeq(list, LAMBDA v : v = e) = k
  BY <1>2 DEF SelectInSeq, Min
<1>5. RemoveFirst(list, e) = RemoveAt(list, k)
  BY <1>2, <1>4 DEF RemoveFirst
<1>6. RemoveAt(list, k) = Without(list, k)
  BY DEF RemoveAt, Without
<1> QED BY <1>1, <1>3, <1>5, <1>6

(***************************************************************************)
(* A step of one history that does not list or unlist it.                  *)
(***************************************************************************)
LEMMA HistoryMoves ==
    ASSUME HistoriesInv, NEW h \in Histories, NEW r, native' = [native EXCEPT ![h] = r],
           HistorySound(r), r.desc = native[h].desc \/ native[h].pc = "none",
           r.pc \in {"announce", "history", "remove"} <=> Listed(h), UNCHANGED running
    PROVE  HistoriesInv'
<1>1. /\ DOMAIN native' = Histories /\ native'[h] = r
      /\ \A g \in Histories \ {h} : native'[g] = native[g]
  BY DEF HistoriesInv
<1>2. \A g \in Histories : HistorySound(native'[g])
  BY <1>1 DEF HistoriesInv
<1>3. ASSUME NEW d \in Descriptors PROVE ListedAs(native', d) = ListedAs(native, d)
  BY <1>1 DEF ListedAs, Listed
<1>4. ListFits(running', native')
  BY <1>3 DEF ListFits, HistoriesInv
<1> QED BY <1>1, <1>2, <1>4 DEF HistoriesInv

\* A thread that goes on leaves the ticks where they are.
LEMMA HistoryGoes ==
    ASSUME NEW r, HistorySound(r), NEW q, Goes(q, r),
           \/ q.pc = r.pc
           \/ q.pc \in {"login", "probe", "failed", "push", "announce", "history", "remove",
                        "report", "ended"},
           q.started \in BOOLEAN, q.complete \in BOOLEAN,
           \/ q.consumer = r.consumer
           \/ r.consumer = "none" /\ q.consumer = "open"
           \/ r.consumer = "open" /\ q.consumer = "recv"
           \/ r.consumer = "recv" /\ q.consumer = "ended",
           q.pc \in {"none", "login", "probe"} =>
              r.pc \in {"none", "login", "probe"} /\ q.consumer = r.consumer,
           q.pc = "ended" \/ q.consumer = "ended" => q.complete
    PROVE  HistorySound(q) /\ q.desc = r.desc
<1>1. r \in HistoryRow /\ Sink(Nat, r)
  BY DEF HistorySound
<1>2. /\ q \in HistoryRow /\ q.desc = r.desc /\ q.dst = r.dst /\ q.called = r.called
      /\ q.chan = r.chan /\ q.held = r.held /\ q.stored = r.stored /\ q.queries = r.queries
      /\ DOMAIN q = DOMAIN r
  BY <1>1 DEF Goes, HistoryRow
<1>3. Sink(Nat, q)
  BY <1>1, <1>2 DEF Sink
<1>4. q.consumer = "unwritten" => WrittenFirst(Nat, q, q.called)
  BY <1>2 DEF HistorySound, WrittenFirst
<1>5. ASSUME q.consumer \notin Dead PROVE Passed(q)
  <2>1. r.consumer \notin Dead
    BY <1>5 DEF Dead
  <2>2. PICK given \in Seq(Nat) : given \o r.chan = r.called /\ Accounted(r, given)
    BY <2>1 DEF HistorySound, Passed
  <2>3. Accounted(q, given)
    BY <1>2, <2>2 DEF Accounted
  <2> QED BY <1>2, <2>2, <2>3 DEF Passed
<1>6. q.consumer \in {"none", "open", "panicked"} =>
         q.stored = <<>> /\ q.held = <<>> /\ q.queries = <<>>
  BY <1>2 DEF HistorySound
<1> QED BY <1>2, <1>3, <1>4, <1>5, <1>6 DEF HistorySound

(***************************************************************************)
(* A history that goes on the list, with its entry.                        *)
(***************************************************************************)
LEMMA HistoryListed ==
    ASSUME HistoriesInv, NEW h \in Histories, ListDownload(h)
    PROVE  HistoriesInv'
<1> DEFINE r == [native[h] EXCEPT !.pc = "announce"]
           desc == native[h].desc
<1>1. HistorySound(native[h]) /\ native[h].pc = "push"
  BY DEF HistoriesInv, ListDownload, Goto
<1>2. HistorySound(r) /\ r.desc = desc /\ r.pc = "announce" /\ desc \in Descriptors
  <2>1. /\ Goes(r, native[h]) /\ r.pc = "announce" /\ r.consumer = native[h].consumer
        /\ r.started \in BOOLEAN /\ r.complete \in BOOLEAN /\ r.complete = native[h].complete
        /\ desc \in Descriptors
    BY <1>1 DEF HistorySound, HistoryRow, Goes
  <2> HIDE DEF r
  <2>2. r.consumer = "ended" => r.complete
    BY <1>1, <2>1 DEF HistorySound
  <2> QED BY <1>1, <2>1, <2>2, HistoryGoes
<1>3. /\ DOMAIN native' = Histories /\ native'[h] = r
      /\ \A g \in Histories \ {h} : native'[g] = native[g]
  BY DEF HistoriesInv, ListDownload, Goto
<1> HIDE DEF r
<1>4. \A g \in Histories : HistorySound(native'[g])
  BY <1>2, <1>3 DEF HistoriesInv
<1>5. running' = Append(running, desc) /\ running' \in Seq(Descriptors)
  BY <1>2, AppendProperties DEF HistoriesInv, ListDownload
<1>6. ASSUME NEW d \in Descriptors
      PROVE  Cardinality(At(running', d)) = Cardinality(ListedAs(native', d))
  <2>1. Cardinality(At(running', d)) = Cardinality(At(running, d)) + (IF d = desc THEN 1 ELSE 0)
    BY <1>2, <1>5, AppendPlaces DEF HistoriesInv
  <2>2. Cardinality(At(running, d)) = Cardinality(ListedAs(native, d))
    BY DEF HistoriesInv, ListFits
  <2>3. IsFiniteSet(ListedAs(native, d)) /\ Cardinality(ListedAs(native, d)) \in Nat
    BY NativeAssumption, FS_Subset, FS_CardinalityType DEF ListedAs
  <2>4. CASE d = desc
    <3>1. h \notin ListedAs(native, d)
      BY <1>1 DEF ListedAs
    <3>2. ListedAs(native', d) = ListedAs(native, d) \cup {h}
      BY <1>2, <1>3, <2>4 DEF ListedAs
    <3>3. Cardinality(ListedAs(native', d)) = Cardinality(ListedAs(native, d)) + 1
      BY <2>3, <3>1, <3>2, FS_AddElement
    <3> QED BY <2>1, <2>2, <2>4, <3>3
  <2>5. CASE d # desc
    <3>1. ListedAs(native', d) = ListedAs(native, d)
      BY <1>1, <1>2, <1>3, <2>5 DEF ListedAs
    <3> QED BY <2>1, <2>2, <2>3, <2>5, <3>1
  <2> QED BY <2>4, <2>5
<1>7. ListFits(running', native')
  BY <1>6 DEF ListFits
<1> QED BY <1>3, <1>4, <1>5, <1>7 DEF HistoriesInv

(***************************************************************************)
(* A history that leaves the list takes an entry like its own with it.     *)
(***************************************************************************)
LEMMA HistoryUnlisted ==
    ASSUME HistoriesInv, NEW h \in Histories, UnlistDownload(h)
    PROVE  HistoriesInv'
<1> DEFINE r == [native[h] EXCEPT !.pc = "report"]
           desc == native[h].desc
<1>1. HistorySound(native[h]) /\ native[h].pc = "remove"
  BY DEF HistoriesInv, UnlistDownload, Goto
<1>2. HistorySound(r) /\ r.desc = desc /\ r.pc = "report" /\ desc \in Descriptors
  <2>1. /\ Goes(r, native[h]) /\ r.pc = "report" /\ r.consumer = native[h].consumer
        /\ r.started \in BOOLEAN /\ r.complete \in BOOLEAN /\ r.complete = native[h].complete
        /\ desc \in Descriptors
    BY <1>1 DEF HistorySound, HistoryRow, Goes
  <2> HIDE DEF r
  <2>2. r.consumer = "ended" => r.complete
    BY <1>1, <2>1 DEF HistorySound
  <2> QED BY <1>1, <2>1, <2>2, HistoryGoes
<1>3. /\ DOMAIN native' = Histories /\ native'[h] = r
      /\ \A g \in Histories \ {h} : native'[g] = native[g]
  BY DEF HistoriesInv, UnlistDownload, Goto
<1> HIDE DEF r
<1>4. \A g \in Histories : HistorySound(native'[g])
  BY <1>2, <1>3 DEF HistoriesInv
<1>5. ASSUME NEW d \in Descriptors
      PROVE  IsFiniteSet(ListedAs(native, d)) /\ Cardinality(ListedAs(native, d)) \in Nat
  BY NativeAssumption, FS_Subset, FS_CardinalityType DEF ListedAs
<1>6. desc \in Elements(running)
  <2>1. h \in ListedAs(native, desc)
    BY <1>1 DEF ListedAs
  <2>2. Cardinality(ListedAs(native, desc)) # 0
    BY <1>2, <1>5, <2>1, FS_EmptySet
  <2>3. Cardinality(At(running, desc)) # 0
    BY <1>2, <2>2 DEF HistoriesInv, ListFits
  <2> QED BY <2>3, PlacesFinite DEF HistoriesInv
<1>7. PICK k \in DOMAIN running : running[k] = desc /\ RemoveFirst(running, desc) = Without(running, k)
  BY <1>6, RemoveFirstPlace DEF HistoriesInv
<1>8. running' = Without(running, k) /\ running' \in Seq(Descriptors)
  BY <1>7, WithoutShape DEF HistoriesInv, UnlistDownload
<1>9. ASSUME NEW d \in Descriptors
      PROVE  Cardinality(At(running', d)) = Cardinality(ListedAs(native', d))
  <2>1. Cardinality(At(running', d)) = Cardinality(At(running, d)) - (IF desc = d THEN 1 ELSE 0)
    BY <1>7, <1>8, WithoutPlaces DEF HistoriesInv
  <2>2. Cardinality(At(running, d)) = Cardinality(ListedAs(native, d))
    BY DEF HistoriesInv, ListFits
  <2>3. CASE d = desc
    <3>1. h \in ListedAs(native, d)
      BY <1>1, <2>3 DEF ListedAs
    <3>2. ListedAs(native', d) = ListedAs(native, d) \ {h}
      BY <1>2, <1>3, <2>3 DEF ListedAs
    <3>3. Cardinality(ListedAs(native', d)) = Cardinality(ListedAs(native, d)) - 1
      BY ZenonT(60), <1>5, <3>1, <3>2, FS_RemoveElement
    <3> QED BY <2>1, <2>2, <2>3, <3>3
  <2>4. CASE d # desc
    <3>1. ListedAs(native', d) = ListedAs(native, d)
      BY <1>1, <1>2, <1>3, <2>4 DEF ListedAs
    <3> QED BY <1>5, <2>1, <2>2, <2>4, <3>1
  <2> QED BY <2>3, <2>4
<1>10. ListFits(running', native')
  BY <1>9 DEF ListFits
<1> QED BY <1>3, <1>4, <1>8, <1>10 DEF HistoriesInv

\* A download that begins, or fails to.
LEMMA HistoryBegins ==
    ASSUME HistoriesInv, NEW h \in Histories,
           \/ \E desc \in Descriptors, dst \in Destinations : InitDownload(h, desc, dst)
           \/ Login(h) \/ ProbeSink(h)
    PROVE  HistoriesInv'
<1> DEFINE r == native[h]
<1>1. HistorySound(r)
  BY DEF HistoriesInv
<1>2. ASSUME NEW desc \in Descriptors, NEW dst \in Destinations, InitDownload(h, desc, dst)
      PROVE  HistoriesInv'
  <2> DEFINE q == [r EXCEPT !.pc = "login", !.desc = desc, !.dst = dst]
  <2>1. /\ r.pc = "none" /\ r.consumer = "none" /\ r.called = <<>> /\ r.chan = <<>>
        /\ r.stored = <<>> /\ r.held = <<>> /\ r.queries = <<>> /\ r \in HistoryRow
    BY <1>1, <1>2 DEF HistorySound, InitDownload
  <2>2. /\ q \in HistoryRow /\ q.consumer = "none" /\ q.stored = <<>> /\ q.held = <<>>
        /\ q.chan = <<>> /\ q.called = <<>> /\ q.queries = <<>> /\ q.pc = "login"
        /\ {"dst", "held", "stored", "queries"} \subseteq DOMAIN q
    BY <2>1 DEF HistoryRow
  <2>3. native' = [native EXCEPT ![h] = q] /\ UNCHANGED running
    BY <1>2 DEF InitDownload
  <2> HIDE DEF q
  <2>4. Sink(Nat, q) /\ Passed(q)
    <3>1. Accounted(q, <<>>) /\ Sink(Nat, q) /\ <<>> \in Seq(Nat) /\ <<>> \o <<>> = <<>>
      BY <2>2, NothingGiven
    <3> QED BY <2>2, <3>1 DEF Passed
  <2>5. HistorySound(q)
    BY <2>2, <2>4 DEF HistorySound
  <2> QED BY <2>1, <2>2, <2>3, <2>5, HistoryMoves DEF Listed
<1>3. CASE Login(h)
  <2>1. PICK to \in {"probe", "failed"} : Goto(h, "login", to) /\ UNCHANGED running
    BY <1>3 DEF Login
  <2> DEFINE q == [r EXCEPT !.pc = to]
  <2>2. r.pc = "login" /\ native' = [native EXCEPT ![h] = q]
    BY <2>1 DEF Goto
  <2>3. HistorySound(q) /\ q.pc = to /\ q.desc = r.desc
    <3>1. /\ Goes(q, r) /\ q.pc = to /\ q.started \in BOOLEAN /\ q.complete \in BOOLEAN
          /\ q.consumer = r.consumer /\ q.complete = r.complete
      BY <1>1, <2>2 DEF HistorySound, HistoryRow, Goes
    <3> HIDE DEF q
    <3>2. q.pc = "ended" \/ q.consumer = "ended" => q.complete
      BY <1>1, <2>2, <3>1 DEF HistorySound
    <3> QED BY <1>1, <2>2, <3>1, <3>2, HistoryGoes
  <2> HIDE DEF q
  <2> QED BY <2>1, <2>2, <2>3, HistoryMoves DEF Listed
<1>4. CASE ProbeSink(h)
  <2>1. CASE native' = [native EXCEPT ![h] = [@ EXCEPT !.pc = "push", !.consumer = "open"]]
    <3> DEFINE q == [r EXCEPT !.pc = "push", !.consumer = "open"]
    <3>1. r.pc = "probe" /\ native' = [native EXCEPT ![h] = q] /\ UNCHANGED running
      BY <1>4, <2>1 DEF ProbeSink
    <3>2. r.consumer = "none" /\ r.stored = <<>> /\ r.held = <<>> /\ r \in HistoryRow
      BY <1>1, <3>1 DEF HistorySound
    <3>3. HistorySound(q) /\ q.pc = "push" /\ q.desc = r.desc
      <4>1. /\ Goes(q, r) /\ q.pc = "push" /\ q.started \in BOOLEAN /\ q.complete \in BOOLEAN
            /\ q.consumer = "open" /\ q.complete = r.complete
        BY <1>1, <3>1, <3>2 DEF HistorySound, HistoryRow, Goes
      <4> HIDE DEF q
      <4>2. q.pc = "ended" \/ q.consumer = "ended" => q.complete
        BY <1>1, <3>1, <3>2, <4>1 DEF HistorySound
      <4> QED BY <1>1, <3>1, <3>2, <4>1, <4>2, HistoryGoes
    <3> HIDE DEF q
    <3> QED BY <3>1, <3>3, HistoryMoves DEF Listed
  <2>2. CASE native' = [native EXCEPT ![h].pc = "failed"]
    <3> DEFINE q == [r EXCEPT !.pc = "failed"]
    <3>1. r.pc = "probe" /\ native' = [native EXCEPT ![h] = q] /\ UNCHANGED running
      BY <1>4, <2>2 DEF ProbeSink
    <3>2. HistorySound(q) /\ q.pc = "failed" /\ q.desc = r.desc
      <4>1. /\ Goes(q, r) /\ q.pc = "failed" /\ q.started \in BOOLEAN /\ q.complete \in BOOLEAN
            /\ q.consumer = r.consumer /\ q.complete = r.complete
        BY <1>1, <3>1 DEF HistorySound, HistoryRow, Goes
      <4> HIDE DEF q
      <4>2. q.pc = "ended" \/ q.consumer = "ended" => q.complete
        BY <1>1, <3>1, <4>1 DEF HistorySound
      <4> QED BY <1>1, <3>1, <4>1, <4>2, HistoryGoes
    <3> HIDE DEF q
    <3> QED BY <3>1, <3>2, HistoryMoves DEF Listed
  <2> QED BY <1>4, <2>1, <2>2 DEF ProbeSink
<1> QED BY <1>2, <1>3, <1>4

\* The library returns, and what its thread says before and after.
LEMMA HistorySays ==
    ASSUME HistoriesInv, NEW h \in Histories,
           AnnounceStart(h) \/ HistoryEnds(h) \/ ReportComplete(h)
    PROVE  HistoriesInv'
<1> DEFINE r == native[h]
<1>1. HistorySound(r)
  BY DEF HistoriesInv
<1>2. CASE AnnounceStart(h)
  <2> DEFINE q == [r EXCEPT !.pc = "history", !.started = TRUE]
  <2>1. r.pc = "announce" /\ native' = [native EXCEPT ![h] = q] /\ UNCHANGED running
    BY <1>2 DEF AnnounceStart
  <2>2. HistorySound(q) /\ q.pc = "history" /\ q.desc = r.desc
    <3>1. /\ Goes(q, r) /\ q.pc = "history" /\ q.started \in BOOLEAN /\ q.complete \in BOOLEAN
          /\ q.consumer = r.consumer /\ q.complete = r.complete
      BY <1>1, <2>1 DEF HistorySound, HistoryRow, Goes
    <3> HIDE DEF q
    <3>2. q.pc = "ended" \/ q.consumer = "ended" => q.complete
      BY <1>1, <2>1, <3>1 DEF HistorySound
    <3> QED BY <1>1, <2>1, <3>1, <3>2, HistoryGoes
  <2> HIDE DEF q
  <2> QED BY <2>1, <2>2, HistoryMoves DEF Listed
<1>3. CASE HistoryEnds(h)
  <2> DEFINE q == [r EXCEPT !.pc = "remove"]
  <2>1. r.pc = "history" /\ native' = [native EXCEPT ![h] = q] /\ UNCHANGED running
    BY <1>3 DEF HistoryEnds, Goto
  <2>2. HistorySound(q) /\ q.pc = "remove" /\ q.desc = r.desc
    <3>1. /\ Goes(q, r) /\ q.pc = "remove" /\ q.started \in BOOLEAN /\ q.complete \in BOOLEAN
          /\ q.consumer = r.consumer /\ q.complete = r.complete
      BY <1>1, <2>1 DEF HistorySound, HistoryRow, Goes
    <3> HIDE DEF q
    <3>2. q.pc = "ended" \/ q.consumer = "ended" => q.complete
      BY <1>1, <2>1, <3>1 DEF HistorySound
    <3> QED BY <1>1, <2>1, <3>1, <3>2, HistoryGoes
  <2> HIDE DEF q
  <2> QED BY <2>1, <2>2, HistoryMoves DEF Listed
<1>4. CASE ReportComplete(h)
  <2> DEFINE q == [r EXCEPT !.pc = "ended", !.complete = TRUE]
  <2>1. r.pc = "report" /\ native' = [native EXCEPT ![h] = q] /\ UNCHANGED running
    BY <1>4 DEF ReportComplete
  <2>2. HistorySound(q) /\ q.pc = "ended" /\ q.desc = r.desc
    <3>1. /\ Goes(q, r) /\ q.pc = "ended" /\ q.started \in BOOLEAN /\ q.complete \in BOOLEAN
          /\ q.consumer = r.consumer /\ q.complete = TRUE
      BY <1>1, <2>1 DEF HistorySound, HistoryRow, Goes
    <3> HIDE DEF q
    <3>2. q.pc = "ended" \/ q.consumer = "ended" => q.complete
      BY <1>1, <2>1, <3>1 DEF HistorySound
    <3> QED BY <1>1, <2>1, <3>1, <3>2, HistoryGoes
  <2> HIDE DEF q
  <2> QED BY <2>1, <2>2, HistoryMoves DEF Listed
<1> QED BY <1>2, <1>3, <1>4

\* The library calls back.
LEMMA HistoryTicks ==
    ASSUME HistoriesInv, NEW h \in Histories, NEW i \in 1..MaxTicks, TickCallback(h, i)
    PROVE  HistoriesInv'
<1> DEFINE r == native[h]
           called == Append(r.called, i)
           chan == IF r.consumer \in Dead THEN r.chan ELSE Append(r.chan, i)
           q == [r EXCEPT !.called = called, !.chan = chan]
<1>1. HistorySound(r) /\ r \in HistoryRow /\ i \in Nat
  BY NativeAssumption DEF HistoriesInv, HistorySound
<1>2. r.called \in Seq(Nat) /\ r.chan \in Seq(Nat) /\ <<i>> \in Seq(Nat)
  BY <1>1 DEF HistoryRow
<1>3. native' = [native EXCEPT ![h] = q] /\ UNCHANGED running /\ r.pc = "history"
  BY DEF TickCallback
<1>4. called \in Seq(Nat) /\ called = r.called \o <<i>> /\ chan \in Seq(Nat)
  BY <1>1, <1>2, AppendProperties, AppendIsConcat
<1>5. r.consumer \notin Dead => chan = r.chan \o <<i>>
  BY <1>1, <1>2, AppendIsConcat
<1> HIDE DEF called, chan
<1>6. /\ q \in HistoryRow /\ q.chan = chan /\ q.called = called /\ q.pc = r.pc /\ q.desc = r.desc
      /\ q.dst = r.dst /\ q.consumer = r.consumer /\ q.stored = r.stored /\ q.held = r.held
      /\ q.queries = r.queries /\ q.complete = r.complete /\ DOMAIN q = DOMAIN r
  BY <1>1, <1>4 DEF HistoryRow
<1> HIDE DEF q
<1>7. Sink(Nat, q)
  BY <1>1, <1>6 DEF HistorySound, Sink
<1>8. ASSUME q.consumer \notin Dead PROVE Passed(q)
  <2>1. PICK given \in Seq(Nat) : given \o r.chan = r.called /\ Accounted(r, given)
    BY <1>1, <1>6, <1>8 DEF HistorySound, Passed
  <2>2. \A s \in Seq(Nat), t \in Seq(Nat), u \in Seq(Nat) : (s \o t) \o u = s \o (t \o u)
    BY SMTT(30), ConcatAssociative
  <2>3. (given \o r.chan) \o <<i>> = given \o (r.chan \o <<i>>)
    BY <1>2, <2>2, Zenon
  <2>4. given \o q.chan = q.called
    BY <1>4, <1>5, <1>6, <1>8, <2>1, <2>3
  <2>5. Accounted(q, given)
    BY <1>6, <2>1 DEF Accounted
  <2> QED BY <2>4, <2>5 DEF Passed
<1>9. ASSUME q.consumer = "unwritten" PROVE WrittenFirst(Nat, q, q.called)
  <2>1. WrittenFirst(Nat, r, r.called) /\ r.stored \in Seq(Nat)
    BY <1>1, <1>6, <1>9 DEF HistorySound, HistoryRow
  <2>2. WrittenFirst(Nat, r, called)
    BY <1>1, <1>2, <2>1, FirstIsPrefix DEF called
  <2> QED BY <1>6, <2>2 DEF WrittenFirst
<1>10. HistorySound(q)
  BY <1>1, <1>3, <1>6, <1>7, <1>8, <1>9 DEF HistorySound
<1> QED BY <1>3, <1>6, <1>10, HistoryMoves DEF Listed

\* The consumer opens its sink, or dies of it, or ends.
LEMMA ConsumerComesAndGoes ==
    ASSUME HistoriesInv, NEW h \in Histories, ConsumerOpens(h) \/ ConsumerEnds(h)
    PROVE  HistoriesInv'
<1> DEFINE r == native[h]
<1>1. HistorySound(r) /\ r \in HistoryRow
  BY DEF HistoriesInv, HistorySound
<1>2. r.consumer # "none" /\ r.pc \notin {"none", "login", "probe"}
  BY <1>1 DEF HistorySound, ConsumerOpens, ConsumerEnds
<1>3. ASSUME NEW to \in {"recv", "ended"}, NEW q, q = [r EXCEPT !.consumer = to],
             \/ r.consumer = "open" /\ to = "recv"
             \/ r.consumer = "recv" /\ to = "ended" /\ r.pc = "ended"
      PROVE  HistorySound(q) /\ q.pc = r.pc /\ q.desc = r.desc
  <2>1. /\ Goes(q, r) /\ q.pc = r.pc /\ q.started \in BOOLEAN /\ q.complete \in BOOLEAN
        /\ q.consumer = to /\ q.complete = r.complete
    BY <1>1, <1>3 DEF HistoryRow, Goes
  <2>2. q.pc = "ended" \/ q.consumer = "ended" => q.complete
    BY <1>1, <1>3, <2>1 DEF HistorySound
  <2>3. /\ \/ r.consumer = "open" /\ q.consumer = "recv"
           \/ r.consumer = "recv" /\ q.consumer = "ended"
        /\ q.pc \notin {"none", "login", "probe"}
    <3> HIDE DEF r
    <3> QED BY <1>2, <1>3, <2>1
  <2> HIDE DEF r
  <2>4. HistorySound(q) /\ q.desc = r.desc
    BY <1>1, <2>1, <2>2, <2>3, HistoryGoes
  <2> QED BY <2>1, <2>4
<1>4. CASE ConsumerOpens(h) /\ native' = [native EXCEPT ![h].consumer = "recv"]
  <2>1. /\ r.consumer = "open" /\ native' = [native EXCEPT ![h] = [r EXCEPT !.consumer = "recv"]]
        /\ UNCHANGED running
    BY <1>4 DEF ConsumerOpens
  <2> QED BY <1>3, <2>1, HistoryMoves DEF Listed
<1>5. CASE /\ ConsumerOpens(h)
           /\ native' = [native EXCEPT ![h] = [@ EXCEPT !.consumer = "panicked", !.chan = <<>>]]
  <2> DEFINE q == [r EXCEPT !.consumer = "panicked", !.chan = <<>>]
  <2>1. r.consumer = "open" /\ native' = [native EXCEPT ![h] = q] /\ UNCHANGED running
    BY <1>5 DEF ConsumerOpens
  <2>2. /\ q \in HistoryRow /\ q.consumer = "panicked" /\ q.pc = r.pc /\ q.desc = r.desc
        /\ q.stored = <<>> /\ q.held = <<>> /\ q.queries = <<>> /\ q.complete = r.complete
        /\ DOMAIN q = DOMAIN r
    BY <1>1, <2>1 DEF HistorySound, HistoryRow
  <2> HIDE DEF q
  <2>3. Sink(Nat, q)
    BY <1>1, <2>2 DEF HistorySound, Sink
  <2>4. HistorySound(q)
    BY <1>1, <1>2, <2>2, <2>3 DEF HistorySound, Dead
  <2> QED BY <2>1, <2>2, <2>4, HistoryMoves DEF Listed
<1>6. CASE ConsumerEnds(h)
  <2>1. /\ r.consumer = "recv" /\ r.pc = "ended" /\ UNCHANGED running
        /\ native' = [native EXCEPT ![h] = [r EXCEPT !.consumer = "ended"]]
    BY <1>6 DEF ConsumerEnds
  <2> QED BY <1>3, <2>1, HistoryMoves DEF Listed
<1> QED BY <1>4, <1>5, <1>6 DEF ConsumerOpens

\* The consumer passes a tick to its closure, which may panic.
LEMMA ConsumerConsumes ==
    ASSUME HistoriesInv, NEW h \in Histories, ConsumeTick(h)
    PROVE  HistoriesInv'
<1> DEFINE r == native[h]
           tick == Head(r.chan)
           rest == Tail(r.chan)
           taken == [r EXCEPT !.chan = rest]
           q == RxClosure(taken, tick)
<1>1. HistorySound(r) /\ r \in HistoryRow /\ r.consumer = "recv" /\ r.chan # <<>>
  BY DEF HistoriesInv, HistorySound, ConsumeTick
<1>2. /\ UNCHANGED running
      /\ \/ native' = [native EXCEPT ![h] = q]
         \/ \E left \in RxPanics(taken, tick) :
               native' = [native EXCEPT ![h] =
                             [left EXCEPT !.consumer = "unwritten", !.chan = <<>>]]
  BY DEF ConsumeTick
<1>3. q = RxClosure(taken, tick)
  OBVIOUS
<1> HIDE DEF q
<1>4. tick \in Nat /\ rest \in Seq(Nat) /\ r.chan = <<tick>> \o rest /\ <<tick>> \in Seq(Nat)
  BY <1>1, HeadTailProperties DEF HistoryRow
<1> HIDE DEF tick, rest
<1>5. /\ taken \in HistoryRow /\ taken.chan = rest /\ taken.called = r.called
      /\ taken.pc = r.pc /\ taken.desc = r.desc /\ taken.dst = r.dst
      /\ taken.consumer = "recv" /\ taken.stored = r.stored /\ taken.held = r.held
      /\ taken.queries = r.queries /\ taken.complete = r.complete /\ DOMAIN taken = DOMAIN r
  BY <1>1, <1>4 DEF HistoryRow
<1> HIDE DEF taken
<1>6. Sink(Nat, taken)
  BY <1>1, <1>5 DEF HistorySound, Sink
<1>7. r.pc \notin {"none", "login", "probe"} /\ (r.pc = "ended" => r.complete)
  BY <1>1 DEF HistorySound
<1>8. PICK given \in Seq(Nat) : given \o r.chan = r.called /\ Accounted(r, given)
  BY <1>1 DEF HistorySound, Passed, Dead
<1>9. Accounted(taken, given)
  BY <1>5, <1>8 DEF Accounted
<1> DEFINE after == Append(given, tick)
<1>10. after \in Seq(Nat) /\ after \o rest = r.called
  <2>1. after \in Seq(Nat) /\ after = given \o <<tick>>
    BY <1>4, AppendProperties, AppendIsConcat
  <2>2. \A s \in Seq(Nat), t \in Seq(Nat), u \in Seq(Nat) : (s \o t) \o u = s \o (t \o u)
    BY SMTT(30), ConcatAssociative
  <2>3. (given \o <<tick>>) \o rest = given \o (<<tick>> \o rest)
    BY <1>4, <2>2, Zenon
  <2> QED BY <1>4, <1>8, <2>1, <2>3
<1> HIDE DEF after
<1>11. HistorySound(q) /\ q.pc = r.pc /\ q.desc = r.desc
  <2>1. Sink(Nat, q) /\ Accounted(q, after) /\ Worked(q, taken)
    BY <1>3, <1>4, <1>6, <1>9, ClosureAccounts DEF after
  <2>2. q.held \in Seq(Nat) /\ q.stored \in Seq(Nat) /\ q.queries \in Seq(Query(Nat))
    BY <2>1 DEF Sink
  <2>3. /\ q \in HistoryRow /\ q.chan = rest /\ q.called = r.called /\ q.pc = r.pc
        /\ q.desc = r.desc /\ q.consumer = "recv" /\ q.complete = r.complete
    BY <1>5, <2>1, <2>2 DEF HistoryRow, Worked
  <2>4. Passed(q)
    BY <1>10, <2>1, <2>3 DEF Passed
  <2> QED BY <1>7, <2>1, <2>3, <2>4 DEF HistorySound
<1>12. ASSUME NEW left \in RxPanics(taken, tick), NEW s,
              s = [left EXCEPT !.consumer = "unwritten", !.chan = <<>>]
       PROVE  HistorySound(s) /\ s.pc = r.pc /\ s.desc = r.desc
  <2>1. /\ Sink(Nat, left) /\ WrittenFirst(Nat, left, after)
        /\ left = taken \/ Worked(left, taken)
    BY <1>4, <1>6, <1>9, PanicWrites DEF after
  <2>2. left.held \in Seq(Nat) /\ left.stored \in Seq(Nat) /\ left.queries \in Seq(Query(Nat))
    BY <2>1 DEF Sink
  <2>3. /\ left \in HistoryRow /\ left.called = r.called /\ left.pc = r.pc
        /\ left.desc = r.desc /\ left.complete = r.complete
    BY <1>5, <2>1, <2>2 DEF HistoryRow, Worked
  <2>4. s \in HistoryRow
    <3> DEFINE half == [left EXCEPT !.consumer = "unwritten"]
    <3>1. half \in HistoryRow
      BY <2>3 DEF HistoryRow
    <3>2. s = [half EXCEPT !.chan = <<>>] /\ <<>> \in Seq(Nat)
      BY <1>12, <2>3 DEF HistoryRow
    <3> HIDE DEF half
    <3> QED BY <3>1, <3>2 DEF HistoryRow
  <2>5. /\ s \in HistoryRow /\ s.called = r.called /\ s.pc = r.pc /\ s.consumer = "unwritten"
        /\ s.desc = r.desc /\ s.complete = r.complete /\ s.dst = left.dst /\ s.held = left.held
        /\ s.stored = left.stored /\ s.queries = left.queries /\ DOMAIN s = DOMAIN left
    BY <1>12, <2>4, <2>3 DEF HistoryRow
  <2>6. Sink(Nat, s)
    BY <2>1, <2>5 DEF Sink
  <2>7. WrittenFirst(Nat, s, s.called)
    <3>1. WrittenFirst(Nat, left, r.called)
      BY <1>4, <1>10, <2>1, <2>2, FirstIsPrefix
    <3> QED BY <2>5, <3>1 DEF WrittenFirst
  <2> QED BY <1>7, <2>5, <2>6, <2>7 DEF HistorySound, Dead
<1>13. CASE native' = [native EXCEPT ![h] = q]
  BY <1>2, <1>11, <1>13, HistoryMoves DEF Listed
<1>14. ASSUME NEW left \in RxPanics(taken, tick),
              native' = [native EXCEPT ![h] =
                            [left EXCEPT !.consumer = "unwritten", !.chan = <<>>]]
       PROVE  HistoriesInv'
  BY <1>2, <1>12, <1>14, HistoryMoves DEF Listed
<1> QED BY <1>2, <1>13, <1>14

\* A connection is done with a batch of a history.
LEMMA HistoryBatchSettles ==
    ASSUME HistoriesInv, NEW h \in Histories, HistorySettles(h)
    PROVE  HistoriesInv'
<1> DEFINE r == native[h]
<1>1. HistorySound(r) /\ r \in HistoryRow /\ Sink(Nat, r)
  BY DEF HistoriesInv, HistorySound
<1>2. PICK q \in Settled(r) : native' = [native EXCEPT ![h] = q] /\ UNCHANGED running
  BY DEF HistorySettles
<1>3. /\ Sink(Nat, q) /\ Worked(q, r) /\ q.held = r.held /\ q.stored = r.stored
      /\ r.queries # <<>> /\ \A given : Accounted(r, given) => Accounted(q, given)
  BY <1>1, SettledAccounts
<1>4. q.queries \in Seq(Query(Nat))
  BY <1>3 DEF Sink
<1>5. /\ q \in HistoryRow /\ q.chan = r.chan /\ q.called = r.called /\ q.pc = r.pc
      /\ q.desc = r.desc /\ q.consumer = r.consumer /\ q.complete = r.complete
  BY <1>1, <1>3, <1>4 DEF HistoryRow, Worked
<1>6. r.consumer \notin {"none", "open", "panicked"}
  BY <1>1, <1>3 DEF HistorySound
<1>7. q.consumer \notin Dead => Passed(q)
  BY <1>1, <1>3, <1>5 DEF HistorySound, Passed
<1>8. q.consumer = "unwritten" => WrittenFirst(Nat, q, q.called)
  BY <1>1, <1>3, <1>5 DEF HistorySound, WrittenFirst
<1>9. HistorySound(q)
  BY <1>1, <1>3, <1>5, <1>6, <1>7, <1>8 DEF HistorySound
<1> QED BY <1>2, <1>5, <1>9, HistoryMoves DEF Listed

(***************************************************************************)
(* Every step of a history or its consumer keeps the list and the ticks.   *)
(***************************************************************************)
THEOREM HistoriesInvariant == NativeSpec => []HistoriesInv
<1>1. NativeInit => HistoriesInv
  <2> SUFFICES ASSUME NativeInit PROVE HistoriesInv
    OBVIOUS
  <2>1. ASSUME NEW h \in Histories PROVE HistorySound(native[h])
    <3> DEFINE r == native[h]
    <3>1. /\ r \in HistoryRow /\ r.pc = "none" /\ r.consumer = "none" /\ r.stored = <<>>
          /\ r.held = <<>> /\ r.queries = <<>> /\ r.chan = <<>> /\ r.called = <<>>
          /\ {"dst", "held", "stored", "queries"} \subseteq DOMAIN r
      BY NativeAssumption DEF NativeInit, HistoryRow
    <3> HIDE DEF r
    <3>2. Accounted(r, <<>>) /\ Sink(Nat, r) /\ <<>> \in Seq(Nat) /\ <<>> \o <<>> = <<>>
      BY <3>1, NothingGiven
    <3>3. Passed(r)
      BY <3>1, <3>2 DEF Passed
    <3> QED BY <3>1, <3>2, <3>3 DEF HistorySound, r
  <2>2. ASSUME NEW d \in Descriptors
        PROVE  Cardinality(At(running, d)) = Cardinality(ListedAs(native, d))
    <3>1. At(running, d) = {} /\ ListedAs(native, d) = {}
      BY DEF At, ListedAs, NativeInit
    <3> QED BY <3>1
  <2> QED BY <2>1, <2>2 DEF HistoriesInv, ListFits, NativeInit
<1>2. HistoriesInv /\ [NativeNext]_nativeVars => HistoriesInv'
  <2> SUFFICES ASSUME HistoriesInv, [NativeNext]_nativeVars PROVE HistoriesInv'
    OBVIOUS
  <2>1. CASE UNCHANGED nativeVars
    BY <2>1 DEF HistoriesInv, nativeVars
  <2>2. ASSUME NEW h \in Histories,
               \/ \E desc \in Descriptors, dst \in Destinations : InitDownload(h, desc, dst)
               \/ DownloadThread(h) \/ Consumer(h) \/ HistorySettles(h)
        PROVE  HistoriesInv'
    BY <2>2, HistoryBegins, HistoryListed, HistorySays, HistoryTicks, HistoryUnlisted,
       ConsumerComesAndGoes, ConsumerConsumes, HistoryBatchSettles DEF DownloadThread, Consumer
  <2> QED BY <2>1, <2>2 DEF NativeNext
<1> QED BY <1>1, <1>2, PTL DEF NativeSpec

(***************************************************************************)
(* ListRunningDownloads shows an entry for every download that is listed;  *)
(* and what the library called back with is stored in the order of the     *)
(* callbacks, none skipped or doubled, up to the write that fails.         *)
(***************************************************************************)
THEOREM HistoriesInOrder == NativeSpec => []HistoriesSound
<1>1. HistoriesInv => HistoriesSound
  <2> SUFFICES ASSUME HistoriesInv PROVE HistoriesSound
    OBVIOUS
  <2>1. ListMatchesDownloads
    BY DEF HistoriesInv, ListFits, ListMatchesDownloads, At, ListedAs, Listed
  <2>2. ASSUME NEW n, HistorySound(n), NEW given,
               given = SubSeq(n.called, 1, Len(n.called) - Len(n.chan))
        PROVE  /\ n.consumer = "panicked" => n.stored = <<>> /\ n.queries = <<>>
               /\ n.consumer = "unwritten" => IsPrefix(n.stored, n.called)
               /\ n.consumer \notin Dead => given \o n.chan = n.called /\ Accounted(n, given)
               /\ n.consumer = "ended" => n.complete
    <3>1. /\ n \in HistoryRow /\ n.called \in Seq(Nat) /\ n.chan \in Seq(Nat)
          /\ n.stored \in Seq(Nat)
      BY <2>2 DEF HistorySound, HistoryRow
    <3>2. n.consumer = "unwritten" => IsPrefix(n.stored, n.called)
      BY <2>2, <3>1, FirstIsPrefix DEF HistorySound
    <3>3. ASSUME n.consumer \notin Dead
          PROVE  given \o n.chan = n.called /\ Accounted(n, given)
      <4>1. PICK gave \in Seq(Nat) : gave \o n.chan = n.called /\ Accounted(n, gave)
        BY <2>2, <3>3 DEF HistorySound, Passed
      <4>2. /\ Len(n.called) = Len(gave) + Len(n.chan)
            /\ Len(gave) \in Nat /\ Len(n.chan) \in Nat
        BY <3>1, <4>1, ConcatProperties, LenProperties
      <4>3. Len(n.called) - Len(n.chan) = Len(gave)
        BY <4>2
      <4>4. SubSeq(n.called, 1, Len(gave)) = gave
        BY <3>1, <4>1, CutApart
      <4> QED BY <2>2, <4>1, <4>3, <4>4
    <3> QED BY <2>2, <3>2, <3>3 DEF HistorySound
  <2>3. \A h \in Histories : HistorySound(native[h])
    BY DEF HistoriesInv
  <2> QED BY <2>1, <2>2, <2>3 DEF NativeTicksInOrder, HistoriesSound
<1> QED BY <1>1, HistoriesInvariant, PTL
=============================================================================
