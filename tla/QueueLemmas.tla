---------------------------- MODULE QueueLemmas ----------------------------
(***************************************************************************)
(* Facts about sequences that serve as queues of threads, handles or       *)
(* tasks, shared by the proofs about the servers and the spawner: what is  *)
(* in a queue, whether something is in it twice, and at which places,      *)
(* before and after an element is appended or taken from the front.        *)
(***************************************************************************)
EXTENDS Integers, Sequences, FiniteSets, SequenceTheorems, FiniteSetTheorems,
        WellFoundedInduction, TLAPS

\* what a queue holds
Elements(queue) == {queue[i] : i \in DOMAIN queue}

\* nothing is in the queue twice
Unrepeated(queue) == \A i, j \in DOMAIN queue : queue[i] = queue[j] => i = j

\* without its k-th entry
Without(list, k) == SubSeq(list, 1, k - 1) \o SubSeq(list, k + 1, Len(list))

\* where an element is
At(queue, e) == {i \in DOMAIN queue : queue[i] = e}

(***************************************************************************)
(* An empty queue holds nothing, and a queue of S holds members of S.      *)
(***************************************************************************)
LEMMA ElementsType ==
    ASSUME NEW S, NEW queue \in Seq(S)
    PROVE  /\ Elements(queue) \subseteq S
           /\ queue = <<>> <=> Elements(queue) = {}
<1>1. queue \in [1..Len(queue) -> S] /\ Len(queue) \in Nat
  BY LenProperties
<1>2. Elements(queue) \subseteq S
  BY <1>1 DEF Elements
<1>3. ASSUME queue # <<>> PROVE Elements(queue) # {}
  <2>1. 1 \in DOMAIN queue
    BY <1>1, <1>3, EmptySeq
  <2> QED BY <2>1 DEF Elements
<1>4. Elements(<<>>) = {}
  BY DEF Elements
<1> QED BY <1>2, <1>3, <1>4

(***************************************************************************)
(* Appending adds the element, and repeats nothing that is new.            *)
(***************************************************************************)
LEMMA AppendElements ==
    ASSUME NEW S, NEW queue \in Seq(S), NEW e \in S
    PROVE  /\ Append(queue, e) \in Seq(S)
           /\ Elements(Append(queue, e)) = Elements(queue) \cup {e}
           /\ Unrepeated(queue) /\ e \notin Elements(queue) => Unrepeated(Append(queue, e))
<1> DEFINE longer == Append(queue, e)
<1>1. /\ longer \in Seq(S)
      /\ Len(longer) = Len(queue) + 1
      /\ \A i \in 1..Len(queue) : longer[i] = queue[i]
      /\ longer[Len(queue) + 1] = e
  BY AppendProperties
<1>2. /\ Len(queue) \in Nat /\ DOMAIN queue = 1..Len(queue)
      /\ DOMAIN longer = 1..(Len(queue) + 1)
  BY <1>1, LenProperties
<1> HIDE DEF longer
<1>3. Elements(longer) = Elements(queue) \cup {e}
  BY <1>1, <1>2 DEF Elements
<1>4. ASSUME Unrepeated(queue), e \notin Elements(queue), NEW i \in DOMAIN longer,
             NEW j \in DOMAIN longer, longer[i] = longer[j]
      PROVE  i = j
  BY <1>1, <1>2, <1>4 DEF Elements, Unrepeated
<1>5. Unrepeated(queue) /\ e \notin Elements(queue) => Unrepeated(longer)
  BY <1>4 DEF Unrepeated
<1> QED BY <1>1, <1>3, <1>5 DEF longer

(***************************************************************************)
(* Taking the head of a queue without repetitions removes just that.       *)
(***************************************************************************)
LEMMA TailElements ==
    ASSUME NEW S, NEW queue \in Seq(S), queue # <<>>
    PROVE  /\ Head(queue) \in S /\ Head(queue) \in Elements(queue)
           /\ Tail(queue) \in Seq(S)
           /\ Elements(Tail(queue)) \subseteq Elements(queue)
           /\ Elements(queue) = Elements(Tail(queue)) \cup {Head(queue)}
           /\ Unrepeated(queue) =>
                 /\ Unrepeated(Tail(queue))
                 /\ Head(queue) \notin Elements(Tail(queue))
<1> DEFINE rest == Tail(queue)
           first == Head(queue)
<1>1. /\ first \in S /\ rest \in Seq(S)
      /\ Len(rest) = Len(queue) - 1
      /\ \A i \in 1..Len(rest) : rest[i] = queue[i + 1]
  BY HeadTailProperties
<1>2. first = queue[1]
  OBVIOUS
<1>3. /\ Len(queue) \in Nat \ {0} /\ DOMAIN queue = 1..Len(queue)
      /\ DOMAIN rest = 1..(Len(queue) - 1)
  BY <1>1, LenProperties, EmptySeq
<1> HIDE DEF rest, first
<1>4. first \in Elements(queue)
  BY <1>2, <1>3 DEF Elements
<1>5. Elements(rest) \subseteq Elements(queue)
  <2> SUFFICES ASSUME NEW i \in DOMAIN rest PROVE rest[i] \in Elements(queue)
    BY DEF Elements
  <2>1. rest[i] = queue[i + 1] /\ i + 1 \in DOMAIN queue
    BY <1>1, <1>3
  <2> QED BY <2>1 DEF Elements
<1>6. Elements(queue) \subseteq Elements(rest) \cup {first}
  <2> SUFFICES ASSUME NEW i \in DOMAIN queue, queue[i] # first
               PROVE  queue[i] \in Elements(rest)
    BY DEF Elements
  <2>1. i - 1 \in DOMAIN rest /\ (i - 1) + 1 = i
    BY <1>2, <1>3
  <2>2. rest[i - 1] = queue[i]
    BY <2>1, <1>1, <1>3
  <2> QED BY <2>1, <2>2 DEF Elements
<1>7. ASSUME Unrepeated(queue)
      PROVE  Unrepeated(rest) /\ first \notin Elements(rest)
  <2>1. \A i \in DOMAIN rest : rest[i] = queue[i + 1] /\ i + 1 \in DOMAIN queue /\ i + 1 # 1
    BY <1>1, <1>3
  <2>2. first \notin Elements(rest)
    BY <2>1, <1>2, <1>3, <1>7 DEF Elements, Unrepeated
  <2>3. ASSUME NEW i \in DOMAIN rest, NEW j \in DOMAIN rest, rest[i] = rest[j]
        PROVE  i = j
    <3>1. i + 1 = j + 1
      BY <2>1, <2>3, <1>7 DEF Unrepeated
    <3> QED BY <3>1, <1>3
  <2> QED BY <2>2, <2>3 DEF Unrepeated
<1> QED BY <1>1, <1>4, <1>5, <1>6, <1>7 DEF rest, first

(***************************************************************************)
(* In a queue without repetitions an element has one place or none.        *)
(***************************************************************************)
LEMMA OnePlace ==
    ASSUME NEW queue, Unrepeated(queue), NEW e
    PROVE  /\ IsFiniteSet(At(queue, e))
           /\ Cardinality(At(queue, e)) = IF e \in Elements(queue) THEN 1 ELSE 0
           /\ At(queue, e) = {} <=> e \notin Elements(queue)
<1>1. CASE e \in Elements(queue)
  <2>1. PICK i \in DOMAIN queue : queue[i] = e
    BY <1>1 DEF Elements
  <2>2. At(queue, e) = {i}
    BY <2>1 DEF At, Unrepeated
  <2> QED BY <1>1, <2>2, FS_Singleton
<1>2. CASE e \notin Elements(queue)
  <2>1. At(queue, e) = {}
    BY <1>2 DEF At, Elements
  <2> QED BY <1>2, <2>1, FS_EmptySet
<1> QED BY <1>1, <1>2

(***************************************************************************)
(* A queue that holds every member of a finite set as often as there are   *)
(* members, and none twice, holds all of them.                             *)
(***************************************************************************)
LEMMA FullQueue ==
    ASSUME NEW S, IsFiniteSet(S), NEW queue \in [1..Cardinality(S) -> S], Unrepeated(queue)
    PROVE  queue \in Seq(S) /\ Elements(queue) = S
<1>1. Cardinality(S) \in Nat
  BY FS_CardinalityType
<1>2. queue \in Seq(S)
  BY <1>1
<1>3. IsFiniteSet(1..Cardinality(S)) /\ Cardinality(1..Cardinality(S)) = Cardinality(S)
  BY <1>1, FS_Interval
<1>4. queue \in Injection(1..Cardinality(S), S)
  BY DEF Unrepeated, Injection, IsInjective
<1>5. queue \in Surjection(1..Cardinality(S), S)
  BY <1>3, <1>4, FS_Injection
<1>6. Elements(queue) = S
  BY <1>5 DEF Surjection, Elements
<1> QED BY <1>2, <1>6

(***************************************************************************)
(* What a finite set of workers holds one each, while one of them holds    *)
(* nothing, is less than the set.                                          *)
(***************************************************************************)
LEMMA RoomToStart ==
    ASSUME NEW S, IsFiniteSet(S), NEW spare \in S, NEW R, NEW holder \in [R -> S \ {spare}],
           \A t, u \in R : holder[t] = holder[u] => t = u
    PROVE  Cardinality(R) < Cardinality(S)
<1>1. /\ IsFiniteSet(S \ {spare}) /\ Cardinality(S) \in Nat
      /\ Cardinality(S \ {spare}) = Cardinality(S) - 1
  BY FS_RemoveElement, FS_CardinalityType
<1>2. holder \in Injection(R, S \ {spare})
  BY DEF Injection, IsInjective
<1>3. IsFiniteSet(R) /\ Cardinality(R) <= Cardinality(S \ {spare})
  BY <1>1, <1>2, FS_Injection
<1>4. Cardinality(R) \in Nat
  BY <1>3, FS_CardinalityType
<1> QED BY <1>1, <1>3, <1>4

(***************************************************************************)
(* The places of an element are finitely many, and none if it is not in    *)
(* the queue.                                                              *)
(***************************************************************************)
LEMMA PlacesFinite ==
    ASSUME NEW S, NEW queue \in Seq(S), NEW e
    PROVE  /\ At(queue, e) \subseteq 1..Len(queue) /\ IsFiniteSet(At(queue, e))
           /\ Cardinality(At(queue, e)) \in Nat
           /\ Cardinality(At(queue, e)) = 0 <=> e \notin Elements(queue)
<1>1. DOMAIN queue = 1..Len(queue) /\ Len(queue) \in Nat
  BY LenProperties
<1>2. At(queue, e) \subseteq 1..Len(queue)
  BY <1>1 DEF At
<1>3. IsFiniteSet(1..Len(queue))
  BY <1>1, FS_Interval
<1>4. IsFiniteSet(At(queue, e))
  BY <1>2, <1>3, FS_Subset
<1>5. At(queue, e) = {} <=> e \notin Elements(queue)
  BY DEF At, Elements
<1> QED BY <1>2, <1>4, <1>5, FS_CardinalityType, FS_EmptySet

(***************************************************************************)
(* Appending an element gives it one place more, and the others none.      *)
(***************************************************************************)
LEMMA AppendPlaces ==
    ASSUME NEW S, NEW queue \in Seq(S), NEW x \in S, NEW e
    PROVE  Cardinality(At(Append(queue, x), e))
             = Cardinality(At(queue, e)) + (IF e = x THEN 1 ELSE 0)
<1> DEFINE longer == Append(queue, x)
<1>1. /\ Len(queue) \in Nat /\ DOMAIN queue = 1..Len(queue)
      /\ DOMAIN longer = 1..(Len(queue) + 1)
      /\ \A i \in 1..Len(queue) : longer[i] = queue[i]
      /\ longer[Len(queue) + 1] = x
  BY AppendProperties, LenProperties
<1> HIDE DEF longer
<1>2. IsFiniteSet(At(queue, e)) /\ At(queue, e) \subseteq 1..Len(queue)
      /\ Cardinality(At(queue, e)) \in Nat
  BY PlacesFinite
<1>3. CASE e = x
  <2>1. At(longer, e) = At(queue, e) \cup {Len(queue) + 1}
    BY <1>1, <1>3 DEF At
  <2>2. Len(queue) + 1 \notin At(queue, e)
    BY <1>1, <1>2
  <2> QED BY <1>2, <1>3, <2>1, <2>2, FS_AddElement DEF longer
<1>4. CASE e # x
  <2>1. At(longer, e) = At(queue, e)
    BY <1>1, <1>4 DEF At
  <2> QED BY <1>2, <1>4, <2>1 DEF longer
<1> QED BY <1>3, <1>4

(***************************************************************************)
(* A set of places that is not empty has a first one.                      *)
(***************************************************************************)
LEMMA FirstPlace ==
    ASSUME NEW T, T \subseteq Nat, T # {}
    PROVE  /\ \E i \in T : \A j \in T : i <= j
           /\ (CHOOSE i \in T : \A j \in T : i <= j) \in T
<1>1. PICK i \in T : \A j \in T : <<j, i>> \notin OpToRel(<, Nat)
  BY NatLessThanWellFounded, WFMin, Zenon
<1>2. ASSUME NEW j \in T PROVE i <= j
  <2>1. ~ (j < i)
    BY <1>1 DEF OpToRel
  <2> QED BY <2>1
<1>3. \E k \in T : \A j \in T : k <= j
  BY <1>2
<1> QED BY <1>3

(***************************************************************************)
(* And a last one, when there is a bound.                                  *)
(***************************************************************************)
LEMMA LastPlace ==
    ASSUME NEW n \in Nat, NEW T, T \subseteq 1..n, T # {}
    PROVE  \E i \in T : \A j \in T : j <= i
<1> DEFINE mirror == {n - i : i \in T}
<1>1. mirror \subseteq Nat /\ mirror # {}
  <2>1. ASSUME NEW i \in T PROVE n - i \in Nat
    <3>1. i \in Int /\ i <= n
      OBVIOUS
    <3> QED BY <3>1
  <2>2. mirror \subseteq Nat
    BY <2>1, Zenon
  <2>3. PICK i : i \in T
    OBVIOUS
  <2>4. n - i \in mirror
    BY <2>3
  <2> QED BY <2>2, <2>4
<1>2. PICK m \in mirror : \A k \in mirror : m <= k
  BY <1>1, FirstPlace
<1>3. PICK i \in T : m = n - i
  OBVIOUS
<1>4. ASSUME NEW j \in T PROVE j <= i
  <2>1. n - i <= n - j
    BY <1>2, <1>3
  <2> QED BY <2>1
<1> QED BY <1>4

(***************************************************************************)
(* Taking an entry out closes the gap: those behind it move one place up.  *)
(***************************************************************************)
LEMMA WithoutShape ==
    ASSUME NEW S, NEW list \in Seq(S), NEW k \in DOMAIN list
    PROVE  /\ Without(list, k) \in Seq(S)
           /\ Len(Without(list, k)) = Len(list) - 1
           /\ DOMAIN Without(list, k) = 1..(Len(list) - 1)
           /\ \A i \in 1..(Len(list) - 1) :
                 Without(list, k)[i] = IF i < k THEN list[i] ELSE list[i + 1]
<1> DEFINE n == Len(list)
           front == SubSeq(list, 1, k - 1)
           back == SubSeq(list, k + 1, n)
<1>1. n \in Nat /\ k \in 1..n /\ \A i \in 1..n : list[i] \in S
  BY LenProperties
<1>2. /\ front \in Seq(S) /\ Len(front) = k - 1
      /\ \A i \in 1..(k - 1) : front[i] = list[i]
  <2>1. \A i \in 1..(k - 1) : list[i] \in S
    BY <1>1
  <2>2. 1 \in Int /\ k - 1 \in Int
    BY <1>1
  <2>3. /\ front \in Seq(S)
        /\ Len(front) = IF 1 <= k - 1 THEN (k - 1) - 1 + 1 ELSE 0
        /\ \A i \in 1..((k - 1) - 1 + 1) : front[i] = list[1 + i - 1]
    BY <2>1, <2>2, SubSeqProperties
  <2> QED BY <1>1, <2>3
<1>3. /\ back \in Seq(S) /\ Len(back) = n - k
      /\ \A i \in 1..(n - k) : back[i] = list[i + k]
  <2>1. \A i \in (k + 1)..n : list[i] \in S
    BY <1>1
  <2>2. k + 1 \in Int /\ n \in Int
    BY <1>1
  <2>3. /\ back \in Seq(S)
        /\ Len(back) = IF k + 1 <= n THEN n - (k + 1) + 1 ELSE 0
        /\ \A i \in 1..(n - (k + 1) + 1) : back[i] = list[(k + 1) + i - 1]
    BY <2>1, <2>2, SubSeqProperties
  <2> QED BY <1>1, <2>3
<1>4. Without(list, k) = front \o back
  BY DEF Without
<1> HIDE DEF n, front, back
<1>5. /\ front \o back \in Seq(S)
      /\ Len(front \o back) = (k - 1) + (n - k)
      /\ \A i \in 1..((k - 1) + (n - k)) :
            (front \o back)[i] = IF i <= k - 1 THEN front[i] ELSE back[i - (k - 1)]
  <2>1. front \in Seq(S) /\ back \in Seq(S)
    BY <1>2, <1>3
  <2>2. /\ front \o back \in Seq(S)
        /\ Len(front \o back) = Len(front) + Len(back)
        /\ \A i \in 1..(Len(front) + Len(back)) :
              (front \o back)[i] = IF i <= Len(front) THEN front[i] ELSE back[i - Len(front)]
    BY <2>1, ConcatProperties
  <2>3. Len(front) = k - 1 /\ Len(back) = n - k
    BY <1>2, <1>3
  <2> QED BY <2>2, <2>3
<1>6. ASSUME NEW i \in 1..(n - 1)
      PROVE  Without(list, k)[i] = IF i < k THEN list[i] ELSE list[i + 1]
  <2>1. Without(list, k)[i] = IF i <= k - 1 THEN front[i] ELSE back[i - (k - 1)]
    BY <1>1, <1>4, <1>5
  <2>2. CASE i < k
    BY <2>1, <2>2, <1>1, <1>2
  <2>3. CASE ~(i < k)
    <3>1. i - (k - 1) \in 1..(n - k) /\ (i - (k - 1)) + k = i + 1
      BY <2>3, <1>1
    <3> QED BY <2>1, <2>3, <3>1, <1>1, <1>3
  <2> QED BY <2>2, <2>3
<1>7. Len(Without(list, k)) = n - 1
  BY <1>1, <1>4, <1>5
<1> QED BY <1>4, <1>5, <1>6, <1>7, LenProperties DEF n

(***************************************************************************)
(* It takes one place from the element that is removed, and none from the  *)
(* others.                                                                 *)
(***************************************************************************)
LEMMA WithoutPlaces ==
    ASSUME NEW S, NEW list \in Seq(S), NEW k \in DOMAIN list, NEW e
    PROVE  Cardinality(At(Without(list, k), e))
             = Cardinality(At(list, e)) - (IF list[k] = e THEN 1 ELSE 0)
<1> DEFINE n == Len(list)
           shorter == Without(list, k)
           Before(i) == IF i < k THEN i ELSE i + 1
           place == [i \in At(shorter, e) |-> Before(i)]
<1>1. /\ n \in Nat /\ DOMAIN list = 1..n /\ k \in 1..n
      /\ DOMAIN shorter = 1..(n - 1)
      /\ \A i \in 1..(n - 1) : shorter[i] = list[Before(i)]
  BY WithoutShape, LenProperties
<1>2. At(list, e) \subseteq 1..n /\ IsFiniteSet(At(list, e))
      /\ Cardinality(At(list, e)) \in Nat
  BY PlacesFinite
<1>3. At(shorter, e) \subseteq 1..(n - 1) /\ IsFiniteSet(At(shorter, e))
  <2>1. shorter \in Seq(S) /\ Len(shorter) = n - 1
    BY WithoutShape
  <2> QED BY <2>1, PlacesFinite
<1> HIDE DEF n, shorter
<1>4. \A i \in At(shorter, e) : Before(i) \in At(list, e) \ {k}
  BY <1>1, <1>3 DEF At
<1>5. \A i, j \in At(shorter, e) : Before(i) = Before(j) => i = j
  BY <1>1, <1>3
<1>6. ASSUME NEW j \in At(list, e) \ {k}
      PROVE  \E i \in At(shorter, e) : Before(i) = j
  <2>1. j \in 1..n /\ j # k /\ list[j] = e
    BY <1>1, <1>6 DEF At
  <2>2. CASE j < k
    <3>1. j \in 1..(n - 1) /\ Before(j) = j
      BY <2>1, <2>2, <1>1
    <3>2. j \in At(shorter, e)
      BY <3>1, <2>1, <1>1 DEF At
    <3> QED BY <3>1, <3>2
  <2>3. CASE ~(j < k)
    <3>1. j - 1 \in 1..(n - 1) /\ Before(j - 1) = j
      BY <2>1, <2>3, <1>1
    <3>2. j - 1 \in At(shorter, e)
      BY <3>1, <2>1, <1>1 DEF At
    <3> QED BY <3>1, <3>2
  <2> QED BY <2>2, <2>3
<1>7. place \in Bijection(At(shorter, e), At(list, e) \ {k})
  BY <1>4, <1>5, <1>6 DEF Bijection, Injection, Surjection, IsInjective
<1>8. Cardinality(At(list, e) \ {k}) = Cardinality(At(shorter, e))
  BY <1>3, <1>7, FS_Bijection DEF ExistsBijection
<1>9. k \in At(list, e) <=> list[k] = e
  BY <1>1 DEF At
<1>10. Cardinality(At(list, e) \ {k})
         = IF k \in At(list, e) THEN Cardinality(At(list, e)) - 1 ELSE Cardinality(At(list, e))
  BY <1>2, FS_RemoveElement
<1>11. Cardinality(At(shorter, e)) = Cardinality(At(list, e)) - (IF list[k] = e THEN 1 ELSE 0)
  BY <1>2, <1>8, <1>9, <1>10
<1> QED BY <1>11 DEF shorter

=============================================================================
