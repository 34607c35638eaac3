--------------------------- MODULE Spawner_proofs ---------------------------
(***************************************************************************)
(* Proofs about the Spawner for any instances, any number of attempts and  *)
(* any number of lost answers.                                             *)
(*                                                                         *)
(* SpawnerInv is inductive.  To what ListSound states it adds the phases   *)
(* of the boot (nobody answers for the spawner until it listens, and it    *)
(* registers itself once), the count of Ready commands (registered or      *)
(* queued, never more than were sent, and none by a process that is not    *)
(* up), and what is left to do for those that kill_all took from the list. *)
(***************************************************************************)
EXTENDS Spawner, QueueLemmas

\* What a phase of the main thread says about the listener, the logger and the suspect.
Phases ==
    /\ heartbeat \in {"spawn_logger", "boot_ping", "listen"} => listener = "off"
    /\ heartbeat \in {"spawn_logger", "boot_ping", "listen", "register"} => registered[Self] = 0
    /\ heartbeat = "spawn_logger" => proc[Logger] = "absent"
    /\ (suspect = None) <=> (heartbeat \notin {"remove", "typing", "readd"})
    /\ suspect # None => registered[suspect] > 0

\* A Ready command is queued or was handled only if it was sent, by a process that is up.
ReadyCounted ==
    /\ inflight[Self] = 0
    /\ \A u \in Instances \ {Self} : registered[u] + inflight[u] <= sent[u]
    /\ \A u \in Instances : proc[u] \in {"absent", "starting"} => sent[u] = 0

\* A condemned instance that answers everything is killed, or still to be.
CondemnedKept ==
    listener = "killing" =>
        \A u \in condemned :
            /\ u # Self /\ proc[u] \in {"up", "dying", "dead"}
            /\ ExitsOnKill(u) /\ u \notin missed =>
                  proc[u] \in {"dying", "dead"} \/ u \in Elements(doomed)

SpawnerInv ==
    /\ SpawnerTypeOK
    /\ EntriesConserved
    /\ ReliableInstancesListed
    /\ NoSuicideAtBoot
    /\ Phases
    /\ ReadyCounted
    /\ CondemnedKept

-----------------------------------------------------------------------------
(* Lemmas about the list *)

(***************************************************************************)
(* remove_instance takes off one entry of the instance, if there is one,   *)
(* and nothing of anybody else.                                            *)
(***************************************************************************)
LEMMA RemoveInstanceEntries ==
    ASSUME NEW S, NEW list \in Seq(S), NEW u
    PROVE  /\ RemoveInstance(list, u) \in Seq(S)
           /\ \A v : Entries(RemoveInstance(list, u), v)
                       = Entries(list, v)
                         - (IF v = u /\ u \in Elements(list) THEN 1 ELSE 0)
           /\ \A v : v # u => (v \in Elements(RemoveInstance(list, u)) <=> v \in Elements(list))
<1>a. \A q, v : Entries(q, v) = Cardinality(At(q, v))
  BY DEF Entries, At
<1>b. \A v : Cardinality(At(list, v)) \in Nat
  BY PlacesFinite
<1>1. CASE At(list, u) = {}
  <2>1. RemoveInstance(list, u) = list
    BY <1>1 DEF RemoveInstance, At
  <2>2. u \notin Elements(list)
    BY <1>1 DEF At, Elements
  <2> QED BY <1>a, <1>b, <2>1, <2>2
<1>2. CASE At(list, u) # {}
  <2>1. At(list, u) \subseteq 1..Len(list) /\ Len(list) \in Nat
    BY PlacesFinite, LenProperties
  <2>2. \E i \in At(list, u) : \A j \in At(list, u) : j <= i
    BY <1>2, <2>1, LastPlace
  <2>3. PICK k : k = CHOOSE i \in At(list, u) : \A j \in At(list, u) : j <= i
    OBVIOUS
  <2>4. k \in At(list, u)
    BY <2>2, <2>3
  <2>5. RemoveInstance(list, u) = RemoveAt(list, k)
    BY <1>2, <2>3 DEF RemoveInstance, At
  <2>6. k \in DOMAIN list /\ list[k] = u /\ u \in Elements(list)
    BY <2>4 DEF At, Elements
  <2>a. RemoveAt(list, k) = Without(list, k)
    BY DEF RemoveAt, Without
  <2>7. RemoveAt(list, k) \in Seq(S)
    BY <2>6, <2>a, WithoutShape
  <2>8. \A v : Cardinality(At(RemoveAt(list, k), v))
                 = Cardinality(At(list, v)) - (IF v = u THEN 1 ELSE 0)
    BY <2>6, <2>a, WithoutPlaces
  <2>9. ASSUME NEW v, v # u
        PROVE  v \in Elements(RemoveAt(list, k)) <=> v \in Elements(list)
    <3>1. Cardinality(At(RemoveAt(list, k), v)) = Cardinality(At(list, v))
      BY <2>8, <2>9, <1>b
    <3>2. Cardinality(At(list, v)) = 0 <=> v \notin Elements(list)
      BY PlacesFinite
    <3>3. Cardinality(At(RemoveAt(list, k), v)) = 0 <=> v \notin Elements(RemoveAt(list, k))
      BY <2>7, PlacesFinite
    <3> QED BY <3>1, <3>2, <3>3
  <2> QED BY <1>a, <2>5, <2>6, <2>7, <2>8, <2>9
<1> QED BY <1>1, <1>2
(***************************************************************************)
(* The number of entries, and how it changes.                              *)
(***************************************************************************)
LEMMA EntriesCounted ==
    ASSUME NEW S, NEW list \in Seq(S), NEW v
    PROVE  /\ Entries(list, v) \in Nat
           /\ Entries(list, v) = 0 <=> v \notin Elements(list)
           /\ \A u \in S : Entries(Append(list, u), v)
                             = Entries(list, v) + (IF v = u THEN 1 ELSE 0)
<1>1. \A q : Entries(q, v) = Cardinality(At(q, v))
  BY DEF Entries, At
<1> QED BY <1>1, PlacesFinite, AppendPlaces

\* Nobody has an entry in the empty list.
LEMMA NoEntries == \A v : Entries(<<>>, v) = 0
<1> SUFFICES ASSUME NEW v PROVE Entries(<<>>, v) = 0
  OBVIOUS
<1>1. <<>> \in Seq({v})
  BY EmptySeq
<1>2. Elements(<<>>) = {}
  BY <1>1, ElementsType
<1> QED BY <1>1, <1>2, EntriesCounted

\* Listed is membership.
LEMMA ListedIsElement == \A u : Listed(u) <=> u \in Elements(living)
  BY DEF Listed, Elements

\* What the proofs need of the assumption on the constants.
LEMMA ConstantFacts ==
    /\ Self \in Instances /\ Logger \in Instances /\ Self # Logger /\ None \notin Instances
    /\ MaxReady \in Nat \ {0} /\ MaxLost \in Nat
  BY SpawnerAssumption DEF Instances

\* There are finitely many instances.
LEMMA InstancesFinite == IsFiniteSet(Instances)
<1>1. Instances = (Others \cup {Self}) \cup {Logger}
  BY DEF Instances
<1> QED BY <1>1, SpawnerAssumption, FS_AddElement

(***************************************************************************)
(* What is lost in a broadcast still fits under MaxLost, only those who    *)
(* could answer do, and whoever could and does not has missed it.          *)
(***************************************************************************)
LEMMA PingAllFacts ==
    ASSUME SpawnerTypeOK, NEW got \in SUBSET Instances, PingAll(got)
    PROVE  /\ lost' \in 0..MaxLost /\ missed' \in SUBSET Instances /\ missed \subseteq missed'
           /\ \A u \in got : Responsive(u)
           /\ \A u \in Instances : Responsive(u) => u \in got \/ u \in missed'
<1> DEFINE silent == {u \in Instances : Responsive(u)} \ got
<1>1. /\ lost + Cardinality(silent) <= MaxLost /\ lost' = lost + Cardinality(silent)
      /\ missed' = missed \cup silent /\ got \subseteq {u \in Instances : Responsive(u)}
  BY DEF PingAll
<1>2. silent \in SUBSET Instances
  OBVIOUS
<1>3. Cardinality(silent) \in Nat
  BY <1>2, InstancesFinite, FS_Subset, FS_CardinalityType
<1>4. \A u \in Instances : Responsive(u) => u \in got \/ u \in silent
  OBVIOUS
<1> HIDE DEF silent
<1>5. lost \in Nat /\ MaxLost \in Nat /\ missed \in SUBSET Instances
  BY ConstantFacts DEF SpawnerTypeOK
<1>6. lost' \in 0..MaxLost
  BY <1>1, <1>3, <1>5
<1> QED BY <1>1, <1>2, <1>4, <1>5, <1>6

(***************************************************************************)
(* An instance that is not up yet was not registered.                      *)
(***************************************************************************)
LEMMA UnstartedUnregistered ==
    ASSUME SpawnerTypeOK, ReadyCounted, NEW u \in Instances \ {Self},
           proc[u] \in {"absent", "starting"}
    PROVE  registered[u] = 0 /\ inflight[u] = 0
<1>1. registered[u] + inflight[u] <= sent[u] /\ sent[u] = 0
  BY DEF ReadyCounted
<1>2. registered[u] \in Nat /\ inflight[u] \in Nat
  BY ConstantFacts DEF SpawnerTypeOK
<1> QED BY <1>1, <1>2

(***************************************************************************)
(* A Kill that is handled: the process exits unless it is an optimizer's,  *)
(* and can still be reached until then.                                    *)
(***************************************************************************)
LEMMA KilledFacts ==
    ASSUME SpawnerTypeOK, NEW u \in Instances, u # Self, Responsive(u), proc' = Killed(u)
    PROVE  /\ proc' \in [Instances -> {"absent", "starting", "up", "dying", "dead"}]
           /\ \A v \in Instances \ {u} : proc'[v] = proc[v]
           /\ proc[u] \in {"up", "dying"} /\ proc'[u] \in {"up", "dying"}
           /\ ExitsOnKill(u) => proc'[u] = "dying"
<1>1. proc \in [Instances -> {"absent", "starting", "up", "dying", "dead"}]
  BY DEF SpawnerTypeOK
<1>2. proc[u] \in {"up", "dying"}
  BY DEF Responsive
<1> QED BY <1>1, <1>2 DEF Killed

-----------------------------------------------------------------------------
(* Every step keeps SpawnerInv: one lemma for each action of the Spawner *)

\* A process that comes up was not registered while it started.
LEMMA BootKeeps ==
    ASSUME SpawnerInv, UNCHANGED optimizers, NEW u \in Instances, Boot(u)
    PROVE  SpawnerInv'
<1> USE ConstantFacts DEF Responsive, Locked, ExitsOnKill,
        main, listening, history, Boot, SpawnerInv
<1>1. SpawnerTypeOK'
  BY DEF SpawnerTypeOK, ReadyCounted, Phases, Killed
<1>2. EntriesConserved'
  BY DEF EntriesConserved, Phases
<1>3. ReliableInstancesListed'
  <2>1. u # Self => registered[u] = 0
    <3> SUFFICES ASSUME u # Self PROVE registered[u] = 0
      OBVIOUS
    <3>1. proc[u] \in {"absent", "starting"} /\ SpawnerTypeOK /\ ReadyCounted
      OBVIOUS
    <3> QED BY <3>1, UnstartedUnregistered
  <2> QED BY SMTT(30), <2>1 DEF ReliableInstancesListed, SpawnerTypeOK, Listed
<1>4. NoSuicideAtBoot'
  BY DEF NoSuicideAtBoot, Phases
<1>5. Phases'
  BY DEF Phases, ReadyCounted
<1>6. ReadyCounted'
  BY DEF ReadyCounted, Phases, SpawnerTypeOK
<1>7. CondemnedKept'
  BY DEF CondemnedKept, ReadyCounted, SpawnerTypeOK, Phases
<1> QED BY <1>1, <1>2, <1>3, <1>4, <1>5, <1>6, <1>7

\* A Ready command more is sent, and at most one more is queued.
LEMMA SendReadyKeeps ==
    ASSUME SpawnerInv, UNCHANGED optimizers, NEW u \in Instances, SendReady(u)
    PROVE  SpawnerInv'
<1> USE ConstantFacts DEF Responsive, Locked, ExitsOnKill,
        main, listening, history, SendReady, SpawnerInv
<1>a. /\ sent \in [Instances -> 0..MaxReady] /\ inflight \in [Instances -> 0..MaxReady]
      /\ registered \in [Instances -> 0..MaxReady] /\ 0..MaxReady \subseteq Nat
  BY SMTT(30) DEF SpawnerTypeOK
<1>b. /\ sent'[u] = sent[u] + 1 /\ inflight'[u] <= inflight[u] + 1
      /\ \A v \in Instances \ {u} : sent'[v] = sent[v] /\ inflight'[v] = inflight[v]
  BY <1>a
<1>1. SpawnerTypeOK'
  <2>1. /\ MaxReady \in Nat \ {0} /\ sent[u] \in 0..MaxReady /\ inflight[u] \in 0..MaxReady
        /\ registered[u] \in 0..MaxReady /\ registered[u] + inflight[u] <= sent[u]
    BY DEF SpawnerTypeOK, ReadyCounted
  <2>2. sent[u] < MaxReady
    BY <2>1
  <2>3. sent[u] + 1 \in 0..MaxReady /\ inflight[u] + 1 \in 0..MaxReady
    BY <2>1, <2>2
  <2>4. sent' \in [Instances -> 0..MaxReady] /\ inflight' \in [Instances -> 0..MaxReady]
    BY <2>3 DEF SpawnerTypeOK
  <2> QED BY <2>4 DEF SpawnerTypeOK
<1>2. EntriesConserved'
  BY DEF EntriesConserved, Phases
<1>3. ReliableInstancesListed'
  BY DEF ReliableInstancesListed, Phases, ReadyCounted, Listed
<1>4. NoSuicideAtBoot'
  BY DEF NoSuicideAtBoot, Phases
<1>5. Phases'
  BY DEF Phases, ReadyCounted
<1>6. ReadyCounted'
  <2>1. inflight'[Self] = 0
    BY <1>b DEF ReadyCounted
  <2>2. ASSUME NEW v \in Instances \ {Self}
        PROVE  registered[v] + inflight'[v] <= sent'[v]
    <3>1. registered[v] + inflight[v] <= sent[v]
      BY DEF ReadyCounted
    <3>2. registered[v] \in Nat /\ inflight[v] \in Nat /\ sent[v] \in Nat /\ inflight'[v] \in Int
      BY <1>a
    <3> QED BY <1>b, <3>1, <3>2
  <2>3. ASSUME NEW v \in Instances, proc[v] \in {"absent", "starting"} PROVE sent'[v] = 0
    BY <1>b, <2>3 DEF ReadyCounted
  <2> QED BY <2>1, <2>2, <2>3 DEF ReadyCounted
<1>7. CondemnedKept'
  BY DEF CondemnedKept, ReadyCounted, SpawnerTypeOK, Phases
<1> QED BY <1>1, <1>2, <1>3, <1>4, <1>5, <1>6, <1>7

\* The three seconds after a Kill are over: the process cannot be reached any more.
LEMMA ExitKeeps ==
    ASSUME SpawnerInv, UNCHANGED optimizers, NEW u \in Instances, Exit(u)
    PROVE  SpawnerInv'
<1> USE ConstantFacts DEF Responsive, Locked, ExitsOnKill,
        main, listening, history, Exit, SpawnerInv
<1>1. SpawnerTypeOK'
  BY DEF SpawnerTypeOK, ReadyCounted, Phases, Killed
<1>2. EntriesConserved'
  BY DEF EntriesConserved, Phases
<1>3. ReliableInstancesListed'
  BY DEF ReliableInstancesListed, Phases, ReadyCounted, Listed
<1>4. NoSuicideAtBoot'
  BY DEF NoSuicideAtBoot, Phases
<1>5. Phases'
  BY DEF Phases, ReadyCounted
<1>6. ReadyCounted'
  BY DEF ReadyCounted, Phases, SpawnerTypeOK
<1>7. CondemnedKept'
  BY DEF CondemnedKept, ReadyCounted, SpawnerTypeOK, Phases
<1> QED BY <1>1, <1>2, <1>3, <1>4, <1>5, <1>6, <1>7

\* A process dies of itself.
LEMMA CrashKeeps ==
    ASSUME SpawnerInv, UNCHANGED optimizers, NEW u \in Instances, Crash(u)
    PROVE  SpawnerInv'
<1> USE ConstantFacts DEF Responsive, Locked, ExitsOnKill,
        main, listening, history, Crash, SpawnerInv
<1>1. SpawnerTypeOK'
  BY DEF SpawnerTypeOK, ReadyCounted, Phases, Killed
<1>2. EntriesConserved'
  BY DEF EntriesConserved, Phases
<1>3. ReliableInstancesListed'
  BY DEF ReliableInstancesListed, Phases, ReadyCounted, Listed
<1>4. NoSuicideAtBoot'
  BY DEF NoSuicideAtBoot, Phases
<1>5. Phases'
  BY DEF Phases, ReadyCounted
<1>6. ReadyCounted'
  BY DEF ReadyCounted, Phases, SpawnerTypeOK
<1>7. CondemnedKept'
  BY DEF CondemnedKept, ReadyCounted, SpawnerTypeOK, Phases
<1> QED BY <1>1, <1>2, <1>3, <1>4, <1>5, <1>6, <1>7

\* The logger is started when nothing else has happened.
LEMMA SpawnLoggerKeeps ==
    ASSUME SpawnerInv, UNCHANGED optimizers, SpawnLogger
    PROVE  SpawnerInv'
<1> USE ConstantFacts DEF Responsive, Locked, ExitsOnKill,
        main, listening, history, SpawnLogger, SpawnerInv
<1>1. SpawnerTypeOK'
  BY DEF SpawnerTypeOK, ReadyCounted, Phases, Killed
<1>2. EntriesConserved'
  BY DEF EntriesConserved, Phases
<1>3. ReliableInstancesListed'
  BY DEF ReliableInstancesListed, Phases, ReadyCounted, Listed
<1>4. NoSuicideAtBoot'
  BY DEF NoSuicideAtBoot, Phases
<1>5. Phases'
  BY DEF Phases, ReadyCounted
<1>6. ReadyCounted'
  BY DEF ReadyCounted, Phases, SpawnerTypeOK
<1>7. CondemnedKept'
  BY DEF CondemnedKept, ReadyCounted, SpawnerTypeOK, Phases
<1> QED BY <1>1, <1>2, <1>3, <1>4, <1>5, <1>6, <1>7

\* The first broadcast: the spawner does not answer, so it is no straggler.
LEMMA FindStragglersKeeps ==
    ASSUME SpawnerInv, UNCHANGED optimizers, FindStragglers
    PROVE  SpawnerInv'
<1> USE ConstantFacts DEF Responsive, Locked, ExitsOnKill,
        main, listening, history, FindStragglers, SpawnerInv
<1>a. PICK got \in SUBSET Instances : PingAll(got) /\ stragglers' = got
  OBVIOUS
<1>b. /\ lost' \in 0..MaxLost /\ missed' \in SUBSET Instances /\ missed \subseteq missed'
      /\ \A v \in got : Responsive(v)
  BY <1>a, PingAllFacts
<1>1. SpawnerTypeOK'
  BY <1>a, <1>b DEF SpawnerTypeOK
<1>2. EntriesConserved'
  BY DEF EntriesConserved, Phases
<1>3. ReliableInstancesListed'
  BY <1>b DEF ReliableInstancesListed, Listed
<1>4. NoSuicideAtBoot'
  BY <1>a, <1>b DEF NoSuicideAtBoot, Phases
<1>5. Phases'
  BY DEF Phases, ReadyCounted
<1>6. ReadyCounted'
  BY DEF ReadyCounted, Phases, SpawnerTypeOK
<1>7. CondemnedKept'
  BY <1>b DEF CondemnedKept
<1> QED BY <1>1, <1>2, <1>3, <1>4, <1>5, <1>6, <1>7

\* A straggler is another instance: it is killed, gone, or its answer is lost.
LEMMA KillStragglerKeeps ==
    ASSUME SpawnerInv, UNCHANGED optimizers, NEW u \in Instances, KillStraggler(u)
    PROVE  SpawnerInv'
<1> USE ConstantFacts DEF Responsive, Locked,
        main, listening, history, KillStraggler, SpawnerInv
<1>a. u # Self
  BY DEF NoSuicideAtBoot
<1>b. /\ proc' \in [Instances -> {"absent", "starting", "up", "dying", "dead"}]
      /\ \A v \in Instances : \/ proc'[v] = proc[v]
                              \/ proc[v] \in {"up", "dying"} /\ proc'[v] \in {"up", "dying"}
  <2>1. CASE Responsive(u) /\ proc' = Killed(u)
    BY <1>a, <2>1, KilledFacts
  <2>2. CASE proc' = proc
    BY <2>2 DEF SpawnerTypeOK
  <2> QED BY <2>1, <2>2
<1>c. lost' \in 0..MaxLost /\ missed' \in SUBSET Instances /\ missed \subseteq missed'
  <2>1. lost \in 0..MaxLost /\ missed \in SUBSET Instances
    BY DEF SpawnerTypeOK
  <2>2. (UNCHANGED <<missed, lost>>)
        \/ (lost < MaxLost /\ lost' = lost + 1 /\ missed' = missed \cup {u})
    OBVIOUS
  <2> QED BY <2>1, <2>2
<1>1. SpawnerTypeOK'
  BY <1>b, <1>c DEF SpawnerTypeOK
<1>2. EntriesConserved'
  BY DEF EntriesConserved, Phases
<1>3. ReliableInstancesListed'
  <2>1. \A v \in Instances \ {Self} : Responsive(v)' => Responsive(v)
    BY <1>b
  <2> QED BY <1>c, <2>1 DEF ReliableInstancesListed, Listed
<1>4. NoSuicideAtBoot'
  BY DEF NoSuicideAtBoot, Phases
<1>5. Phases'
  <2>1. proc[Logger] = "absent" => proc'[Logger] = "absent"
    BY <1>b
  <2> QED BY <2>1 DEF Phases
<1>6. ReadyCounted'
  BY <1>b DEF ReadyCounted
<1>7. CondemnedKept'
  <2>0. \A v : ExitsOnKill(v)' <=> ExitsOnKill(v)
    BY DEF ExitsOnKill
  <2>1. CASE Responsive(u) /\ proc' = Killed(u)
    <3>1. /\ \A v \in Instances \ {u} : proc'[v] = proc[v]
          /\ proc'[u] \in {"up", "dying"}
          /\ ExitsOnKill(u) => proc'[u] = "dying"
      BY <1>a, <2>1, KilledFacts
    <3> QED BY <1>b, <1>c, <2>0, <3>1 DEF CondemnedKept, SpawnerTypeOK
  <2>2. CASE proc' = proc
    BY <1>c, <2>0, <2>2 DEF CondemnedKept, SpawnerTypeOK
  <2> QED BY <2>1, <2>2
<1> QED BY <1>1, <1>2, <1>3, <1>4, <1>5, <1>6, <1>7

\* The listener thread starts before anything is registered.
LEMMA ListenKeeps ==
    ASSUME SpawnerInv, UNCHANGED optimizers, Listen
    PROVE  SpawnerInv'
<1> USE ConstantFacts DEF Responsive, Locked, ExitsOnKill,
        main, listening, history, Listen, SpawnerInv
<1>1. SpawnerTypeOK'
  BY DEF SpawnerTypeOK, ReadyCounted, Phases, Killed
<1>2. EntriesConserved'
  BY DEF EntriesConserved, Phases
<1>3. ReliableInstancesListed'
  BY DEF ReliableInstancesListed, Phases, ReadyCounted, Listed
<1>4. NoSuicideAtBoot'
  BY DEF NoSuicideAtBoot, Phases
<1>5. Phases'
  BY DEF Phases, ReadyCounted
<1>6. ReadyCounted'
  BY DEF ReadyCounted, Phases, SpawnerTypeOK
<1>7. CondemnedKept'
  BY DEF CondemnedKept, ReadyCounted, SpawnerTypeOK, Phases
<1> QED BY <1>1, <1>2, <1>3, <1>4, <1>5, <1>6, <1>7

\* The spawner enters itself once.
LEMMA RegisterSelfKeeps ==
    ASSUME SpawnerInv, UNCHANGED optimizers, RegisterSelf
    PROVE  SpawnerInv'
<1> USE ConstantFacts DEF Responsive, Locked, ExitsOnKill,
        main, listening, history, RegisterSelf, SpawnerInv
<1>a. /\ living \in Seq(Instances) /\ Self \in Instances /\ suspect = None
      /\ registered \in [Instances -> 0..MaxReady] /\ registered[Self] = 0
  BY DEF SpawnerTypeOK, Phases
<1>b. \A v \in Instances : /\ Entries(living, v) \in Nat
                           /\ Entries(living', v) = Entries(living, v) + (IF v = Self THEN 1 ELSE 0)
  BY <1>a, EntriesCounted
<1>c. \A v : Listed(v) => Listed(v)'
  BY SMTT(30), <1>a, AppendElements DEF Listed, Elements
<1>1. SpawnerTypeOK'
  BY DEF SpawnerTypeOK, ReadyCounted, Phases
<1>2. EntriesConserved'
  <2>1. ASSUME NEW v \in Instances PROVE Entries(living, v) <= registered[v]
    <3>1. Entries(living, v) + 0 <= registered[v]
      BY DEF EntriesConserved
    <3> QED BY <1>a, <1>b, <3>1
  <2>2. SUFFICES ASSUME NEW v \in Instances PROVE Entries(living', v) + 0 <= registered'[v]
    BY DEF EntriesConserved
  <2>3. /\ registered'[v] = IF v = Self THEN 1 ELSE registered[v]
        /\ v = Self => registered[v] = 0
    BY <1>a
  <2> QED BY <1>a, <1>b, <2>1, <2>3
<1>3. ReliableInstancesListed'
  BY DEF ReliableInstancesListed, Phases, ReadyCounted, Listed
<1>4. NoSuicideAtBoot'
  BY DEF NoSuicideAtBoot, Phases
<1>5. Phases'
  BY DEF Phases, ReadyCounted
<1>6. ReadyCounted'
  BY DEF ReadyCounted, Phases, SpawnerTypeOK
<1>7. CondemnedKept'
  BY DEF CondemnedKept, ReadyCounted, SpawnerTypeOK, Phases
<1> QED BY <1>1, <1>2, <1>3, <1>4, <1>5, <1>6, <1>7

\* A broadcast: whoever could answer and does not has missed it.
LEMMA PingHeartbeatKeeps ==
    ASSUME SpawnerInv, UNCHANGED optimizers, PingHeartbeat
    PROVE  SpawnerInv'
<1> USE ConstantFacts DEF Responsive, Locked, ExitsOnKill,
        main, listening, history, PingHeartbeat, SpawnerInv
<1>a. PICK got \in SUBSET Instances : PingAll(got) /\ answered' = got
  OBVIOUS
<1>b. /\ lost' \in 0..MaxLost /\ missed' \in SUBSET Instances /\ missed \subseteq missed'
      /\ \A v \in got : Responsive(v)
  BY <1>a, PingAllFacts
<1>1. SpawnerTypeOK'
  BY <1>a, <1>b DEF SpawnerTypeOK
<1>2. EntriesConserved'
  BY DEF EntriesConserved, Phases
<1>3. ReliableInstancesListed'
  BY <1>b DEF ReliableInstancesListed, Listed
<1>4. NoSuicideAtBoot'
  BY DEF NoSuicideAtBoot, Phases
<1>5. Phases'
  BY DEF Phases, ReadyCounted
<1>6. ReadyCounted'
  BY DEF ReadyCounted, Phases, SpawnerTypeOK
<1>7. CondemnedKept'
  BY <1>b DEF CondemnedKept
<1> QED BY <1>1, <1>2, <1>3, <1>4, <1>5, <1>6, <1>7

\* The suspect is in the list, so it was registered.
LEMMA GetMissingInstanceKeeps ==
    ASSUME SpawnerInv, UNCHANGED optimizers, GetMissingInstance
    PROVE  SpawnerInv'
<1> USE ConstantFacts DEF Responsive, Locked, ExitsOnKill,
        main, listening, history, GetMissingInstance, SpawnerInv
<1> DEFINE missing == {i \in DOMAIN living : living[i] \notin answered}
<1>a. living \in Seq(Instances) /\ DOMAIN living = 1..Len(living) /\ Len(living) \in Nat
      /\ \A i \in DOMAIN living : living[i] \in Instances
  BY LenProperties DEF SpawnerTypeOK
<1>b. \/ heartbeat' = "rest" /\ suspect' = suspect
      \/ heartbeat' = "remove" /\ suspect' \in Instances /\ Listed(suspect')
  <2>1. CASE missing = {}
    BY <2>1
  <2>2. CASE missing # {}
    <3>1. missing \subseteq Nat
      BY <1>a
    <3>2. PICK first : first = CHOOSE i \in missing : \A j \in missing : i <= j
      OBVIOUS
    <3>3. suspect' = living[first] /\ heartbeat' = "remove"
      BY <2>2, <3>2
    <3>4. first \in missing
      BY <2>2, <3>1, <3>2, FirstPlace
    <3> QED BY <1>a, <3>3, <3>4 DEF Listed
  <2> QED BY <2>1, <2>2
<1>c. \A v \in Instances : Listed(v) => registered[v] > 0
  <2> SUFFICES ASSUME NEW v \in Instances, Listed(v) PROVE registered[v] > 0
    OBVIOUS
  <2>1. Entries(living, v) \in Nat /\ Entries(living, v) # 0
    BY <1>a, EntriesCounted, ListedIsElement
  <2>2. Entries(living, v) <= registered[v] /\ registered[v] \in Nat
    BY <2>1 DEF EntriesConserved, SpawnerTypeOK
  <2> QED BY <2>1, <2>2
<1>1. SpawnerTypeOK'
  BY <1>b DEF SpawnerTypeOK
<1>2. EntriesConserved'
  BY DEF EntriesConserved, Phases
<1>3. ReliableInstancesListed'
  BY DEF ReliableInstancesListed, Phases, ReadyCounted, Listed
<1>4. NoSuicideAtBoot'
  BY DEF NoSuicideAtBoot, Phases
<1>5. Phases'
  <2>1. suspect = None /\ None \notin Instances
    BY InstancesFinite DEF Phases
  <2> QED BY <1>b, <1>c, <2>1 DEF Phases
<1>6. ReadyCounted'
  BY DEF ReadyCounted, Phases, SpawnerTypeOK
<1>7. CondemnedKept'
  BY DEF CondemnedKept, ReadyCounted, SpawnerTypeOK, Phases
<1> QED BY <1>1, <1>2, <1>3, <1>4, <1>5, <1>6, <1>7

\* One entry of the suspect becomes the one that is looked into.
LEMMA DeregisterSuspectKeeps ==
    ASSUME SpawnerInv, UNCHANGED optimizers, DeregisterSuspect
    PROVE  SpawnerInv'
<1> USE ConstantFacts DEF Responsive, Locked, ExitsOnKill,
        main, listening, history, DeregisterSuspect, SpawnerInv
<1>a. /\ living \in Seq(Instances) /\ suspect \in Instances /\ registered[suspect] > 0
      /\ registered \in [Instances -> 0..MaxReady]
  BY DEF SpawnerTypeOK, Phases
<1>b. /\ living' \in Seq(Instances)
      /\ \A v \in Instances : Entries(living', v) = Entries(living, v)
                             - (IF v = suspect /\ suspect \in Elements(living) THEN 1 ELSE 0)
      /\ \A v \in Instances \ {suspect} : v \in Elements(living') <=> v \in Elements(living)
  BY <1>a, RemoveInstanceEntries
<1>c. \A v \in Instances : /\ Entries(living, v) \in Nat
                           /\ Entries(living, v) = 0 <=> v \notin Elements(living)
                           /\ Entries(living, v) <= registered[v]
  <2> SUFFICES ASSUME NEW v \in Instances
               PROVE  /\ Entries(living, v) \in Nat
                      /\ Entries(living, v) = 0 <=> v \notin Elements(living)
                      /\ Entries(living, v) <= registered[v]
    OBVIOUS
  <2>1. Entries(living, v) \in Nat /\ (Entries(living, v) = 0 <=> v \notin Elements(living))
    BY <1>a, EntriesCounted
  <2>2. Entries(living, v) <= registered[v]
    BY <2>1 DEF EntriesConserved
  <2> QED BY <2>1, <2>2
<1>1. SpawnerTypeOK'
  BY <1>b DEF SpawnerTypeOK
<1>2. EntriesConserved'
  <2> SUFFICES ASSUME NEW v \in Instances
               PROVE  Entries(living', v) + (IF v = suspect THEN 1 ELSE 0) <= registered[v]
    BY DEF EntriesConserved
  <2>1. registered[v] \in Nat
    BY <1>a
  <2> QED BY <1>a, <1>b, <1>c, <2>1
<1>3. ReliableInstancesListed'
  <2>1. \A v \in Instances \ {suspect} : Listed(v)' <=> Listed(v)
    BY <1>b DEF Listed, Elements
  <2> QED BY <2>1 DEF ReliableInstancesListed
<1>4. NoSuicideAtBoot'
  BY DEF NoSuicideAtBoot, Phases
<1>5. Phases'
  BY DEF Phases, ReadyCounted
<1>6. ReadyCounted'
  BY DEF ReadyCounted, Phases, SpawnerTypeOK
<1>7. CondemnedKept'
  BY DEF CondemnedKept, ReadyCounted, SpawnerTypeOK, Phases
<1> QED BY <1>1, <1>2, <1>3, <1>4, <1>5, <1>6, <1>7

\* The suspect is still taken into account while it is on its way back.
LEMMA TypeAnsweredKeeps ==
    ASSUME SpawnerInv, UNCHANGED optimizers, TypeAnswered
    PROVE  SpawnerInv'
<1> USE ConstantFacts DEF Responsive, Locked, ExitsOnKill,
        main, listening, history, TypeAnswered, SpawnerInv
<1>1. SpawnerTypeOK'
  BY DEF SpawnerTypeOK
<1>2. EntriesConserved' /\ ReliableInstancesListed' /\ NoSuicideAtBoot'
  BY DEF EntriesConserved, ReliableInstancesListed, NoSuicideAtBoot, Listed, Phases
<1>3. Phases' /\ ReadyCounted' /\ CondemnedKept'
  BY DEF Phases, ReadyCounted, CondemnedKept
<1> QED BY <1>1, <1>2, <1>3

\* The entry that is looked into goes back to the list.
LEMMA AddAgainKeeps ==
    ASSUME SpawnerInv, UNCHANGED optimizers, AddAgain
    PROVE  SpawnerInv'
<1> USE ConstantFacts DEF Responsive, Locked, ExitsOnKill,
        main, listening, history, AddAgain, SpawnerInv
<1>a. living \in Seq(Instances) /\ suspect \in Instances
  BY DEF SpawnerTypeOK, Phases
<1>b. \A v \in Instances : /\ Entries(living, v) \in Nat
                           /\ Entries(living', v) = Entries(living, v) + (IF v = suspect THEN 1 ELSE 0)
  BY <1>a, EntriesCounted
<1>c. living' \in Seq(Instances) /\ Elements(living') = Elements(living) \cup {suspect}
  BY <1>a, AppendElements
<1>d. None \notin Instances
  BY InstancesFinite
<1>1. SpawnerTypeOK'
  BY <1>a, <1>c DEF SpawnerTypeOK
<1>2. EntriesConserved'
  <2> SUFFICES ASSUME NEW v \in Instances PROVE Entries(living', v) + 0 <= registered[v]
    BY DEF EntriesConserved
  <2>1. Entries(living, v) + (IF suspect = v THEN 1 ELSE 0) <= registered[v]
    BY DEF EntriesConserved
  <2> QED BY <1>b, <2>1
<1>3. ReliableInstancesListed'
  <2>1. \A v : Listed(v) \/ v = suspect => Listed(v)'
    BY <1>c DEF Listed, Elements
  <2> QED BY <2>1 DEF ReliableInstancesListed
<1>4. NoSuicideAtBoot'
  BY DEF NoSuicideAtBoot, Phases
<1>5. Phases'
  BY DEF Phases, ReadyCounted
<1>6. ReadyCounted'
  BY DEF ReadyCounted, Phases, SpawnerTypeOK
<1>7. CondemnedKept'
  BY DEF CondemnedKept, ReadyCounted, SpawnerTypeOK, Phases
<1> QED BY <1>1, <1>2, <1>3, <1>4, <1>5, <1>6, <1>7

\* The entry is given up: its instance is gone or has missed a command.
LEMMA TypeTimesOutKeeps ==
    ASSUME SpawnerInv, UNCHANGED optimizers, TypeTimesOut
    PROVE  SpawnerInv'
<1> USE ConstantFacts DEF Responsive, Locked, ExitsOnKill,
        main, listening, history, TypeTimesOut, SpawnerInv
<1>a. /\ suspect \in Instances /\ None \notin Instances /\ living \in Seq(Instances)
      /\ registered \in [Instances -> 0..MaxReady]
  BY InstancesFinite DEF SpawnerTypeOK, Phases
<1>b. /\ lost' \in 0..MaxLost /\ missed' \in SUBSET Instances /\ missed \subseteq missed'
      /\ Responsive(suspect) => suspect \in missed'
  BY SMTT(30), <1>a DEF SpawnerTypeOK
<1>1. SpawnerTypeOK'
  BY <1>b DEF SpawnerTypeOK
<1>2. EntriesConserved'
  <2> SUFFICES ASSUME NEW v \in Instances PROVE Entries(living, v) + 0 <= registered[v]
    BY <1>a DEF EntriesConserved
  <2>1. Entries(living, v) + (IF suspect = v THEN 1 ELSE 0) <= registered[v]
    BY DEF EntriesConserved
  <2>2. Entries(living, v) \in Nat /\ registered[v] \in Nat
    BY <1>a, EntriesCounted
  <2> QED BY <2>1, <2>2
<1>3. ReliableInstancesListed'
  BY DEF ReliableInstancesListed, Phases, ReadyCounted, Listed
<1>4. NoSuicideAtBoot'
  BY DEF NoSuicideAtBoot, Phases
<1>5. Phases'
  BY DEF Phases, ReadyCounted
<1>6. ReadyCounted'
  BY DEF ReadyCounted, Phases, SpawnerTypeOK
<1>7. CondemnedKept'
  BY DEF CondemnedKept, ReadyCounted, SpawnerTypeOK, Phases
<1> QED BY <1>1, <1>2, <1>3, <1>4, <1>5, <1>6, <1>7

\* A queued Ready command becomes a registration and an entry.
LEMMA HandleReadyKeeps ==
    ASSUME SpawnerInv, UNCHANGED optimizers, NEW u \in Instances, HandleReady(u)
    PROVE  SpawnerInv'
<1> USE ConstantFacts DEF Responsive, Locked, ExitsOnKill,
        main, listening, history, HandleReady, SpawnerInv
<1>a. /\ living \in Seq(Instances) /\ registered \in [Instances -> 0..MaxReady]
      /\ u # Self
  BY SMTT(30) DEF SpawnerTypeOK, ReadyCounted
<1>b. \A v \in Instances : /\ Entries(living, v) \in Nat
                           /\ Entries(living', v) = Entries(living, v) + (IF v = u THEN 1 ELSE 0)
  BY <1>a, EntriesCounted
<1>c. \A v : Listed(v) \/ v = u => Listed(v)'
  <2>1. Elements(living') = Elements(living) \cup {u}
    BY <1>a, AppendElements
  <2> QED BY <2>1 DEF Listed, Elements
<1>d. /\ registered'[u] = registered[u] + 1 /\ registered[u] \in Nat
      /\ \A v \in Instances \ {u} : registered'[v] = registered[v]
  BY <1>a
<1>1. SpawnerTypeOK'
  <2>1. registered[u] + inflight[u] <= sent[u] /\ sent[u] \in 0..MaxReady
        /\ inflight[u] \in 0..MaxReady
    BY <1>a DEF SpawnerTypeOK, ReadyCounted
  <2>2. registered[u] + 1 \in 0..MaxReady /\ inflight[u] - 1 \in 0..MaxReady
    BY <1>d, <2>1
  <2>3. living' \in Seq(Instances)
    BY <1>a, AppendElements
  <2> QED BY <2>2, <2>3 DEF SpawnerTypeOK
<1>2. EntriesConserved'
  <2> SUFFICES ASSUME NEW v \in Instances
               PROVE  Entries(living', v)
                        + (IF heartbeat \in {"typing", "readd"} /\ suspect = v THEN 1 ELSE 0)
                        <= registered'[v]
    BY DEF EntriesConserved
  <2>1. Entries(living, v) + (IF heartbeat \in {"typing", "readd"} /\ suspect = v THEN 1 ELSE 0)
          <= registered[v]
    BY DEF EntriesConserved
  <2>2. registered[v] \in Nat
    BY <1>a
  <2> QED BY <1>b, <1>d, <2>1, <2>2
<1>3. ReliableInstancesListed'
  <2> SUFFICES ASSUME NEW v \in Instances \ {Self}, registered'[v] > 0, Responsive(v), v \notin missed,
                      v # u
               PROVE  Listed(v)' \/ (heartbeat \in {"remove", "typing", "readd"} /\ suspect = v)
    BY <1>c DEF ReliableInstancesListed
  <2>1. registered[v] > 0
    BY <1>d
  <2> QED BY <1>c, <2>1 DEF ReliableInstancesListed, Listed
<1>4. NoSuicideAtBoot'
  BY DEF NoSuicideAtBoot, Phases
<1>5. Phases'
  <2>1. suspect # None => registered'[suspect] > 0
    <3> SUFFICES ASSUME suspect # None PROVE registered'[suspect] > 0
      OBVIOUS
    <3>1. suspect \in Instances /\ registered[suspect] > 0
      BY DEF SpawnerTypeOK, Phases
    <3> QED BY <1>d, <3>1
  <2> QED BY <1>a, <1>d, <2>1 DEF Phases
<1>6. ReadyCounted'
  BY SMTT(30) DEF ReadyCounted, Phases, SpawnerTypeOK
<1>7. CondemnedKept'
  BY DEF CondemnedKept, ReadyCounted, SpawnerTypeOK, Phases
<1> QED BY <1>1, <1>2, <1>3, <1>4, <1>5, <1>6, <1>7

\* A process is started that was never there before.
LEMMA SpawnKeeps ==
    ASSUME SpawnerInv, UNCHANGED optimizers, NEW u \in Instances, Spawn(u)
    PROVE  SpawnerInv'
<1> USE ConstantFacts DEF Responsive, Locked, ExitsOnKill,
        main, listening, history, Spawn, SpawnerInv
<1>1. SpawnerTypeOK'
  BY DEF SpawnerTypeOK, ReadyCounted, Phases, Killed
<1>2. EntriesConserved'
  BY DEF EntriesConserved, Phases
<1>3. ReliableInstancesListed'
  BY DEF ReliableInstancesListed, Phases, ReadyCounted, Listed
<1>4. NoSuicideAtBoot'
  BY DEF NoSuicideAtBoot, Phases
<1>5. Phases'
  BY DEF Phases, ReadyCounted
<1>6. ReadyCounted'
  BY DEF ReadyCounted, Phases, SpawnerTypeOK
<1>7. CondemnedKept'
  BY DEF CondemnedKept, ReadyCounted, SpawnerTypeOK, Phases
<1> QED BY <1>1, <1>2, <1>3, <1>4, <1>5, <1>6, <1>7

\* The listener thread ends.
LEMMA SpawnFailsKeeps ==
    ASSUME SpawnerInv, UNCHANGED optimizers, SpawnFails
    PROVE  SpawnerInv'
<1> USE ConstantFacts DEF Responsive, Locked, ExitsOnKill,
        main, listening, history, SpawnFails, SpawnerInv
<1>1. SpawnerTypeOK'
  BY DEF SpawnerTypeOK, ReadyCounted, Phases, Killed
<1>2. EntriesConserved'
  BY DEF EntriesConserved, Phases
<1>3. ReliableInstancesListed'
  BY DEF ReliableInstancesListed, Phases, ReadyCounted, Listed
<1>4. NoSuicideAtBoot'
  BY DEF NoSuicideAtBoot, Phases
<1>5. Phases'
  BY DEF Phases, ReadyCounted
<1>6. ReadyCounted'
  BY DEF ReadyCounted, Phases, SpawnerTypeOK
<1>7. CondemnedKept'
  BY DEF CondemnedKept, ReadyCounted, SpawnerTypeOK, Phases
<1> QED BY <1>1, <1>2, <1>3, <1>4, <1>5, <1>6, <1>7

\* The spawner exits; the list does not matter any more.
LEMMA HandleKillKeeps ==
    ASSUME SpawnerInv, UNCHANGED optimizers, NEW own \in BOOLEAN, HandleKill(own)
    PROVE  SpawnerInv'
<1> USE ConstantFacts DEF Responsive, Locked, ExitsOnKill,
        main, listening, history, HandleKill, SpawnerInv
<1>1. SpawnerTypeOK'
  BY DEF SpawnerTypeOK, ReadyCounted, Phases, Killed
<1>2. EntriesConserved'
  BY DEF EntriesConserved, Phases
<1>3. ReliableInstancesListed'
  BY DEF ReliableInstancesListed, Phases, ReadyCounted, Listed
<1>4. NoSuicideAtBoot'
  BY DEF NoSuicideAtBoot, Phases
<1>5. Phases'
  BY DEF Phases, ReadyCounted
<1>6. ReadyCounted'
  BY DEF ReadyCounted, Phases, SpawnerTypeOK
<1>7. CondemnedKept'
  BY DEF CondemnedKept, ReadyCounted, SpawnerTypeOK, Phases
<1> QED BY <1>1, <1>2, <1>3, <1>4, <1>5, <1>6, <1>7

\* The list becomes what kill_all has to drain; the suspect keeps one registration.
LEMMA KillAllKeeps ==
    ASSUME SpawnerInv, UNCHANGED optimizers, KillAll
    PROVE  SpawnerInv'
<1> USE ConstantFacts DEF Responsive, Locked, ExitsOnKill,
        main, listening, history, KillAll, SpawnerInv
<1>a. /\ registered \in [Instances -> 0..MaxReady] /\ living \in Seq(Instances)
      /\ suspect \in Instances \cup {None} /\ None \notin Instances
      /\ MaxReady \in Nat \ {0}
  BY InstancesFinite DEF SpawnerTypeOK
<1>b. \A v \in Instances : registered'[v] = IF v = suspect THEN 1
                                            ELSE IF Listed(v) THEN 0 ELSE registered[v]
  OBVIOUS
<1>c. Elements(doomed') = Elements(living)
  OBVIOUS
<1>1. SpawnerTypeOK'
  BY SMTT(30) DEF SpawnerTypeOK, ReadyCounted, Phases
<1>2. EntriesConserved'
  <2> SUFFICES ASSUME NEW v \in Instances
               PROVE  Entries(living', v)
                        + (IF heartbeat \in {"typing", "readd"} /\ suspect = v THEN 1 ELSE 0)
                        <= registered'[v]
    BY DEF EntriesConserved
  <2>1. Entries(living', v) = 0
    BY NoEntries
  <2>2. registered[v] \in Nat
    BY <1>a
  <2> QED BY <1>b, <2>1, <2>2
<1>3. ReliableInstancesListed'
  BY DEF ReliableInstancesListed, Phases, ReadyCounted, Listed
<1>4. NoSuicideAtBoot'
  BY DEF NoSuicideAtBoot, Phases
<1>5. Phases'
  <2>1. \/ heartbeat \notin {"spawn_logger", "boot_ping", "listen", "register"}
        \/ registered'[Self] = 0
    <3>1. heartbeat \in {"spawn_logger", "boot_ping", "listen", "register"} =>
             registered[Self] = 0 /\ suspect = None
      BY DEF Phases
    <3> QED BY <1>a, <1>b, <3>1
  <2>2. suspect # None => registered'[suspect] > 0
    BY <1>a, <1>b
  <2>3. heartbeat' = heartbeat /\ suspect' = suspect /\ proc' = proc
    OBVIOUS
  <2>4. heartbeat \notin {"spawn_logger", "boot_ping", "listen"}
    BY DEF Phases
  <2> QED BY <2>1, <2>2, <2>3, <2>4 DEF Phases
<1>6. ReadyCounted'
  <2> SUFFICES ASSUME NEW v \in Instances \ {Self}
               PROVE  registered'[v] + inflight[v] <= sent[v]
    BY DEF ReadyCounted
  <2>1. registered[v] + inflight[v] <= sent[v] /\ inflight[v] \in Nat /\ sent[v] \in Nat
    BY DEF ReadyCounted, SpawnerTypeOK
  <2>2. registered'[v] \in Nat /\ registered'[v] <= registered[v] /\ registered[v] \in Nat
    <3>1. registered[v] \in Nat /\ (v = suspect => registered[v] > 0)
      BY <1>a DEF Phases
    <3> QED BY <1>b, <3>1
  <2> QED BY <2>1, <2>2
<1>7. CondemnedKept'
  <2> SUFFICES ASSUME NEW v \in condemned'
               PROVE  /\ v # Self /\ proc[v] \in {"up", "dying", "dead"}
                      /\ ExitsOnKill(v) /\ v \notin missed =>
                            proc[v] \in {"dying", "dead"} \/ v \in Elements(doomed')
    BY DEF CondemnedKept
  <2>1. v \in Instances \ {Self, suspect} /\ registered[v] > 0 /\ v \notin missed
    OBVIOUS
  <2>2. proc[v] \notin {"absent", "starting"}
    <3>1. v \in Instances \ {Self} /\ registered[v] # 0
      BY <2>1
    <3> QED BY <3>1, UnstartedUnregistered
  <2>3. proc[v] \in {"up", "dying", "dead"}
    BY <2>1, <2>2 DEF SpawnerTypeOK
  <2>4. proc[v] \in {"up", "dying"} => v \in Elements(living)
    BY <2>1, ListedIsElement DEF ReliableInstancesListed
  <2> QED BY <1>c, <2>1, <2>3, <2>4
<1> QED BY <1>1, <1>2, <1>3, <1>4, <1>5, <1>6, <1>7

\* Whoever is next exits, ignores it, is gone already, or has missed the Kill.
LEMMA KillNextKeeps ==
    ASSUME SpawnerInv, UNCHANGED optimizers, KillNext
    PROVE  SpawnerInv'
<1> USE ConstantFacts DEF Responsive, Locked,
        main, listening, history, KillNext, SpawnerInv
<1>a. PICK u : u = Head(doomed)
  OBVIOUS
<1>b. /\ u \in Instances /\ doomed' \in Seq(Instances)
      /\ Elements(doomed) = Elements(doomed') \cup {u}
  BY <1>a, TailElements DEF SpawnerTypeOK
<1>c. \/ Responsive(u) /\ proc' = Killed(u) /\ UNCHANGED <<missed, lost, selfKill>>
      \/ /\ ~Responsive(u) /\ selfKill' = (selfKill \/ u = Self)
         /\ UNCHANGED <<proc, missed, lost>>
      \/ /\ Responsive(u) /\ lost < MaxLost /\ lost' = lost + 1 /\ missed' = missed \cup {u}
         /\ UNCHANGED <<proc, selfKill>>
  BY <1>a
<1>d. /\ proc' \in [Instances -> {"absent", "starting", "up", "dying", "dead"}]
      /\ \A v \in Instances : \/ proc'[v] = proc[v]
                              \/ /\ proc[v] \in {"up", "dying"} /\ proc'[v] \in {"up", "dying"}
                                 /\ ~ExitsOnKill(v) \/ proc'[v] = "dying"
      /\ u # Self /\ ExitsOnKill(u) =>
            proc'[u] \in {"absent", "starting", "dying", "dead"} \/ u \in missed'
  <2>1. CASE Responsive(u) /\ proc' = Killed(u)
    BY <1>b, <2>1, KilledFacts
  <2>2. CASE ~Responsive(u) /\ proc' = proc
    BY <1>b, <2>2 DEF SpawnerTypeOK
  <2>3. CASE proc' = proc /\ missed' = missed \cup {u}
    BY <1>b, <2>3 DEF SpawnerTypeOK
  <2> QED BY <1>c, <2>1, <2>2, <2>3
<1>e. /\ lost' \in 0..MaxLost /\ missed' \in SUBSET Instances /\ missed \subseteq missed'
      /\ selfKill' \in BOOLEAN
  <2>1. lost \in 0..MaxLost /\ missed \in SUBSET Instances /\ selfKill \in BOOLEAN
    BY DEF SpawnerTypeOK
  <2>2. \/ missed' = missed /\ lost' = lost
        \/ lost < MaxLost /\ lost' = lost + 1 /\ missed' = missed \cup {u}
    BY <1>c
  <2>3. selfKill' \in BOOLEAN
    BY <1>c, <2>1
  <2> QED BY <1>b, <2>1, <2>2, <2>3
<1>1. SpawnerTypeOK'
  BY <1>b, <1>d, <1>e DEF SpawnerTypeOK
<1>2. EntriesConserved'
  BY DEF EntriesConserved, Phases
<1>3. ReliableInstancesListed'
  <2>1. \A v \in Instances \ {Self} : Responsive(v)' => Responsive(v)
    BY <1>d
  <2> QED BY <1>e, <2>1 DEF ReliableInstancesListed, Listed
<1>4. NoSuicideAtBoot'
  BY DEF NoSuicideAtBoot, Phases
<1>5. Phases'
  BY DEF Phases
<1>6. ReadyCounted'
  BY <1>d DEF ReadyCounted
<1>7. CondemnedKept'
  <2> SUFFICES ASSUME NEW v \in condemned
               PROVE  /\ v # Self /\ proc'[v] \in {"up", "dying", "dead"}
                      /\ ExitsOnKill(v)' /\ v \notin missed' =>
                            proc'[v] \in {"dying", "dead"} \/ v \in Elements(doomed')
    BY DEF CondemnedKept
  <2>0. ExitsOnKill(v)' <=> ExitsOnKill(v)
    BY DEF ExitsOnKill
  <2>1. /\ v \in Instances /\ v # Self /\ proc[v] \in {"up", "dying", "dead"}
        /\ ExitsOnKill(v) /\ v \notin missed =>
              proc[v] \in {"dying", "dead"} \/ v \in Elements(doomed)
    BY DEF CondemnedKept, SpawnerTypeOK
  <2>2. proc'[v] \in {"up", "dying", "dead"}
    BY <1>d, <2>1
  <2>3. CASE v = u
    BY <1>d, <2>0, <2>1, <2>2, <2>3
  <2>4. CASE v # u
    BY <1>b, <1>d, <1>e, <2>0, <2>1, <2>2, <2>4
  <2> QED BY <2>1, <2>2, <2>3, <2>4
<1> QED BY <1>1, <1>2, <1>3, <1>4, <1>5, <1>6, <1>7

\* The list is unlocked, and nobody is condemned any more.
LEMMA KillAllReturnsKeeps ==
    ASSUME SpawnerInv, UNCHANGED optimizers, KillAllReturns
    PROVE  SpawnerInv'
<1> USE ConstantFacts DEF Responsive, Locked, ExitsOnKill,
        main, listening, history, KillAllReturns, SpawnerInv
<1>1. SpawnerTypeOK'
  BY DEF SpawnerTypeOK, ReadyCounted, Phases, Killed
<1>2. EntriesConserved'
  BY DEF EntriesConserved, Phases
<1>3. ReliableInstancesListed'
  BY DEF ReliableInstancesListed, Phases, ReadyCounted, Listed
<1>4. NoSuicideAtBoot'
  BY DEF NoSuicideAtBoot, Phases
<1>5. Phases'
  BY DEF Phases, ReadyCounted
<1>6. ReadyCounted'
  BY DEF ReadyCounted, Phases, SpawnerTypeOK
<1>7. CondemnedKept'
  BY DEF CondemnedKept, ReadyCounted, SpawnerTypeOK, Phases
<1> QED BY <1>1, <1>2, <1>3, <1>4, <1>5, <1>6, <1>7

-----------------------------------------------------------------------------
(* The specification *)

\* A spawner starts with an empty list, whatever earlier ones left running.
LEMMA InitiallySound == Init => SpawnerInv
<1> SUFFICES ASSUME Init PROVE SpawnerInv
  OBVIOUS
<1> USE ConstantFacts DEF Init
<1>a. PICK orphans \in SUBSET Others :
         /\ proc = [u \in Instances |-> IF u \in orphans \cup {Self} THEN "up" ELSE "absent"]
         /\ sent = [u \in Instances |-> IF u \in orphans \ optimizers THEN 1 ELSE 0]
  OBVIOUS
<1>b. Self \notin Others /\ Logger \notin Others /\ Others \subseteq Instances
  BY SpawnerAssumption DEF Instances
<1>c. <<>> \in Seq(Instances)
  BY EmptySeq
<1>1. SpawnerTypeOK
  <2>1. proc \in [Instances -> {"absent", "starting", "up", "dying", "dead"}]
    BY <1>a
  <2>2. sent \in [Instances -> 0..MaxReady]
    BY <1>a
  <2>3. 0 \in 0..MaxReady /\ 0 \in 0..MaxLost
    OBVIOUS
  <2> QED BY <1>c, <2>1, <2>2, <2>3 DEF SpawnerTypeOK
<1>2. EntriesConserved
  BY NoEntries DEF EntriesConserved
<1>3. ReliableInstancesListed
  BY DEF ReliableInstancesListed
<1>4. NoSuicideAtBoot
  BY DEF NoSuicideAtBoot
<1>5. Phases
  BY <1>a, <1>b DEF Phases
<1>6. ReadyCounted
  BY <1>a, <1>b DEF ReadyCounted
<1>7. CondemnedKept
  BY DEF CondemnedKept
<1> QED BY <1>1, <1>2, <1>3, <1>4, <1>5, <1>6, <1>7 DEF SpawnerInv

\* SpawnerInv is about the variables of the specification only.
LEMMA StuttersKeep == SpawnerInv /\ UNCHANGED vars => SpawnerInv'
<1> SUFFICES ASSUME SpawnerInv, UNCHANGED vars PROVE SpawnerInv'
  OBVIOUS
<1> USE DEF SpawnerInv, vars, main, listening, history
<1>1. SpawnerTypeOK'
  BY DEF SpawnerTypeOK
<1>2. EntriesConserved' /\ ReliableInstancesListed' /\ NoSuicideAtBoot'
  BY DEF EntriesConserved, ReliableInstancesListed, NoSuicideAtBoot, Responsive, Listed
<1>3. Phases' /\ ReadyCounted' /\ CondemnedKept'
  BY DEF Phases, ReadyCounted, CondemnedKept, ExitsOnKill
<1> QED BY <1>1, <1>2, <1>3

(***************************************************************************)
(* SpawnerInv holds in every state: however the heartbeat, the listener    *)
(* and the instances interleave, and whichever answers are lost.           *)
(***************************************************************************)
THEOREM SpawnerInvariant == Spec => []SpawnerInv
<1>1. ASSUME SpawnerInv, [Next]_vars PROVE SpawnerInv'
  <2>1. CASE UNCHANGED vars
    BY <1>1, <2>1, StuttersKeep
  <2>2. CASE Running /\ HeartbeatStep
    <3>1. UNCHANGED optimizers
      BY <2>2 DEF Running
    <3> QED BY <1>1, <2>2, <3>1, SpawnLoggerKeeps, FindStragglersKeeps, ListenKeeps,
               RegisterSelfKeeps, PingHeartbeatKeeps, GetMissingInstanceKeeps,
               DeregisterSuspectKeeps, TypeAnsweredKeeps, AddAgainKeeps, TypeTimesOutKeeps
            DEF HeartbeatStep
  <2>3. CASE Running /\ ListenerStep
    <3>1. UNCHANGED optimizers
      BY <2>3 DEF Running
    <3> QED BY <1>1, <2>3, <3>1, HandleReadyKeeps, KillNextKeeps, KillAllReturnsKeeps,
               HandleKillKeeps
            DEF ListenerStep
  <2>4. CASE Running /\ (SpawnFails \/ HandleKill(FALSE) \/ KillAll)
    <3>1. UNCHANGED optimizers
      BY <2>4 DEF Running
    <3> QED BY <1>1, <2>4, <3>1, SpawnFailsKeeps, HandleKillKeeps, KillAllKeeps
  <2>5. ASSUME Running, NEW u \in Instances,
               Boot(u) \/ SendReady(u) \/ Exit(u) \/ Crash(u) \/ KillStraggler(u) \/ Spawn(u)
        PROVE  SpawnerInv'
    <3>1. UNCHANGED optimizers
      BY <2>5 DEF Running
    <3> QED BY <1>1, <2>5, <3>1, BootKeeps, SendReadyKeeps, ExitKeeps, CrashKeeps,
               KillStragglerKeeps, SpawnKeeps
  <2> QED BY <1>1, <2>1, <2>2, <2>3, <2>4, <2>5 DEF Next
<1> QED BY <1>1, InitiallySound, PTL DEF Spec

(***************************************************************************)
(* The list of the living is sound under any number of repeated Ready      *)
(* commands, lost answers and rounds of the heartbeat.                     *)
(***************************************************************************)
THEOREM SpawnerListSound == Spec => []ListSound
<1>1. SpawnerInv => ListSound
  BY DEF SpawnerInv, ListSound
<1> QED BY <1>1, SpawnerInvariant, PTL

(***************************************************************************)
(* When kill_all has drained the list, every instance that was known and   *)
(* reliable is on its way out.                                             *)
(***************************************************************************)
THEOREM SpawnerKillsAll == Spec => []KillAllThorough
<1>1. SpawnerInv => KillAllThorough
  <2> SUFFICES ASSUME SpawnerInv, listener = "killing", doomed = <<>>,
                      NEW u \in condemned \ missed, ExitsOnKill(u)
               PROVE  proc[u] \in {"dying", "dead"}
    BY DEF KillAllThorough
  <2>1. Elements(doomed) = {}
    BY ElementsType DEF SpawnerInv, SpawnerTypeOK
  <2> QED BY <2>1 DEF SpawnerInv, CondemnedKept
<1> QED BY <1>1, SpawnerInvariant, PTL
=============================================================================
