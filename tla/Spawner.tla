------------------------------- MODULE Spawner -------------------------------
(***************************************************************************)
(* The Spawner of spawner/src/main.rs and the instances it manages: its    *)
(* main thread boots and then pings everyone in a heartbeat, its listener  *)
(* thread handles one command at a time, and both share the list of living *)
(* instances behind a Mutex.  Instances boot, say Ready, answer Ping and   *)
(* Type, and exit three seconds after a Kill.                              *)
(*                                                                         *)
(* A command sent with CommandServer::execute is one step: the instance    *)
(* gets it and the sender learns its answer, or it is lost and the sender  *)
(* times out (module CommandServer has the details).  Redis (external)     *)
(* hands a message to those subscribed when it is published, in any order  *)
(* between different senders.  At most MaxLost answers are lost: the       *)
(* network is bad for a while, not forever.                                *)
(***************************************************************************)
EXTENDS Integers, Sequences, FiniteSets, SequencesExt

CONSTANTS
    Self,           \* the spawner
    Logger,         \* the logger it spawns when it boots
    Others,         \* instances a Spawn command may start or an earlier spawner left behind
    MaxReady,       \* attempts of CommandServer::execute
    MaxLost,        \* answers that may get lost
    None

ASSUME SpawnerAssumption ==
    /\ MaxReady \in Nat \ {0} /\ MaxLost \in Nat
    /\ Self # Logger /\ Self \notin Others /\ Logger \notin Others
    /\ IsFiniteSet(Others) /\ None \notin {Self, Logger} \cup Others

Instances == {Self, Logger} \cup Others

VARIABLES
    living,         \* InstanceManager.living
    optimizers,     \* those of the others that are optimizers
    proc,           \* instance -> state of its process
    heartbeat,      \* where the main thread is
    answered,       \* who answers the Ping that went out
    suspect,        \* the missing instance being looked into
    stragglers,     \* instances a Kill is under way to since boot
    listener,       \* where the listener thread is
    doomed,         \* what kill_all has still to drain; it holds the lock
    selfKill,       \* a Kill is queued for the spawner itself
    inflight,       \* instance -> its Ready commands queued for the listener
    sent,           \* instance -> Ready commands it has sent
    registered,     \* history: instance -> registrations by Ready since kill_all took it
    missed,         \* history: instances that left a command unanswered
    condemned,      \* history: who was known and reliable when kill_all began
    lost            \* answers lost so far

main == <<heartbeat, answered, suspect, stragglers>>
listening == <<listener, doomed, selfKill, inflight>>
history == <<registered, missed, condemned, lost>>
vars == <<living, optimizers, proc, main, listening, sent, history>>

SpawnerTypeOK ==
    /\ living \in Seq(Instances)
    /\ optimizers \subseteq Others
    /\ proc \in [Instances -> {"absent", "starting", "up", "dying", "dead"}]
    /\ heartbeat \in {"spawn_logger", "boot_ping", "listen", "register", "rest", "check",
                      "remove", "typing", "readd"}
    /\ answered \subseteq Instances
    /\ suspect \in Instances \cup {None}
    /\ stragglers \subseteq Instances
    /\ listener \in {"off", "idle", "killing", "dead"}
    /\ doomed \in Seq(Instances)
    /\ selfKill \in BOOLEAN
    /\ inflight \in [Instances -> 0..MaxReady] /\ sent \in [Instances -> 0..MaxReady]
    /\ registered \in [Instances -> 0..MaxReady]
    /\ missed \subseteq Instances /\ condemned \subseteq Instances
    /\ lost \in 0..MaxLost

Init ==
    /\ living = <<>>
    /\ optimizers \in SUBSET Others
    /\ \E orphans \in SUBSET Others :
          /\ proc = [u \in Instances |-> IF u \in orphans \cup {Self} THEN "up" ELSE "absent"]
          /\ sent = [u \in Instances |-> IF u \in orphans \ optimizers THEN 1 ELSE 0]
    /\ heartbeat = "spawn_logger"
    /\ answered = {} /\ suspect = None /\ stragglers = {}
    /\ listener = "off" /\ doomed = <<>> /\ selfKill = FALSE
    /\ inflight = [u \in Instances |-> 0]
    /\ registered = [u \in Instances |-> 0]
    /\ missed = {} /\ condemned = {} /\ lost = 0

-----------------------------------------------------------------------------

\* Who handles a command now: the spawner only between two commands.
Responsive(u) == IF u = Self THEN listener = "idle" ELSE proc[u] \in {"up", "dying"}

\* kill_all keeps the list locked until every Kill was answered or timed out.
Locked == listener = "killing"

\* An optimizer answers a Kill and then goes on.
ExitsOnKill(u) == u \notin optimizers

Killed(u) == [proc EXCEPT ![u] = IF ExitsOnKill(u) THEN "dying" ELSE @]

Listed(u) == \E i \in DOMAIN living : living[i] = u

-----------------------------------------------------------------------------
(* The instances *)

\* listen(): the instance has subscribed to the control channel and its own.
Boot(u) ==
    /\ proc[u] = "starting"
    /\ proc' = [proc EXCEPT ![u] = "up"]
    /\ UNCHANGED <<living, main, listening, sent, history>>

(***************************************************************************)
(* Ready is published once, and by the logger after a second.  The         *)
(* optimizer sends it with execute, which repeats it until some answer     *)
(* comes back.  Without a listener it goes nowhere.                        *)
(***************************************************************************)
SendReady(u) ==
    /\ u # Self /\ proc[u] \in {"up", "dying"}
    /\ sent[u] < (IF u \in optimizers THEN MaxReady ELSE 1)
    /\ sent' = [sent EXCEPT ![u] = @ + 1]
    /\ inflight' = [inflight EXCEPT ![u] = IF listener \in {"idle", "killing"} THEN @ + 1 ELSE @]
    /\ UNCHANGED <<living, proc, main, listener, doomed, selfKill, history>>

\* The three seconds after a Kill are over.
Exit(u) ==
    /\ u # Self /\ proc[u] = "dying"
    /\ proc' = [proc EXCEPT ![u] = "dead"]
    /\ UNCHANGED <<living, main, listening, sent, history>>

\* A panic in the main thread, such as an unimplemented!() command, or a failed start.
Crash(u) ==
    /\ u # Self /\ proc[u] \in {"starting", "up"}
    /\ proc' = [proc EXCEPT ![u] = "dead"]
    /\ UNCHANGED <<living, main, listening, sent, history>>

-----------------------------------------------------------------------------
(* init: boot and heartbeat *)

\* Mutant: the spawner listens for commands before it has dealt with the stragglers.
SpawnLoggerListening ==
    /\ heartbeat = "spawn_logger"
    /\ proc' = [proc EXCEPT ![Logger] = "starting"]
    /\ heartbeat' = "boot_ping"
    /\ listener' = "idle"
    /\ UNCHANGED <<living, answered, suspect, stragglers, doomed, selfKill, inflight, sent, history>>

SpawnLogger ==
    /\ heartbeat = "spawn_logger"
    /\ proc' = [proc EXCEPT ![Logger] = "starting"]
    /\ heartbeat' = "boot_ping"
    /\ UNCHANGED <<living, answered, suspect, stragglers, listening, sent, history>>

(***************************************************************************)
(* ping_all: the broadcast returns the answers of those who are subscribed *)
(* when it is published, except the lost ones; one that dies before it     *)
(* answers might as well have died before.  The heartbeat looks at the     *)
(* answers when the broadcast has timed out.                               *)
(***************************************************************************)
PingAll(got) ==
    LET subscribed == {u \in Instances : Responsive(u)}
        silent == subscribed \ got
    IN  /\ got \subseteq subscribed
        /\ lost + Cardinality(silent) <= MaxLost
        /\ lost' = lost + Cardinality(silent)
        /\ missed' = missed \cup silent

\* Everyone who answers before the spawner manages anybody is killed.
FindStragglers ==
    /\ heartbeat = "boot_ping"
    /\ \E got \in SUBSET Instances : PingAll(got) /\ stragglers' = got
    /\ heartbeat' = "listen"
    /\ UNCHANGED <<living, proc, answered, suspect, listening, sent, registered, condemned>>

\* A thread of its own sends the Kill.
KillStraggler(u) ==
    /\ u \in stragglers
    /\ stragglers' = stragglers \ {u}
    /\ \/ Responsive(u) /\ proc' = Killed(u) /\ UNCHANGED <<missed, lost>>
       \/ ~Responsive(u) /\ UNCHANGED <<proc, missed, lost>>
       \/ Responsive(u) /\ lost < MaxLost /\ lost' = lost + 1 /\ missed' = missed \cup {u}
          /\ UNCHANGED proc
    /\ UNCHANGED <<living, heartbeat, answered, suspect, listening, sent, registered,
                   condemned>>

Listen ==
    /\ heartbeat = "listen"
    /\ listener' = "idle"
    /\ heartbeat' = "register"
    /\ UNCHANGED <<living, proc, answered, suspect, stragglers, doomed, selfKill, inflight,
                   sent, history>>

RegisterSelf ==
    /\ heartbeat = "register" /\ ~Locked
    /\ living' = Append(living, Self)
    /\ registered' = [registered EXCEPT ![Self] = 1]
    /\ heartbeat' = "rest"
    /\ UNCHANGED <<proc, answered, suspect, stragglers, listening, sent, missed,
                   condemned, lost>>

PingHeartbeat ==
    /\ heartbeat = "rest"
    /\ \E got \in SUBSET Instances : PingAll(got) /\ answered' = got
    /\ heartbeat' = "check"
    /\ UNCHANGED <<living, proc, suspect, stragglers, listening, sent, registered, condemned>>

(***************************************************************************)
(* get_missing_instance compares the list of now with the answers to a     *)
(* Ping of then: an instance that registered in between is missing.        *)
(***************************************************************************)
GetMissingInstance ==
    /\ heartbeat = "check" /\ ~Locked
    /\ LET missing == {i \in DOMAIN living : living[i] \notin answered}
       IN  IF missing = {}
           THEN heartbeat' = "rest" /\ UNCHANGED suspect
           ELSE LET first == CHOOSE i \in missing : \A j \in missing : i <= j
                IN  heartbeat' = "remove" /\ suspect' = living[first]
    /\ answered' = {}
    /\ UNCHANGED <<living, proc, stragglers, listening, sent, history>>

\* Mutant: the instance stays in the list while it is looked into.
RemoveInstanceNot(list, u) == list

\* remove_instance: the last entry with the uuid, if there is one.
RemoveInstance(list, u) ==
    LET at == {i \in DOMAIN list : list[i] = u}
    IN  IF at = {} THEN list ELSE RemoveAt(list, CHOOSE i \in at : \A j \in at : j <= i)

DeregisterSuspect ==
    /\ heartbeat = "remove" /\ ~Locked
    /\ living' = RemoveInstance(living, suspect)
    /\ heartbeat' = "typing"
    /\ UNCHANGED <<proc, answered, suspect, stragglers, listening, sent, history>>

\* The suspect answers after all ...
TypeAnswered ==
    /\ heartbeat = "typing" /\ Responsive(suspect)
    /\ heartbeat' = "readd"
    /\ UNCHANGED <<living, proc, answered, suspect, stragglers, listening, sent, history>>

\* Mutant: whoever answers late is told off but not taken back.
AddAgainForgotten ==
    /\ heartbeat = "readd" /\ ~Locked
    /\ heartbeat' = "rest" /\ suspect' = None
    /\ UNCHANGED <<living, proc, answered, stragglers, listening, sent, history>>

\* ... "wasn't dead after all", and is added again at the end, once the list is free.
AddAgain ==
    /\ heartbeat = "readd" /\ ~Locked
    /\ living' = Append(living, suspect)
    /\ heartbeat' = "rest" /\ suspect' = None
    /\ UNCHANGED <<proc, answered, stragglers, listening, sent, history>>

\* Mutant: the instance is put back whatever the answer was.
TypeTimesOutReadding ==
    /\ heartbeat = "typing" /\ ~Locked /\ ~Responsive(suspect)
    /\ living' = Append(living, suspect)
    /\ heartbeat' = "rest" /\ suspect' = None
    /\ UNCHANGED <<proc, answered, stragglers, listening, sent, history>>

\* "really, truly, dead", or its answers to every attempt were lost.
TypeTimesOut ==
    /\ heartbeat = "typing"
    /\ IF Responsive(suspect)
       THEN lost < MaxLost /\ lost' = lost + 1 /\ missed' = missed \cup {suspect}
       ELSE UNCHANGED <<lost, missed>>
    /\ heartbeat' = "rest" /\ suspect' = None
    /\ UNCHANGED <<living, proc, answered, stragglers, listening, sent, registered,
                   condemned>>

-----------------------------------------------------------------------------
(* The listener: handle_command *)

\* Mutant: the command stays in the queue.
HandleReadyPeeking(u) ==
    /\ listener = "idle" /\ inflight[u] > 0
    /\ living' = Append(living, u)
    /\ registered' = [registered EXCEPT ![u] = @ + 1]
    /\ UNCHANGED <<proc, main, listening, sent, missed, condemned, lost>>

\* Ready, as often as it comes.
HandleReady(u) ==
    /\ listener = "idle" /\ inflight[u] > 0
    /\ inflight' = [inflight EXCEPT ![u] = @ - 1]
    /\ living' = Append(living, u)
    /\ registered' = [registered EXCEPT ![u] = @ + 1]
    /\ UNCHANGED <<proc, main, listener, doomed, selfKill, sent, missed, condemned, lost>>

\* The Spawn commands: a process is started and not waited for.  An optimizer is given
\* one argument too many and panics at once.
Spawn(u) ==
    /\ listener = "idle"
    /\ u \in Others /\ proc[u] = "absent"
    /\ proc' = [proc EXCEPT ![u] = IF u \in optimizers THEN "dead" ELSE "starting"]
    /\ UNCHANGED <<living, main, listening, sent, history>>

\* Without its executable, expect() panics and takes the listener thread along.
SpawnFails ==
    /\ listener = "idle"
    /\ listener' = "dead"
    /\ UNCHANGED <<living, proc, main, doomed, selfKill, inflight, sent, history>>

\* Kill, from the control channel or from the spawner's own kill_all.  The three seconds
\* until the process exits are those in which the command is not handled yet.
HandleKill(own) ==
    /\ listener = "idle"
    /\ own => selfKill
    /\ proc' = [proc EXCEPT ![Self] = "dead"]
    /\ UNCHANGED <<living, main, listening, sent, history>>

\* kill_all drains the list with the lock held.
KillAll ==
    /\ listener = "idle" /\ living # <<>>
    /\ listener' = "killing"
    /\ doomed' = living /\ living' = <<>>
    /\ registered' = [u \in Instances |-> IF u = suspect THEN 1
                                          ELSE IF Listed(u) THEN 0 ELSE registered[u]]
    /\ condemned' = {u \in Instances \ {Self, suspect} : registered[u] > 0 /\ u \notin missed}
    /\ UNCHANGED <<proc, main, selfKill, inflight, sent, missed, lost>>

\* Mutant: the first Kill that is not answered ends the loop.
KillNextGivesUp ==
    /\ listener = "killing" /\ doomed # <<>>
    /\ LET u == Head(doomed)
       IN  \/ /\ Responsive(u) /\ proc' = Killed(u)
              /\ doomed' = Tail(doomed) /\ UNCHANGED <<missed, lost, selfKill>>
           \/ /\ ~Responsive(u) /\ selfKill' = (selfKill \/ u = Self)
              /\ doomed' = <<>> /\ UNCHANGED <<proc, missed, lost>>
           \/ /\ Responsive(u) /\ lost < MaxLost /\ lost' = lost + 1 /\ missed' = missed \cup {u}
              /\ doomed' = <<>> /\ UNCHANGED <<proc, selfKill>>
    /\ UNCHANGED <<living, main, listener, inflight, sent, registered, condemned>>

\* Mutant: the spawner passes over itself.
KillNextSparingSelf ==
    /\ listener = "killing" /\ doomed # <<>>
    /\ doomed' = Tail(doomed)
    /\ LET u == Head(doomed)
       IN  IF Responsive(u) THEN proc' = Killed(u) ELSE UNCHANGED proc
    /\ UNCHANGED <<living, main, listener, selfKill, inflight, sent, history>>

(***************************************************************************)
(* One Kill after the other; what comes back is ignored.  The spawner is   *)
(* in its own list: that Kill waits in the queue of the thread that sent   *)
(* it, and is only handled when the sender has timed out.                  *)
(***************************************************************************)
KillNext ==
    /\ listener = "killing" /\ doomed # <<>>
    /\ doomed' = Tail(doomed)
    /\ LET u == Head(doomed)
       IN  \/ Responsive(u) /\ proc' = Killed(u) /\ UNCHANGED <<missed, lost, selfKill>>
           \/ /\ ~Responsive(u) /\ selfKill' = (selfKill \/ u = Self)
              /\ UNCHANGED <<proc, missed, lost>>
           \/ /\ Responsive(u) /\ lost < MaxLost /\ lost' = lost + 1 /\ missed' = missed \cup {u}
              /\ UNCHANGED <<proc, selfKill>>
    /\ UNCHANGED <<living, main, listener, inflight, sent, registered, condemned>>

KillAllReturns ==
    /\ listener = "killing" /\ doomed = <<>>
    /\ listener' = "idle"
    /\ condemned' = {}
    /\ UNCHANGED <<living, proc, main, doomed, selfKill, inflight, sent, registered, missed, lost>>

-----------------------------------------------------------------------------

HeartbeatStep ==
    \/ SpawnLogger \/ FindStragglers \/ Listen \/ RegisterSelf \/ PingHeartbeat
    \/ GetMissingInstance \/ DeregisterSuspect \/ TypeAnswered \/ AddAgain \/ TypeTimesOut

ListenerStep ==
    \/ \E u \in Instances : HandleReady(u)
    \/ KillNext \/ KillAllReturns \/ HandleKill(TRUE)

Alive == proc[Self] # "dead"

\* The process runs on, and nobody changes what he is.
Running == Alive /\ UNCHANGED optimizers

Next ==
    /\ Running
    /\ \/ HeartbeatStep
       \/ ListenerStep
       \/ SpawnFails \/ HandleKill(FALSE) \/ KillAll
       \/ \E u \in Instances :
             Boot(u) \/ SendReady(u) \/ Exit(u) \/ Crash(u) \/ KillStraggler(u) \/ Spawn(u)

(***************************************************************************)
(* Threads are scheduled, timers run out and queued commands are handled.  *)
(***************************************************************************)
Fairness ==
    /\ WF_vars(Running /\ HeartbeatStep)
    /\ WF_vars(Running /\ ListenerStep)

Spec == Init /\ [][Next]_vars
FairSpec == Spec /\ Fairness

-----------------------------------------------------------------------------
(* Properties *)

Entries(list, u) == Cardinality({i \in DOMAIN list : list[i] = u})

(***************************************************************************)
(* However often Ready is repeated and the heartbeat takes an instance off *)
(* and on the list, the list never holds more entries of it than it was    *)
(* registered since it was last killed, one being looked into included.    *)
(***************************************************************************)
EntriesConserved ==
    \A u \in Instances :
        Entries(living, u) + (IF heartbeat \in {"typing", "readd"} /\ suspect = u THEN 1 ELSE 0)
          <= registered[u]

(***************************************************************************)
(* The heartbeat only loses instances that left a command unanswered:      *)
(* one that answers everything is in the list as long as it runs, or under *)
(* suspicion because it registered between a Ping and its evaluation.      *)
(***************************************************************************)
ReliableInstancesListed ==
    \A u \in Instances \ {Self} :
        (registered[u] > 0 /\ Responsive(u) /\ u \notin missed)
        => Listed(u) \/ (heartbeat \in {"remove", "typing", "readd"} /\ suspect = u)

(***************************************************************************)
(* The spawner does not kill itself as a straggler when it boots: only a   *)
(* Kill from outside or its own kill_all ends it.                          *)
(***************************************************************************)
NoSuicideAtBoot == Self \notin stragglers

(***************************************************************************)
(* The list of the living under repeated Ready commands, lost answers and  *)
(* the heartbeat: no entry too many, none too few, and the spawner itself  *)
(* is not taken for a straggler.                                           *)
(***************************************************************************)
ListSound ==
    SpawnerTypeOK /\ EntriesConserved /\ ReliableInstancesListed /\ NoSuicideAtBoot

(***************************************************************************)
(* When kill_all is through, everyone who was registered and had           *)
(* answered everything is on the way out, whoever timed out before it in   *)
(* the list; optimizers, which ignore Kill, and the one instance that was  *)
(* under suspicion excepted.                                               *)
(***************************************************************************)
KillAllThorough ==
    (listener = "killing" /\ doomed = <<>>) =>
        \A u \in condemned \ missed : ExitsOnKill(u) => proc[u] \in {"dying", "dead"}

(***************************************************************************)
(* Instances that are gone disappear from the list, and in the end for     *)
(* good, late and repeated Ready commands notwithstanding.                 *)
(***************************************************************************)
DeadForgotten ==
    <>[](Alive /\ listener # "dead" =>
            \A u \in Instances \ {Self} : proc[u] = "dead" => ~Listed(u))

(***************************************************************************)
(* kill_all also ends the spawner that runs it, although the Kill it sends *)
(* to itself cannot be handled before it returns.                          *)
(***************************************************************************)
KillAllEndsSpawner == (\E i \in DOMAIN doomed : doomed[i] = Self) ~> (~Alive \/ listener = "dead")
=============================================================================
