----------------------------- MODULE MCServices -----------------------------
(***************************************************************************)
(* The parts around the platform's core, each on its own: they share no    *)
(* state, so a behaviour is one of a single part, which is chosen first.   *)
(***************************************************************************)
EXTENDS QueryServer, FlatfileDownloader, NativeDownloader, DocumentStore, RedisProxy,
        StreamForks, ContingencyHandlers

CONSTANTS d1, r1, h2

VARIABLE part   \* the service this behaviour is of

allVars == <<part, queryVars, flatVars, nativeVars, storeVars, proxyVars,
             forkVars, handlerVars>>

\* Weeks of two years of two weeks, and the transfers they can lead to.
MCStartWeeks == {<<15, 2>>}
MCLastWeeks == {<<15, 1>>, <<15, 2>>}
MCTransfers == {r1} \cup ({d1} \X {<<15, 2>>, <<16, 1>>})

\* The Pushstream carries nothing: one fork of it is enough.
MCMaxLinks == [s \in TickSymbols \cup {Pushstream} |-> IF s = Pushstream THEN 2 ELSE 4]

\* The parts that are not chosen have one initial state; connections are interchangeable.
Init ==
    /\ part \in {"queries", "flatfile", "native", "documents", "proxy", "forks", "handlers"}
    /\ QueryInit /\ FlatInit /\ NativeInit /\ StoreInit /\ ProxyInit
    /\ ForksInit /\ HandlersInit
    /\ conn_queue = CHOOSE s \in [1..Cardinality(Conns) -> Conns] : Distinct(s)
    /\ part # "flatfile" => lastWeek = CHOOSE w \in LastWeeks : TRUE
    /\ part # "documents" => ~userDir
    /\ part # "forks" => registered = {}
    /\ part # "handlers" => manager = "release"

\* Histories share the list alone: the library has ticks for one of them.
Next ==
    /\ UNCHANGED part
    /\ \/ /\ part = "queries" /\ QueryNext
          /\ UNCHANGED <<flatVars, nativeVars, storeVars, proxyVars, forkVars, handlerVars>>
       \/ /\ part = "flatfile" /\ FlatNext
          /\ UNCHANGED <<queryVars, nativeVars, storeVars, proxyVars, forkVars, handlerVars>>
       \/ /\ part = "native" /\ NativeNext
          /\ native'[h2].called = <<>>
          /\ UNCHANGED <<queryVars, flatVars, storeVars, proxyVars, forkVars, handlerVars>>
       \/ /\ part = "documents" /\ StoreNext
          /\ UNCHANGED <<queryVars, flatVars, nativeVars, proxyVars, forkVars, handlerVars>>
       \/ /\ part = "proxy" /\ ProxyNext
          /\ UNCHANGED <<queryVars, flatVars, nativeVars, storeVars, forkVars, handlerVars>>
       \/ /\ part = "forks" /\ ForksNext
          /\ UNCHANGED <<queryVars, flatVars, nativeVars, storeVars, proxyVars, handlerVars>>
       \/ /\ part = "handlers" /\ HandlersNext
          /\ UNCHANGED <<queryVars, flatVars, nativeVars, storeVars, proxyVars, forkVars>>

(***************************************************************************)
(* Threads run, the archive server answers and the native library's call   *)
(* returns.  Clients drive the streams they were given.  Nobody has to     *)
(* call, send or ask for anything, and a spawner that stopped need not be  *)
(* started again.                                                          *)
(***************************************************************************)
Fairness ==
    /\ \A q \in Queries : WF_queryVars(part = "queries" /\ Courier(q))
    /\ \A w \in Conns : WF_queryVars(part = "queries" /\ (QueryWork(w) \/ Connecting(w)))
    /\ \A d \in Archives : WF_flatVars(part = "flatfile" /\ DownloadStep(d))
    /\ \A t \in Transfers :
          WF_flatVars(part = "flatfile" /\ (OpenTransferSource(t) \/ RunTransfer(t)))
    /\ \A h \in Histories :
          /\ WF_nativeVars(part = "native" /\ DownloadThread(h))
          /\ WF_nativeVars(part = "native" /\ Consumer(h))
    /\ WF_storeVars(part = "documents" /\ Serving)
    /\ WF_storeVars(part = "documents" /\ AnswerCancelled)
    /\ WF_proxyVars(part = "proxy" /\ ServerHandles)
    /\ WF_proxyVars(part = "proxy" /\ ProxyHandles)
    /\ WF_proxyVars(part = "proxy" /\ RedisHandles)
    /\ WF_forkVars(part = "forks" /\ CallerStep)
    /\ \A s \in TickSymbols : \A i \in 1..(MaxLinks[s] + 1) :
          WF_forkVars(part = "forks" /\ s \in registered /\ i \in DOMAIN chain[s] /\ Consume(s, i))

Spec == Init /\ [][Next]_allVars /\ Fairness

(***************************************************************************)
(* What was begun is brought to an end: a busy worker drains the queue,    *)
(* downloads and transfers end, a started history is reported complete,    *)
(* requests to the document store are resolved, and messages cross the     *)
(* bridge.                                                                 *)
(***************************************************************************)
ServicesDeliver ==
    /\ BusyWorkersDrain /\ DownloadsEnd /\ StartedCompletes
    /\ RequestsResolve /\ MessagesCross
=============================================================================
