------------------------- MODULE FlatfileDownloader -------------------------
(***************************************************************************)
(* data_downloaders/fxcm_flatfile/src/main.rs: a download fetches one      *)
(* weekly archive after the other into a temporary directory until the     *)
(* server answers 404, then starts one transfer per file and reports       *)
(* completion.  The directory goes away with the thread.                   *)
(*                                                                         *)
(* Weeks are <<year, week>>; the thread that transfers week w for download *)
(* d is <<d, w>>.  The archive server (external) has the weeks up to       *)
(* lastWeek, or fails.                                                     *)
(***************************************************************************)
EXTENDS Transfer, FiniteSets

CONSTANTS
    Archives,       \* the downloads asked for
    Requests,       \* the threads of transfers asked for by command
    StartWeeks,     \* weeks a download may start at
    LastWeeks,      \* candidates for the archive's last week
    WeeksPerYear    \* 52

VARIABLES
    lastWeek,       \* the newest week on the server
    download,       \* download -> its thread
    poisoned,       \* a thread panicked with running_downloads locked
    loop            \* the command loop: "listening", "killed", "exited"

flatVars == <<transfer, lastWeek, download, poisoned, loop>>

Later(a, b) == a[1] > b[1] \/ (a[1] = b[1] /\ a[2] > b[2])

\* Mutant: a year has one week more.
NextWeekLeap(w) == IF w[2] <= WeeksPerYear THEN <<w[1], w[2] + 1>> ELSE <<w[1] + 1, 1>>

NextWeek(w) == IF w[2] < WeeksPerYear THEN <<w[1], w[2] + 1>> ELSE <<w[1] + 1, 1>>

Weeks == Nat \X (1..WeeksPerYear)

(***************************************************************************)
(* A transfer is one that was asked for by command or that of a week; and  *)
(* there is one for every week a download may save and for the next.       *)
(***************************************************************************)
ASSUME ArchiveAssumption ==
    /\ WeeksPerYear \in Nat \ {0} /\ StartWeeks \subseteq Weeks
    /\ Requests \subseteq Transfers /\ Transfers \ Requests \subseteq Archives \X Weeks
    /\ \A t \in Requests : t \notin Archives \X Weeks
    /\ Archives \X StartWeeks \subseteq Transfers
    /\ \A t \in Transfers \ Requests : \A z \in LastWeeks :
          LET w == t[2]
          IN  ~Later(w, z) => \/ w[2] < WeeksPerYear /\ <<t[1], <<w[1], w[2] + 1>>>> \in Transfers
                              \/ w[2] = WeeksPerYear /\ <<t[1], <<w[1] + 1, 1>>>> \in Transfers

FlatInit ==
    /\ TransferInit
    /\ lastWeek \in LastWeeks
    /\ download = [d \in Archives |-> [pc |-> "none", first |-> <<0, 1>>, start |-> <<0, 1>>,
                                       cur |-> <<0, 1>>, saved |-> {}, dst |-> "Console"]]
    /\ poisoned = FALSE
    /\ loop = "listening"

-----------------------------------------------------------------------------
(* handle_command *)

\* DownloadTicks spawns a thread for the download; Ping, Type, CancelDataDownload and a pair
\* that is not supported get an answer and change nothing.
DownloadTicks(d, start, dst) ==
    /\ loop # "exited" /\ download[d].pc = "none"
    /\ download' = [download EXCEPT ![d] = [@ EXCEPT !.pc = "fetch", !.first = start,
                                                     !.start = start, !.cur = start, !.dst = dst]]
    /\ UNCHANGED <<transfer, lastWeek, poisoned, loop>>

\* GetDownloadProgress, ListRunningDownloads: lock().unwrap() ends the process when poisoned.
ListRunning ==
    /\ loop # "exited"
    /\ poisoned
    /\ loop' = "exited"
    /\ UNCHANGED <<transfer, lastWeek, download, poisoned>>

\* TransferHistData: a transfer that belongs to no download.
TransferHistData(t, src, dst, n) ==
    /\ loop # "exited"
    /\ TransferData(t, src, dst, n)
    /\ UNCHANGED <<lastWeek, download, poisoned, loop>>

\* Kill, and the exit three seconds later.
KillDownloader ==
    /\ loop \in {"listening", "killed"}
    /\ loop' = IF loop = "listening" THEN "killed" ELSE "exited"
    /\ UNCHANGED <<transfer, lastWeek, download, poisoned>>

-----------------------------------------------------------------------------
(* init_download's thread *)

\* download_chunk returned true: the next week, under a lock that is taken for nothing.
FetchWeek(d) ==
    /\ loop # "exited" /\ download[d].pc = "fetch"
    /\ ~Later(download[d].cur, lastWeek)
    /\ LET r == download[d]
       IN  download' = [download EXCEPT ![d] =
                           [r EXCEPT !.saved = r.saved \cup {r.cur}, !.cur = NextWeek(r.cur),
                                     !.pc = IF poisoned THEN "panicked" ELSE "fetch"]]
    /\ UNCHANGED <<transfer, lastWeek, poisoned, loop>>

\* It returned false, for the 404.
FetchMissing(d) ==
    /\ loop # "exited" /\ download[d].pc = "fetch"
    /\ Later(download[d].cur, lastWeek)
    /\ download' = [download EXCEPT ![d].pc = "transfer"]
    /\ UNCHANGED <<transfer, lastWeek, poisoned, loop>>

\* Another status or an I/O error ends the download, a refused connection panics.
FetchFails(d) ==
    /\ loop # "exited" /\ download[d].pc = "fetch"
    /\ \E how \in {"ended", "panicked"} : download' = [download EXCEPT ![d].pc = how]
    /\ UNCHANGED <<transfer, lastWeek, poisoned, loop>>

\* Mutant: the loop stops before the last week.
TransferWeekShort(d, n) ==
    /\ loop # "exited" /\ download[d].pc = "transfer"
    /\ TransferData(<<d, download[d].start>>, "Flatfile", download[d].dst, n)
    /\ download' = [download EXCEPT ![d] =
                       [@ EXCEPT !.start = NextWeek(@),
                                 !.pc = IF NextWeek(download[d].start) = download[d].cur
                                        THEN "finish" ELSE @]]
    /\ UNCHANGED <<lastWeek, poisoned, loop>>

\* One turn of the loop over the files, up to and with the one the server did not have.
TransferWeek(d, n) ==
    /\ loop # "exited" /\ download[d].pc = "transfer"
    /\ TransferData(<<d, download[d].start>>, "Flatfile", download[d].dst, n)
    /\ LET r == download[d]
       IN  download' = [download EXCEPT ![d] =
                           IF r.start = r.cur THEN [r EXCEPT !.pc = "finish"]
                           ELSE [r EXCEPT !.start = NextWeek(r.start)]]
    /\ UNCHANGED <<lastWeek, poisoned, loop>>

(***************************************************************************)
(* Nothing ever inserts into running_downloads, so that remove(..).expect  *)
(* panics, the lock held, before DownloadComplete is sent.                 *)
(***************************************************************************)
FinishDownload(d) ==
    /\ loop # "exited" /\ download[d].pc = "finish"
    /\ download' = [download EXCEPT ![d].pc = "panicked"]
    /\ poisoned' = TRUE
    /\ UNCHANGED <<transfer, lastWeek, loop>>

\* The file of a week: the temporary directory exists while its thread runs.
HasFile(d, w) == download[d].pc \notin {"ended", "panicked"} /\ w \in download[d].saved

OpenTransferSource(t) ==
    /\ loop # "exited"
    /\ \E ok \in IF t \in Requests THEN BOOLEAN ELSE {HasFile(t[1], t[2])} : OpenSource(t, ok)
    /\ UNCHANGED <<lastWeek, download, poisoned, loop>>

RunTransfer(t) ==
    /\ loop # "exited"
    /\ TransferStep(t)
    /\ UNCHANGED <<lastWeek, download, poisoned, loop>>

\* A connection of a transfer's QueryServer is done with a batch, also after its thread.
BatchSettles(t) ==
    /\ loop # "exited"
    /\ QuerySettles(t)
    /\ UNCHANGED <<lastWeek, download, poisoned, loop>>

-----------------------------------------------------------------------------

Fetch(d) == FetchWeek(d) \/ FetchMissing(d) \/ FetchFails(d)

DownloadStep(d) == Fetch(d) \/ (\E n \in RowCounts : TransferWeek(d, n)) \/ FinishDownload(d)

FlatNext ==
    \/ \E d \in Archives, w \in StartWeeks, dst \in Destinations : DownloadTicks(d, w, dst)
    \/ \E d \in Archives : DownloadStep(d)
    \/ \E t \in Requests, src \in HistTickSrc, dst \in Destinations, n \in RowCounts :
          TransferHistData(t, src, dst, n)
    \/ \E t \in Transfers : OpenTransferSource(t) \/ RunTransfer(t) \/ BatchSettles(t)
    \/ ListRunning \/ KillDownloader

FlatSpec == FlatInit /\ [][FlatNext]_flatVars

-----------------------------------------------------------------------------

\* The downloader's types.
FlatTypeOK ==
    /\ TransferTypeOK
    /\ poisoned \in BOOLEAN /\ loop \in {"listening", "killed", "exited"}
    /\ \A d \in Archives :
          /\ download[d].pc \in {"none", "fetch", "transfer", "finish", "ended", "panicked"}
          /\ \A w \in {download[d].first, download[d].start, download[d].cur} :
                w \in Weeks

(***************************************************************************)
(* When a download turns to completion it has started one transfer for     *)
(* every week it saved and one for the week that the server did not have,  *)
(* and no other, across the turn of the year.                              *)
(***************************************************************************)
WeeksTransferred ==
    \A d \in Archives : download[d].pc = "finish" =>
        {t \in Transfers : transfer[t].pc # "none" /\ t \notin Requests /\ t[1] = d}
            = {d} \X (download[d].saved \cup {download[d].cur})

(***************************************************************************)
(* Every week that was saved is on its way, and a transfer accounts for    *)
(* every row it has read.                                                  *)
(***************************************************************************)
DownloadsSound == FlatTypeOK /\ FileTransferExact /\ WeeksTransferred

Finished == {"none", "ended", "panicked", "unwritten"}

(***************************************************************************)
(* Every download comes to an end, and so does every transfer, unless the  *)
(* process is gone: a lock that a panic poisoned, a missing file or the    *)
(* end of one ends a thread and never leaves it waiting.                   *)
(***************************************************************************)
DownloadsEnd ==
    []<>(\/ loop = "exited"
         \/ /\ \A d \in Archives : download[d].pc \in Finished
            /\ \A t \in Transfers : transfer[t].pc \in Finished)
=============================================================================
