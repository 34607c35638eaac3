--------------------------- MODULE DocumentStore ---------------------------
(***************************************************************************)
(* The document store of the spawner: spawner/src/documents.rs and the     *)
(* commands of spawner/src/main.rs that use it.  The listener thread sends *)
(* one request at a time to the store's thread and waits for the answer;   *)
(* that thread owns the Tantivy index (external).  The index and the files *)
(* in documents/ survive when the spawner stops.                           *)
(*                                                                         *)
(* A document stands for its title, its text and its file.  The spawner    *)
(* may stop at any moment and be started again, MaxStops times.            *)
(***************************************************************************)
EXTENDS Integers, FiniteSets

CONSTANTS
    References,     \* the files of documents/reference
    UserDocs,       \* documents that may be inserted
    Unparsable,     \* those of them that are not a SrcDocument
    MayFail,        \* whether file and index operations may fail
    MaxStops,
    NoDoc

ASSUME StoreAssumption ==
    /\ References \cap UserDocs = {} /\ Unparsable \subseteq UserDocs
    /\ MayFail \in BOOLEAN /\ MaxStops \in Nat

VARIABLES
    indexDir,   \* tantivy_index: "absent", "empty" or "index"
    userDir,    \* user_documents exists
    files,      \* documents with a file in user_documents
    index,      \* committed documents
    store,      \* where the store's thread is
    todo,       \* documents load_static_docs has still to insert
    listener,   \* where the listener thread is
    request,    \* what the store was asked: [kind, doc]
    answer,     \* the last answer published
    confirmed,  \* documents whose insertion was answered with Ok (history)
    stops

disk == <<indexDir, userDir, files, index>>
storeVars == <<disk, store, todo, listener, request, answer, confirmed, stops>>

NoRequest == [kind |-> "none", doc |-> NoDoc]
NoAnswer == [kind |-> "none", doc |-> NoDoc, known |-> FALSE]
Documents == References \cup UserDocs

StoreInit ==
    /\ indexDir = "absent" /\ index = {}
    /\ userDir \in BOOLEAN     \* the user's documents may be there before the index
    /\ files \in SUBSET (IF userDir THEN UserDocs \ Unparsable ELSE {})
    /\ store = "down" /\ todo = {}
    /\ listener = "down" /\ request = NoRequest
    /\ answer = NoAnswer
    /\ confirmed = {}
    /\ stops = 0

-----------------------------------------------------------------------------
(* init_store_handle, init_server_thread *)

\* A new store: the directory first, then the index in it.
CreateDir ==
    /\ store = "down" /\ indexDir = "absent"
    /\ indexDir' = "empty"
    /\ store' = "create"
    /\ UNCHANGED <<userDir, files, index, todo, listener, request, answer, confirmed, stops>>

CreateIndex ==
    /\ store = "create"
    /\ indexDir' = "index"
    /\ store' = "new"
    /\ listener' = "idle"
    /\ UNCHANGED <<userDir, files, index, todo, request, answer, confirmed, stops>>

\* An old one: the lock file is removed and user_documents created if it is missing.
OpenIndex ==
    /\ store = "down" /\ indexDir = "index"
    /\ userDir' = TRUE
    /\ store' = "old"
    /\ listener' = "idle"
    /\ UNCHANGED <<indexDir, files, index, todo, request, answer, confirmed, stops>>

OpenWriter ==
    /\ store \in {"new", "old"}
    /\ store' = IF store = "new" THEN "load" ELSE "serve"
    /\ UNCHANGED <<disk, todo, listener, request, answer, confirmed, stops>>

\* "Unable to create index writer!": the store's thread and its receivers are gone.
WriterFails ==
    /\ MayFail /\ store \in {"new", "old"}
    /\ store' = "dead"
    /\ UNCHANGED <<disk, todo, listener, request, answer, confirmed, stops>>

(***************************************************************************)
(* load_static_docs gives up unless both directories can be listed, and    *)
(* user_documents is not created with a new index.                         *)
(***************************************************************************)
ListStaticDocs ==
    /\ store = "load"
    /\ \E listed \in {userDir, userDir /\ ~MayFail} :
          IF listed
          THEN store' = "loading" /\ todo' = References \cup files
          ELSE store' = "serve" /\ UNCHANGED todo
    /\ UNCHANGED <<disk, listener, request, answer, confirmed, stops>>

\* Mutant: every document that is loaded is written to user_documents.
LoadStaticDocAsNew(d) ==
    /\ store = "loading" /\ d \in todo
    /\ todo' = todo \ {d}
    /\ files' = files \cup {d}
    /\ index' = index \cup {d}
    /\ UNCHANGED <<indexDir, userDir, store, listener, request, answer, confirmed, stops>>

\* One document: a file that cannot be read or inserted is skipped.
LoadStaticDoc(d) ==
    /\ store = "loading" /\ d \in todo
    /\ todo' = todo \ {d}
    /\ \E ok \in {TRUE, ~MayFail} : index' = IF ok THEN index \cup {d} ELSE index
    /\ UNCHANGED <<indexDir, userDir, files, store, listener, request, answer, confirmed, stops>>

LoadEnds ==
    /\ store = "loading" /\ todo = {}
    /\ store' = "serve"
    /\ UNCHANGED <<disk, todo, listener, request, answer, confirmed, stops>>

-----------------------------------------------------------------------------
(* handle_command, on the listener thread *)

\* InsertIntoDocumentStore, QueryDocumentStore, GetDocument: send(..).unwrap() panics on a dead store.
Ask(kind, d) ==
    /\ listener = "idle"
    /\ IF store = "dead"
       THEN listener' = "dead" /\ UNCHANGED request
       ELSE listener' = "wait" /\ request' = [kind |-> kind, doc |-> d]
    /\ UNCHANGED <<disk, store, todo, answer, confirmed, stops>>

\* Mutant: the store's thread keeps the oneshot.
AnswerCancelledNever == FALSE /\ UNCHANGED storeVars

\* The store died with the request: the oneshot is cancelled and nobody gets a response.
AnswerCancelled ==
    /\ listener = "wait" /\ store = "dead"
    /\ listener' = "idle" /\ request' = NoRequest
    /\ UNCHANGED <<disk, store, todo, answer, confirmed, stops>>

Reply(kind) ==
    /\ answer' = [kind |-> kind, doc |-> request.doc, known |-> request.doc \in confirmed]
    /\ listener' = "idle" /\ request' = NoRequest

-----------------------------------------------------------------------------
(* The store's event loop: only one request is under way, so MergedItem::Both never comes. *)

RefuseDoc ==
    /\ store = "serve" /\ request.kind = "insert" /\ request.doc \in Unparsable
    /\ Reply("Error")
    /\ UNCHANGED <<disk, store, todo, confirmed, stops>>

\* insert_document writes the file, or logs that it cannot ...
WriteDocFile ==
    /\ store = "serve" /\ request.kind = "insert" /\ request.doc \notin Unparsable
    /\ store' = "commit"
    /\ \E ok \in {userDir, userDir /\ ~MayFail} :
          files' = IF ok THEN files \cup {request.doc} ELSE files
    /\ UNCHANGED <<indexDir, userDir, index, todo, listener, request, answer, confirmed, stops>>

\* Mutant: the answer is Ok whatever the commit returned.
CommitDocLazy ==
    /\ store = "commit"
    /\ store' = "serve"
    /\ Reply("Ok") /\ confirmed' = confirmed \cup {request.doc}
    /\ \E ok \in BOOLEAN : index' = IF ok THEN index \cup {request.doc} ELSE index
    /\ UNCHANGED <<indexDir, userDir, files, todo, stops>>

\* ... then adds and commits it, and do_insert_doc answers.
CommitDoc ==
    /\ store = "commit"
    /\ store' = "serve"
    /\ \/ /\ index' = index \cup {request.doc}
          /\ Reply("Ok") /\ confirmed' = confirmed \cup {request.doc}
       \/ /\ MayFail
          /\ Reply("Error")
          /\ UNCHANGED <<index, confirmed>>
    /\ UNCHANGED <<indexDir, userDir, files, todo, stops>>

\* do_exec_query: the document, an error for a title nobody has, or the query fails.
ExecQuery ==
    /\ store = "serve" /\ request.kind = "query"
    /\ \/ Reply(IF request.doc \in index THEN "Document" ELSE "NotFound")
       \/ MayFail /\ Reply("Error")
    /\ UNCHANGED <<disk, store, todo, confirmed, stops>>

\* The spawner stops: Kill, a crash, or the panic of a store that cannot be opened.
SpawnerStops ==
    /\ stops < MaxStops /\ store # "down"
    /\ stops' = stops + 1
    /\ store' = "down" /\ todo' = {} /\ listener' = "down" /\ request' = NoRequest
    /\ UNCHANGED <<disk, answer, confirmed>>

-----------------------------------------------------------------------------

Starting == CreateDir \/ CreateIndex \/ OpenIndex
Serving ==
    \/ OpenWriter \/ ListStaticDocs \/ (\E d \in Documents : LoadStaticDoc(d)) \/ LoadEnds
    \/ RefuseDoc \/ WriteDocFile \/ CommitDoc \/ ExecQuery

StoreNext ==
    \/ Starting \/ Serving \/ WriterFails \/ AnswerCancelled \/ SpawnerStops
    \/ \E d \in UserDocs : Ask("insert", d)
    \/ \E d \in Documents : Ask("query", d)

StoreSpec == StoreInit /\ [][StoreNext]_storeVars

-----------------------------------------------------------------------------

\* The variables' types.
StoreTypeOK ==
    /\ indexDir \in {"absent", "empty", "index"} /\ userDir \in BOOLEAN
    /\ files \subseteq UserDocs /\ index \subseteq Documents \ Unparsable
    /\ store \in {"down", "create", "new", "old", "load", "loading", "serve", "commit", "dead"}
    /\ todo \subseteq Documents
    /\ listener \in {"down", "idle", "wait", "dead"}
    /\ request \in [kind : {"none", "insert", "query"}, doc : Documents \cup {NoDoc}]
    /\ confirmed \subseteq UserDocs

(***************************************************************************)
(* A document whose insertion was answered with Ok stays in the index,     *)
(* whatever fails and however often the spawner stops and starts, and a    *)
(* query answered after that does not say there is no such document.       *)
(***************************************************************************)
ConfirmedPersists ==
    /\ confirmed \subseteq index
    /\ answer.known => answer.kind # "NotFound"

(***************************************************************************)
(* The store on disk, across stops at any moment, holds what it confirmed. *)
(***************************************************************************)
StoreSound == StoreTypeOK /\ ConfirmedPersists

(***************************************************************************)
(* The listener gets its answer, or learns that there will be none: it     *)
(* does not wait for good for a store that died or was starting.           *)
(***************************************************************************)
RequestsResolve == (listener = "wait") ~> (listener # "wait")
=============================================================================
