---------------------------- MODULE KnowledgeBase ----------------------------
(***************************************************************************)
(* The documents the RAG service answers from (rag_service/main.py and     *)
(* document_manager.py): the documents in memory, the files they are saved *)
(* to, and the vector collection that is brought up to date when the       *)
(* service starts and by every request that changes a document.            *)
(*                                                                         *)
(* One process serves at a time (the chart recreates its pod). Its         *)
(* requests share the event loop and leave it only while embeddings are    *)
(* computed. A deployment serves a read-only package, or the mutable data  *)
(* directory. Texts stand for their content hash and their chunks.         *)
(***************************************************************************)
EXTENDS Integers, Sequences, SequencesExt, FiniteSets

CONSTANTS
  Doc, Text,
  Package,      \* the installed corpus packages
  Packaged,     \* their documents: [Package -> [Doc -> Text \cup {None}]]
  Sample,       \* the documents of _add_sample_data
  Call,         \* requests that are in progress at the same time
  Items,        \* bulk requests, sequences of [doc, text]
  MaxRequests, MaxFaults,
  Mutable, Invalid, Torn, None

Documents == [Doc -> Text \cup {None}]
Empty == [d \in Doc |-> None]
Corpus == Package \cup {Mutable}

\* The Chroma server, the client that falls back to a local directory, or none.
Store == {"server", "local"}
Collections == [Store \X Corpus -> Documents]

ASSUME KnowledgeAssumption ==
  /\ Packaged \in [Package -> Documents \ {Empty}]
  /\ Sample \in Documents \ {Empty}
  /\ \A i \in Items : i \in Seq([doc : Doc, text : Text \cup {Invalid}])
  /\ MaxRequests \in Nat /\ MaxFaults \in Nat
  /\ Mutable \notin Package /\ Invalid \notin Text /\ None \notin Text
  /\ Torn \notin Documents

VARIABLES
  phase,    \* of the process: "down", "syncing", "sampling", "serving"
  corpus,   \* the corpus it is deployed with
  docs,     \* DocumentManager.documents; kept from the last process when down
  file,     \* documents.json and categories.json of the mutable directory
  client,   \* chroma_client: the vector store initialize has reached
  index,    \* every collection: the text whose chunks it holds of a document
  sync,     \* stats: index_sync_status, and whether index_sync_errors > 0
  call,     \* each request: the upserts it has left
  requests, faults,  \* how many there have been: bounds
  excused,  \* documents whose index entry the service has let go
  unsaved   \* the last save did not write both files

knowledgeVars == <<phase, corpus, docs, file, client, index, sync, call, requests, faults,
          excused, unsaved>>

Upsert == [doc : Doc, text : Text]

KnowledgeTypes ==
  /\ phase \in {"down", "syncing", "sampling", "serving"}
  /\ corpus \in Corpus
  /\ docs \in Documents
  /\ file \in [documents : Documents \cup {Torn}, categories : {"good", "torn"}]
  /\ client \in Store \cup {"none"}
  /\ index \in Collections
  /\ sync \in [status : {"not_started", "unavailable", "ready", "failed", "partial"},
               errors : BOOLEAN]
  /\ call \in [Call -> Seq(Upsert)]
  /\ requests \in 0..MaxRequests /\ faults \in 0..MaxFaults
  /\ excused \subseteq Doc /\ unsaved \in BOOLEAN

\* What fails is bounded.
Cost(outcome) == IF outcome \in {"saved", "done", "server"} THEN 0 ELSE 1
Faults(n) == faults + n <= MaxFaults /\ faults' = faults + n

-----------------------------------------------------------------------------
(* The files *)

\* _load_documents: one file that cannot be read leaves no documents at all.
Loaded(c) ==
  IF c \in Package THEN Packaged[c]
  ELSE IF file.documents = Torn \/ file.categories = "torn" THEN Empty
  ELSE file.documents

\* _save_documents: each file is truncated and rewritten, the documents first,
\* and what goes wrong is logged; a crash leaves the same files.
SaveOutcome == {"saved", "unopened", "documents_torn", "categories_torn"}
SaveDocuments(before, d, outcome) ==
  /\ file' = CASE outcome = "saved" -> [documents |-> d, categories |-> "good"]
               [] outcome = "unopened" -> before
               [] outcome = "documents_torn" -> [before EXCEPT !.documents = Torn]
               [] OTHER -> [documents |-> d, categories |-> "torn"]
  /\ unsaved' = (outcome # "saved")

-----------------------------------------------------------------------------
(* The collection *)

\* Mutant of CollectionOf: one collection for all packages.
CollectionOfPackages(c) == IF c \in Package THEN CHOOSE p \in Package : TRUE ELSE c

\* _select_embedding_collection: keyed by the content of a package.
CollectionOf(c) == c

Indexed == index[<<client, CollectionOf(corpus)>>]
SetIndex(d, t) == index' = [index EXCEPT ![<<client, CollectionOf(corpus)>>][d] = t]

\* _upsert_document_chunks after the embeddings: get, delete, upsert. Without
\* embeddings nothing is touched; what fails after the delete leaves no entry.
UpsertOutcome == {"done", "preserved", "lost"}
UpsertChunks(d, t, outcome) ==
  CASE outcome = "done" -> SetIndex(d, t)
    [] outcome = "preserved" -> UNCHANGED index
    [] OTHER -> SetIndex(d, None)

-----------------------------------------------------------------------------
(* Starting *)

NotStarted == [status |-> "not_started", errors |-> FALSE]

\* The samples are for a service that has not a document.
Ready(d) == IF d = Empty THEN "sampling" ELSE "serving"

\* The constructor loads the corpus, _initialize_database takes the server, the
\* local directory when it does not answer, or neither.
Start(c, s) ==
  /\ phase = "down"
  /\ corpus' = c
  /\ docs' = Loaded(c)
  /\ client' = s
  /\ phase' = IF s = "none" THEN Ready(docs') ELSE "syncing"
  /\ sync' = IF s = "none" THEN [NotStarted EXCEPT !.status = "unavailable"] ELSE NotStarted
  /\ Faults(Cost(s))
  /\ UNCHANGED <<file, index, call, requests, excused, unsaved>>

StaleParents == {d \in Doc : Indexed[d] # None /\ docs[d] = None}

\* Mutant of Outdated: a document that has an entry is not compared with it.
OutdatedUnindexed == {d \in Doc : docs[d] # None /\ Indexed[d] = None}

Outdated == {d \in Doc : docs[d] # None /\ Indexed[d] # docs[d]}

\* _sync_local_documents: entries without a document go first, then the
\* documents whose hash differs are indexed again, one by one.
SyncDelete(d) ==
  /\ phase = "syncing"
  /\ d \in StaleParents
  /\ SetIndex(d, None)
  /\ UNCHANGED <<phase, corpus, docs, file, client, sync, call, requests, faults,
                 excused, unsaved>>

SyncUpsert(d) ==
  /\ phase = "syncing"
  /\ StaleParents = {} /\ d \in Outdated
  /\ SetIndex(d, docs[d])
  /\ UNCHANGED <<phase, corpus, docs, file, client, sync, call, requests, faults,
                 excused, unsaved>>

SyncDone ==
  /\ phase = "syncing"
  /\ StaleParents \cup Outdated = {}
  /\ phase' = Ready(docs)
  /\ sync' = [sync EXCEPT !.status = "ready"]
  /\ UNCHANGED <<corpus, docs, file, client, index, call, requests, faults, excused, unsaved>>

\* An exception ends the sync; initialize does not look at what it returns.
SyncFails ==
  /\ phase = "syncing"
  /\ \/ UNCHANGED index
     \/ StaleParents = {} /\ \E d \in Outdated : SetIndex(d, None)
  /\ phase' = Ready(docs)
  /\ sync' = [status |-> "failed", errors |-> TRUE]
  /\ Faults(1)
  /\ UNCHANGED <<corpus, docs, file, client, call, requests, excused, unsaved>>

\* _add_sample_data. The status is that of the samples then, whatever the sync
\* made of it; the errors stay counted.
MissingSamples == {d \in Doc : Sample[d] # None /\ docs[d] = None}

AddSample(d) ==
  /\ phase = "sampling"
  /\ d \in MissingSamples
  /\ docs' = [docs EXCEPT ![d] = Sample[d]]
  /\ \E saved \in SaveOutcome, indexed \in UpsertOutcome :
       /\ client = "none" => indexed = "done"
       /\ SaveDocuments(file, docs', saved)
       /\ IF client = "none"
          THEN UNCHANGED <<index, sync>>
          ELSE /\ UpsertChunks(d, Sample[d], indexed)
               /\ sync' = IF indexed = "done" /\ sync.status # "partial"
                          THEN [sync EXCEPT !.status = "ready"]
                          ELSE [status |-> "partial", errors |-> TRUE]
       /\ Faults(Cost(saved) + Cost(indexed))
  /\ phase' = IF MissingSamples = {d} THEN "serving" ELSE "sampling"
  /\ UNCHANGED <<corpus, client, call, requests, excused>>

\* The process ends, at any time: a crash, or the deployment of a corpus.
Stop ==
  /\ phase # "down"
  /\ phase' = "down"
  /\ client' = "none" /\ sync' = NotStarted /\ excused' = {}
  /\ call' = [c \in Call |-> <<>>]
  /\ UNCHANGED <<corpus, docs, file, index, requests, faults, unsaved>>

-----------------------------------------------------------------------------
(* Requests *)

\* A package refuses what would change it.
Writable == phase = "serving" /\ corpus = Mutable

Pending(d) == \E c \in Call : \E i \in 1..Len(call[c]) : call[c][i].doc = d

Admitted == requests < MaxRequests /\ requests' = requests + 1

\* DocumentManager.add_document of one document after the other; a text that is
\* no string raises before anything is stored.
AcceptedItems(items) ==
  LET valid == {i \in 1..Len(items) : items[i].text # Invalid}
  IN [n \in 1..Cardinality(valid) |->
        items[CHOOSE i \in valid : Cardinality(valid \cap 1..i) = n]]

\* The last text of a document remains.
Added(accepted) ==
  [d \in Doc |->
     LET places == {i \in 1..Len(accepted) : accepted[i].doc = d}
     IN IF places = {} THEN docs[d] ELSE accepted[Max(places)].text]

\* Each document is saved before the next is added.
SavedBefore(accepted) ==
  {file} \cup {[documents |-> Added(SubSeq(accepted, 1, k)), categories |-> "good"] :
               k \in 1..Len(accepted) - 1}

\* zip(documents, doc_ids): the identifiers are those of the accepted documents
\* alone, so behind a refused one each text meets the identifier of the next.
Zipped(items) ==
  LET accepted == AcceptedItems(items)
  IN [i \in 1..Len(accepted) |-> [doc |-> accepted[i].doc, text |-> items[i].text]]

\* The documents a refusal has put out of step, and those whose change runs
\* into an upsert that another request has not finished.
Astray(items) ==
  {d \in {i.doc : i \in ToSet(items)} :
     Pending(d) \/ \E i \in ToSet(items) : i.text = Invalid}

\* POST /add and /documents/bulk-add up to the first embeddings.
AddDocuments(c, items) ==
  /\ Writable /\ call[c] = <<>> /\ Admitted
  /\ docs' = Added(AcceptedItems(items))
  /\ IF AcceptedItems(items) = <<>>
     THEN UNCHANGED <<file, unsaved, faults>>
     ELSE \E saved \in SaveOutcome, before \in SavedBefore(AcceptedItems(items)) :
            SaveDocuments(before, docs', saved) /\ Faults(Cost(saved))
  /\ call' = [call EXCEPT ![c] = IF client = "none" THEN <<>> ELSE AcceptedItems(Zipped(items))]
  /\ excused' = excused \cup Astray(items)
  /\ UNCHANGED <<phase, corpus, client, index, sync>>

\* The embeddings of the next document are there, or are not. /add answers with
\* an error when the upsert fails, the bulk request goes on.
FinishUpsert(c) ==
  /\ phase = "serving" /\ call[c] # <<>>
  /\ LET next == Head(call[c]) IN
       \E outcome \in UpsertOutcome :
         /\ UpsertChunks(next.doc, next.text, outcome)
         /\ Faults(Cost(outcome))
         /\ excused' = IF outcome = "done" THEN excused ELSE excused \cup {next.doc}
  /\ call' = [call EXCEPT ![c] = Tail(@)]
  /\ UNCHANGED <<phase, corpus, docs, file, client, sync, requests, unsaved>>

\* Mutant of Removed: a deletion is not saved.
RemovedUnsaved(d, outcome) ==
  docs' = [docs EXCEPT ![d] = None] /\ UNCHANGED <<file, unsaved>>

\* DocumentManager.delete_document.
Removed(d, outcome) ==
  /\ docs' = [docs EXCEPT ![d] = None]
  /\ SaveDocuments(file, docs', outcome)

\* The entry goes by the identifiers the collection lists; what fails there is
\* swallowed.
RemoveChunks(d, outcome) ==
  IF client = "none" \/ outcome = "preserved" THEN UNCHANGED index ELSE SetIndex(d, None)

\* DELETE /documents/{doc_id}
DeleteDocument(d) ==
  /\ Writable /\ docs[d] # None /\ Admitted
  /\ \E saved \in SaveOutcome, removed \in {"done", "preserved"} :
       /\ Removed(d, saved)
       /\ RemoveChunks(d, removed)
       /\ Faults(Cost(saved) + Cost(removed))
       /\ excused' = IF removed = "preserved" \/ Pending(d) THEN excused \cup {d} ELSE excused
  /\ UNCHANGED <<phase, corpus, client, sync, call>>

\* What the two halves of _hybrid_search find of a document: the text of its
\* chunks, and its own, of which an answer shows the former.
VectorText(d) == {Indexed[d]} \ {None}
LexicalText(d) == {docs[d]} \ {None}

KnowledgeInit ==
  /\ phase = "down" /\ corpus = Mutable /\ docs = Empty
  /\ file = [documents |-> Empty, categories |-> "good"]
  /\ client = "none" /\ index = [x \in Store \X Corpus |-> Empty]
  /\ sync = NotStarted
  /\ call = [c \in Call |-> <<>>]
  /\ requests = 0 /\ faults = 0 /\ excused = {} /\ unsaved = FALSE

KnowledgeNext ==
  \/ \E c \in Corpus, s \in Store \cup {"none"} : Start(c, s)
  \/ \E d \in Doc : SyncDelete(d) \/ SyncUpsert(d)
  \/ SyncDone \/ SyncFails
  \/ \E d \in Doc : AddSample(d)
  \/ Stop
  \/ \E c \in Call, items \in Items : AddDocuments(c, items)
  \/ \E c \in Call : FinishUpsert(c)
  \/ \E d \in Doc : DeleteDocument(d)

KnowledgeSpec == KnowledgeInit /\ [][KnowledgeNext]_knowledgeVars

-----------------------------------------------------------------------------
(* Properties *)

\* While a service serves that counted no error at its start, a search finds
\* by vector the text it finds by words: not one that was replaced or deleted,
\* nor less, whatever an earlier process left in the collection. Excepted are
\* the documents whose change is still being embedded and those whose entry the
\* service has let go: an upsert that failed, two requests that met on one
\* document, a bulk request with a refused item (_sync_local_documents,
\* _upsert_document_chunks).
AnswersCurrent ==
  phase = "serving" /\ client # "none" /\ ~sync.errors =>
    \A d \in Doc : VectorText(d) = LexicalText(d) \/ Pending(d) \/ d \in excused

\* Once the collection of a package is complete it stays so, through other
\* packages, the mutable corpus, and crashes: going back to an earlier version
\* reuses its index (docs/corpus-packaging.md:123-125).
IndexReused ==
  [][\A s \in Store, p \in Package :
       index[<<s, p>>] = Packaged[p] => index'[<<s, p>>] = Packaged[p]]_knowledgeVars

\* A process that serves the mutable corpus after one that did has exactly the
\* documents that one had, unless its last save went wrong: no deleted document
\* returns and no added one is lost (_load_documents, _save_documents).
RestartKeeps ==
  [][phase = "down" /\ phase' # "down" /\ corpus = Mutable /\ corpus' = Mutable
     => docs' = docs \/ unsaved]_knowledgeVars
=============================================================================
