--------------------------------- MODULE Rag ----------------------------------
(* The document database of one profile (tools/rag): collections of documents *)
(* cut into embedded chunks, kept in step with folders of files.  Two programs *)
(* run the same sync, rag_tool on its timer and rag_admin by hand, one at a     *)
(* time by a file lock; rag_admin edits collections without that lock.          *)
EXTENDS Naturals, FiniteSets, FiniteSetsExt

CONSTANTS
  Sources,        \* paths of files
  CollectionOf,   \* source -> the collection whose folder it is in
  Conversations,  \* the collection that is the chat logs
  Texts,          \* contents worth a document
  Thin,           \* a content that is not: empty, too short, unreadable
  Absent,         \* no such file
  Chunks,         \* chunks of a content
  MaxTroubles     \* bound: edits, failures, kills and collection changes in one run

ASSUME RagAssumption ==
  /\ Thin \notin Texts /\ Absent \notin Texts /\ Thin # Absent
  /\ Chunks \in Nat \ {0} /\ MaxTroubles \in Nat
  /\ IsFiniteSet(Sources)

Programs    == {"rag_tool", "rag_admin"}
Collections == {CollectionOf[f] : f \in Sources}

VARIABLES
  folder,       \* source -> its content now
  dirs,         \* collections whose folder exists
  collections,  \* table: name -> id, 0 when there is no such row
  documents,    \* table: set of [id, source, content_hash, chunks]
  sync,         \* program -> where its sync is, with its local variables
  told,         \* rag_tool: a server has named this profile
  troubles      \* how many so far

ragVars == <<folder, dirs, collections, documents, sync, told, troubles>>

\* calm and sound are history: nothing has gone wrong in this sync so far; and the
\* sources whose documents it found in a state that it is able to work from.
Idle == [pc |-> "idle", force |-> FALSE, todo |-> {}, name |-> Conversations, id |-> 0,
         existing |-> {}, left |-> {}, on_disk |-> {}, file |-> Absent, content |-> Absent,
         doc |-> 0, calm |-> TRUE, sound |-> {}]

RagInit ==
  /\ folder \in [Sources -> Texts] /\ dirs = Collections
  /\ collections = [c \in Collections |-> IF c = Conversations THEN 0 ELSE 1]
  /\ documents = {} /\ told = FALSE /\ troubles = 0
  /\ sync = [p \in Programs |-> Idle]

DocumentsOf(f) == {d \in documents : d.source = f}
Complete(d)    == d.chunks = Chunks

\* Ids are never used again; one that nobody remembers stands for a new one.
NewId(used) == Min((1 .. Cardinality(used) + 1) \ used)
NewDocumentId ==
  NewId({d.id : d \in documents} \union (UNION {{d.id : d \in sync[p].existing} : p \in Programs})
          \union {sync[p].doc : p \in Programs})
NewCollectionId ==
  NewId({collections[c] : c \in Collections} \union {sync[p].id : p \in Programs}
          \union (UNION {{t.id : t \in sync[p].todo} : p \in Programs}))

\* Something goes wrong, or a person steps in, while the syncs in s are under way.
Trouble == troubles < MaxTroubles /\ troubles' = troubles + 1
Smooth  == UNCHANGED troubles
Disturbed(s) == [p \in Programs |-> IF s[p].pc = "idle" THEN s[p] ELSE [s[p] EXCEPT !.calm = FALSE]]
Fails(p, s)  == Trouble /\ sync' = [sync EXCEPT ![p] = [s EXCEPT !.calm = FALSE]]
Goes(p, s)   == Smooth /\ sync' = [sync EXCEPT ![p] = s]

-----------------------------------------------------------------------------
(* sync_profile_collections *)

\* A mutant: the lock is shared.
SharedLock(p) == TRUE

\* flock, without waiting: the loser skips its round.
SYNC_LOCK(p) == \A q \in Programs \ {p} : sync[q].pc = "idle"

Lock(p, force) ==
  /\ sync[p].pc = "idle" /\ SYNC_LOCK(p)
  /\ p = "rag_tool" => told /\ ~force
  /\ Goes(p, [Idle EXCEPT !.pc = "conversations", !.force = force,
       !.sound = {f \in Sources :
                    /\ Cardinality(DocumentsOf(f)) <= 1
                    /\ force \/ \A d \in DocumentsOf(f) : Complete(d) \/ d.content_hash # folder[f]}])
  /\ UNCHANGED <<folder, dirs, collections, documents, told>>

\* list_documents, and then the folder.  A read that is refused finds no document.
OpenCollection(p, s, name, id) ==
  LET opened == [s EXCEPT !.pc = "files", !.name = name, !.id = id, !.existing = {},
                          !.left = {f \in Sources : CollectionOf[f] = name}, !.on_disk = {}]
  IN  \/ Goes(p, [opened EXCEPT !.existing =
                    {d \in documents : CollectionOf[d.source] = name /\ collections'[name] = id}])
      \/ Fails(p, opened)

\* The collection of the chat logs is made the moment there are any.
SyncConversations(p) ==
  /\ sync[p].pc = "conversations"
  /\ \/ /\ Conversations \in dirs
        /\ collections' = IF collections[Conversations] # 0 THEN collections
                          ELSE [collections EXCEPT ![Conversations] = NewCollectionId]
        /\ OpenCollection(p, sync[p], Conversations, collections'[Conversations])
     \/ /\ Conversations \in dirs
        /\ Fails(p, [sync[p] EXCEPT !.pc = "list"]) /\ UNCHANGED collections
     \/ /\ Conversations \notin dirs
        /\ Goes(p, [sync[p] EXCEPT !.pc = "list"]) /\ UNCHANGED collections
  /\ UNCHANGED <<folder, dirs, documents, told>>

ListCollections(p) ==
  LET rows == {[name |-> c, id |-> collections[c]] :
                 c \in {n \in Collections \ {Conversations} : collections[n] # 0}}
  IN  /\ sync[p].pc = "list"
      /\ \/ Goes(p, [sync[p] EXCEPT !.pc = "collections", !.todo = rows])
         \/ Fails(p, [sync[p] EXCEPT !.pc = "collections"])
      /\ UNCHANGED <<folder, dirs, collections, documents, told>>

\* A collection without its folder is left as it is.
NextCollection(p) ==
  /\ sync[p].pc = "collections" /\ UNCHANGED collections
  /\ \E t \in sync[p].todo :
       LET s == [sync[p] EXCEPT !.todo = @ \ {t}]
       IN  IF t.name \in dirs THEN OpenCollection(p, s, t.name, t.id) ELSE Goes(p, s)
  /\ UNCHANGED <<folder, dirs, documents, told>>

Finish(p) ==
  /\ sync[p].pc = "collections" /\ sync[p].todo = {}
  /\ Goes(p, [sync[p] EXCEPT !.pc = "done", !.name = Conversations, !.id = 0])
  /\ UNCHANGED <<folder, dirs, collections, documents, told>>

Unlock(p) ==
  /\ sync[p].pc = "done" /\ Goes(p, Idle)
  /\ UNCHANGED <<folder, dirs, collections, documents, told>>

-----------------------------------------------------------------------------
(* sync_collection *)

\* The first document of a source is the one it is matched with.
Existing(p, f) ==
  LET same == {d \in sync[p].existing : d.source = f}
  IN  {d \in same : \A e \in same : d.id <= e.id}

Unchanged(p, f, d) == d.content_hash = folder[f] /\ ~sync[p].force

\* A file is read: nothing to do, or a document that goes out of the way first.
\* Whether that delete was carried out is not looked at.
ReadFile(p, f) ==
  LET seen   == [sync[p] EXCEPT !.left = @ \ {f}]
      kept   == [seen EXCEPT !.on_disk = @ \union {f}]
      import == [kept EXCEPT !.pc = "add", !.file = f, !.content = folder[f]]
      old    == Existing(p, f)
  IN  /\ sync[p].pc = "files" /\ f \in sync[p].left
      /\ IF folder[f] \notin Texts THEN Goes(p, seen) /\ UNCHANGED documents
         ELSE IF \E d \in old : Unchanged(p, f, d) THEN Goes(p, kept) /\ UNCHANGED documents
         ELSE \/ /\ Goes(p, import)
                 /\ documents' = {e \in documents : \A d \in old : e.id # d.id}
              \/ old # {} /\ Fails(p, import) /\ UNCHANGED documents
      /\ UNCHANGED <<folder, dirs, collections, told>>

\* The row has the whole content and its hash before any chunk is there.
add_document(p) ==
  LET s   == sync[p]
      new == [id |-> NewDocumentId, source |-> s.file, content_hash |-> s.content, chunks |-> 0]
  IN  /\ s.pc = "add"
      /\ \/ /\ collections[s.name] = s.id
            /\ documents' = documents \union {new}
            /\ Goes(p, [s EXCEPT !.pc = "chunks", !.doc = new.id])
         \/ /\ collections[s.name] # s.id /\ UNCHANGED documents
            /\ Goes(p, [s EXCEPT !.pc = "files", !.file = Absent, !.content = Absent])
         \/ /\ UNCHANGED documents
            /\ Fails(p, [s EXCEPT !.pc = "files", !.file = Absent, !.content = Absent])
      /\ UNCHANGED <<folder, dirs, collections, told>>

\* One chunk is embedded and stored; the first that fails ends the file.
add_chunk(p) ==
  LET s    == sync[p]
      rest == [s EXCEPT !.pc = "files", !.file = Absent, !.content = Absent, !.doc = 0]
      row  == {d \in documents : d.id = s.doc}
  IN  /\ s.pc = "chunks"
      /\ \/ \E d \in row :
              LET more == [d EXCEPT !.chunks = @ + 1]
              IN  /\ documents' = (documents \ {d}) \union {more}
                  /\ Goes(p, IF Complete(more) THEN rest ELSE s)
         \/ row = {} /\ Goes(p, rest) /\ UNCHANGED documents
         \/ Fails(p, rest) /\ UNCHANGED documents
      /\ UNCHANGED <<folder, dirs, collections, told>>

\* Then the documents whose source was not there, one by one.
Prune(p) ==
  LET s     == sync[p]
      stale == {d \in s.existing : d.source \notin s.on_disk}
  IN  /\ s.pc = "files" /\ s.left = {}
      /\ \/ \E d \in stale :
              LET s1 == [s EXCEPT !.existing = @ \ {d}]
              IN  \/ Goes(p, s1) /\ documents' = {e \in documents : e.id # d.id}
                  \/ Fails(p, s1) /\ UNCHANGED documents
         \/ /\ stale = {} /\ UNCHANGED documents
            /\ Goes(p, [s EXCEPT !.pc = IF s.name = Conversations THEN "list" ELSE "collections",
                                 !.existing = {}, !.on_disk = {}])
      /\ UNCHANGED <<folder, dirs, collections, told>>

SyncStep(p) ==
  \/ \E force \in BOOLEAN : Lock(p, force)
  \/ SyncConversations(p) \/ ListCollections(p) \/ NextCollection(p)
  \/ (\E f \in Sources : ReadFile(p, f))
  \/ add_document(p) \/ add_chunk(p) \/ Prune(p) \/ Finish(p) \/ Unlock(p)

-----------------------------------------------------------------------------
(* rag_admin's other choices, rag_tool's profile, people and failures *)

AdminAtMenu == sync["rag_admin"].pc = "idle" /\ Trouble /\ sync' = Disturbed(sync)

do_create_collection(c) ==
  /\ AdminAtMenu
  /\ collections' = IF collections[c] # 0 THEN collections
                    ELSE [collections EXCEPT ![c] = NewCollectionId]
  /\ dirs' = IF c = Conversations THEN dirs ELSE dirs \union {c}
  /\ UNCHANGED <<folder, documents, told>>

\* Documents and chunks go with it; the folder and its files stay.
do_delete_collection(c) ==
  /\ AdminAtMenu /\ collections[c] # 0
  /\ collections' = [collections EXCEPT ![c] = 0]
  /\ documents' = {d \in documents : CollectionOf[d.source] # c}
  /\ UNCHANGED <<folder, dirs, told>>

\* An identity, or the loss of both links, is dealt with between two syncs.
Identity(mine) ==
  /\ sync["rag_tool"].pc = "idle" /\ told' = mine
  /\ UNCHANGED <<folder, dirs, collections, documents, sync, troubles>>

EditFile(f, content) ==
  /\ Trouble /\ content # folder[f]
  /\ folder' = [folder EXCEPT ![f] = content]
  /\ dirs' = IF content = Absent THEN dirs ELSE dirs \union {CollectionOf[f]}
  /\ sync' = Disturbed(sync)
  /\ UNCHANGED <<collections, documents, told>>

RemoveFolder(c) ==
  /\ Trouble /\ c \in dirs /\ dirs' = dirs \ {c}
  /\ folder' = [f \in Sources |-> IF CollectionOf[f] = c THEN Absent ELSE folder[f]]
  /\ sync' = Disturbed(sync)
  /\ UNCHANGED <<collections, documents, told>>

\* The lock goes with the process.
RagKilled(p) ==
  /\ Trouble /\ sync[p].pc # "idle" /\ sync' = [sync EXCEPT ![p] = Idle]
  /\ told' = (told /\ p # "rag_tool")
  /\ UNCHANGED <<folder, dirs, collections, documents>>

RagNext ==
  \/ \E p \in Programs : SyncStep(p) \/ RagKilled(p)
  \/ \E c \in Collections : do_create_collection(c) \/ do_delete_collection(c) \/ RemoveFolder(c)
  \/ \E f \in Sources, content \in Texts \union {Thin, Absent} : EditFile(f, content)
  \/ \E mine \in BOOLEAN : Identity(mine)

RagSpec == RagInit /\ [][RagNext]_ragVars

-----------------------------------------------------------------------------
(* Properties *)

Matches(f) ==
  IF folder[f] \in Texts
    THEN \E d \in documents : DocumentsOf(f) = {d} /\ d.content_hash = folder[f] /\ Complete(d)
    ELSE DocumentsOf(f) = {}

\* "a sync is always safe to run repeatedly (or run twice at once by accident)"
\* (tools/rag/README.md:114): one that nothing disturbed leaves exactly one complete
\* document, of the present content, for every file worth one, and none for the
\* others, whatever the syncs before it ran into - but for a document that was cut
\* short (its hash says it is unchanged; a forced sync repairs it) and for one that
\* is there twice, and for a collection without folder.
SyncMatches ==
  \A p \in Programs : sync[p].pc = "done" /\ sync[p].calm =>
    \A f \in sync[p].sound :
      CollectionOf[f] \in dirs /\ collections[CollectionOf[f]] # 0 => Matches(f)
=============================================================================
