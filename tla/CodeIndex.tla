----------------------------- MODULE CodeIndex -----------------------------
(***************************************************************************)
(* The code index of a workspace (src/axiom/rag): one database of chunks,  *)
(* vectors, symbol definitions, references and call edges, brought up to   *)
(* date by update(), which one user runs at a time while the files may be  *)
(* edited.  Every step of update() is a transaction of its own, and the    *)
(* process may stop between two of them.                                   *)
(*                                                                         *)
(* There is one symbol.  A file may define it, and may call it through an  *)
(* import of a file.  A content is known by its version: no file gets back *)
(* a content it had, so that equal hashes are equal contents.              *)
(***************************************************************************)
EXTENDS Integers, FiniteSets

CONSTANTS CodeFile, NoFile,
          Scopes,         \* the paths update() is asked for, as the files under them
          Caller, Library,  \* one file calls the symbol, and imports the other
          FirstFiles,     \* the files there are to begin with
          OldIndexes,     \* ... and those of them an earlier version may have indexed
          MaxEdits, MaxIndexCrashes

ASSUME CodeIndexAssumption == NoFile \notin CodeFile /\ {Caller, Library} \subseteq CodeFile
                               /\ Scopes \subseteq SUBSET CodeFile
                               /\ MaxEdits \in Nat /\ MaxIndexCrashes \in Nat

VARIABLES disk,      \* version of each file's content, 0 when missing, and its shape
          indexed,   \* indexed_files with the file's chunks, definitions and references
          edges,     \* call_edges: <<calling file, defining file>>
          vectors,   \* chunk_embeddings: the version each file's vectors were made from
          update,    \* the update() that runs
          upToDate,  \* the files not edited since an update that read them began
          edits, indexCrashes

indexVars == <<disk, indexed, edges, vectors, update, upToDate, edits, indexCrashes>>

Missing == [version |-> 0, defines |-> FALSE, calls |-> NoFile]
Content(version, shape) == [version |-> version, defines |-> shape.defines, calls |-> shape.calls]

\* Any file may define the symbol; a further file would only be there to define it.
Shape(f) == [defines : IF f \in {Caller, Library} THEN BOOLEAN ELSE {TRUE},
             calls : {IF f = Caller THEN Library ELSE NoFile}]
FirstShape(f) == CHOOSE shape \in Shape(f) : shape.defines = (f # Caller)

NotIndexed == [hash |-> 0, text |-> 0, symbols |-> FALSE, defines |-> FALSE, calls |-> NoFile,
               target |-> NoFile, status |-> "none"]
Closed == [at |-> "closed", scope |-> {}, scanned |-> {}, todo |-> {}, reading |-> NoFile,
           hash |-> 0, force |-> FALSE, edited |-> {}, complete |-> FALSE]

IndexInit ==
    /\ disk = [f \in CodeFile |-> IF f \in FirstFiles THEN Content(1, FirstShape(f)) ELSE Missing]
    /\ indexed = [f \in CodeFile |-> NotIndexed] /\ edges = {} /\ vectors = [f \in CodeFile |-> 0]
    /\ update = Closed /\ upToDate = {} /\ edits = 0 /\ indexCrashes = 0

Stored == {f \in CodeFile : indexed[f].hash # 0}
Definitions == {f \in Stored : indexed[f].symbols /\ indexed[f].defines}
References == {f \in Stored : indexed[f].symbols /\ indexed[f].calls # NoFile}

(***************************************************************************)
(* The database is new, or one of an earlier version: the migration keeps  *)
(* files, chunks and vectors, and adds the symbol tables empty.            *)
(***************************************************************************)
Migrated == [NotIndexed EXCEPT !.hash = 1, !.text = 1]

OpenStore ==
    /\ update.at = "closed"
    /\ \E migrated \in OldIndexes :
          indexed' = [f \in CodeFile |-> IF f \in migrated THEN Migrated ELSE NotIndexed]
    /\ vectors' = [f \in CodeFile |-> indexed'[f].text]
    /\ update' = [update EXCEPT !.at = "idle"]
    /\ UNCHANGED <<disk, edges, upToDate, edits, indexCrashes>>

\* Somebody writes or removes a file.
EditFile(f) ==
    /\ update.at # "closed" /\ edits < MaxEdits /\ edits' = edits + 1
    /\ \E content \in {Missing} \cup {Content(edits + 2, shape) : shape \in Shape(f)} :
          /\ content.version # disk[f].version
          /\ disk' = [disk EXCEPT ![f] = content]
    /\ update' = [update EXCEPT !.edited = IF update.at = "idle" THEN {} ELSE @ \cup {f}]
    /\ upToDate' = upToDate \ {f}
    /\ UNCHANGED <<indexed, edges, vectors, indexCrashes>>

(***************************************************************************)
(* update(path, force): the files under the path, one after the other.     *)
(***************************************************************************)
BeginUpdate ==
    /\ update.at = "idle"
    /\ \E scope \in Scopes, force \in BOOLEAN :
        /\ force => scope = CodeFile
        /\ LET found == {f \in scope : disk[f].version # 0}
           IN update' = [Closed EXCEPT !.at = "scan", !.scope = scope, !.scanned = found,
                                       !.todo = found, !.force = force]
    /\ UNCHANGED <<disk, indexed, edges, vectors, upToDate, edits, indexCrashes>>

\* An unchanged file is skipped; one that is gone by now fails, and keeps its row.
HashFile(f) ==
    /\ update.at = "scan" /\ update.reading = NoFile /\ f \in update.todo
    /\ LET skipped == \/ disk[f].version = 0
                      \/ ~update.force /\ indexed[f].hash = disk[f].version
       IN update' = [update EXCEPT !.todo = @ \ {f}, !.reading = IF skipped THEN NoFile ELSE f,
                                   !.hash = IF skipped THEN 0 ELSE disk[f].version]
    /\ UNCHANGED <<disk, indexed, edges, vectors, upToDate, edits, indexCrashes>>

\* The edges from and to a file's definitions go with them (on delete cascade).
EdgesWithout(files) == {e \in edges : {e[1], e[2]} \cap files = {}}

\* The text may be newer than the hash that is stored with it.
RowOf(f) ==
    [hash |-> update.hash, text |-> disk[f].version, symbols |-> TRUE, defines |-> disk[f].defines,
     calls |-> disk[f].calls, target |-> NoFile, status |-> "unresolved"]

\* The old vectors and every edge from or to the file go with its old rows.
ReplaceFile(f) ==
    /\ update.at = "scan" /\ update.reading = f /\ update' = [update EXCEPT !.reading = NoFile, !.hash = 0]
    /\ IF disk[f].version = 0 THEN UNCHANGED <<indexed, edges, vectors>>
       ELSE /\ indexed' = [indexed EXCEPT ![f] = RowOf(f)]
            /\ edges' = EdgesWithout({f})
            /\ vectors' = [vectors EXCEPT ![f] = 0]
    /\ UNCHANGED <<disk, upToDate, edits, indexCrashes>>

MissingFiles == (Stored \cap update.scope) \ update.scanned

RemoveMissingFiles ==
    /\ update.at = "scan" /\ update.reading = NoFile /\ update.todo = {}
    /\ indexed' = [f \in CodeFile |-> IF f \in MissingFiles THEN NotIndexed ELSE indexed[f]]
    /\ edges' = EdgesWithout(MissingFiles)
    /\ vectors' = [f \in CodeFile |-> IF f \in MissingFiles THEN 0 ELSE vectors[f]]
    /\ update' = [update EXCEPT !.at = "resolve", !.scanned = {}, !.force = FALSE]
    /\ UNCHANGED <<disk, upToDate, edits, indexCrashes>>

(***************************************************************************)
(* All references are resolved again, those of unchanged files too.        *)
(***************************************************************************)
Candidates(f) ==
    IF f \in Definitions THEN {f}
    ELSE IF indexed[f].calls \in Definitions THEN {indexed[f].calls}
    ELSE Definitions

\* mutant: a match by name is as good as an import
AnyMatch(f) == TRUE

\* The definition a file has itself or imports; another is a guess by name.
IsExact(f) == Candidates(f) \subseteq {f, indexed[f].calls}

\* A reference that does not resolve keeps the target it had.
Resolved(f) ==
    LET found == Candidates(f)
    IN CASE found = {} -> [indexed[f] EXCEPT !.status = "unresolved"]
         [] Cardinality(found) = 1 -> [indexed[f] EXCEPT !.status = "resolved",
                                                     !.target = CHOOSE d \in found : TRUE]
         [] OTHER -> [indexed[f] EXCEPT !.status = "ambiguous"]

CallEdges(rows) ==
    {<<f, rows[f].target>> : f \in {g \in References : /\ rows[g].status = "resolved"
                                                      /\ IsExact(g)
                                                      /\ rows[g].target \in Definitions}}

ResolveWorkspaceSymbols ==
    /\ update.at = "resolve"
    /\ LET resolved == [f \in CodeFile |-> IF f \in References THEN Resolved(f) ELSE indexed[f]]
       IN indexed' = resolved /\ edges' = CallEdges(resolved)
    /\ update' = [update EXCEPT !.at = "embed"]
    /\ UNCHANGED <<disk, vectors, upToDate, edits, indexCrashes>>

\* The vectors whose input changed are made again, or none when the provider fails.
Pending == {f \in Stored : vectors[f] # indexed[f].text}

SyncEmbeddings ==
    /\ update.at = "embed"
    /\ \E embedded \in {{}, Pending} :
          vectors' = [f \in CodeFile |-> IF f \in embedded THEN indexed[f].text ELSE vectors[f]]
    /\ update' = [Closed EXCEPT !.at = "idle", !.complete = TRUE]
    /\ upToDate' = upToDate \cup (update.scope \ update.edited)
    /\ UNCHANGED <<disk, indexed, edges, edits, indexCrashes>>

StopIndexer ==
    /\ update.at \notin {"closed", "idle"} /\ indexCrashes < MaxIndexCrashes
    /\ update' = [Closed EXCEPT !.at = "idle"] /\ indexCrashes' = indexCrashes + 1
    /\ UNCHANGED <<disk, indexed, edges, vectors, upToDate, edits>>

IndexNext ==
    \/ OpenStore \/ BeginUpdate \/ RemoveMissingFiles \/ ResolveWorkspaceSymbols \/ SyncEmbeddings
    \/ StopIndexer
    \/ \E f \in CodeFile : EditFile(f) \/ HashFile(f) \/ ReplaceFile(f)

IndexSpec == IndexInit /\ [][IndexNext]_indexVars

(***************************************************************************)
(* What the index promises those who search it.                            *)
(***************************************************************************)

\* A file that nobody wrote since an update read it is in the index as it is on
\* disk, and a missing one is not: whatever happened to it in the updates
\* before, and to the updates that stopped since (CodeIndex.update).
IndexFollowsTheFiles ==
    \A f \in upToDate :
        IF disk[f].version = 0 THEN f \notin Stored
        ELSE indexed[f].hash = disk[f].version /\ indexed[f].text = disk[f].version

\* After a complete update the call graph has an edge for exactly the calls whose
\* definition the stored files still tell with certainty, although a file that
\* changed takes the edges of unchanged callers with it, and their references
\* still name the definitions they had (replace_workspace_graph).
GraphIsExact ==
    update.at = "idle" /\ update.complete =>
        edges = {e \in References \X Definitions :
                    \/ e[2] = e[1]
                    \/ e[1] \notin Definitions /\ e[2] = indexed[e[1]].calls}

\* A vector is found for the text it was made from, also between the steps of an
\* update and after one whose provider failed (sync_embeddings).
VectorsMatchTheText == \A f \in CodeFile : vectors[f] # 0 => f \in Stored /\ vectors[f] = indexed[f].text

\* The symbols of a file the last complete update scanned are in the index, also
\* when a migration left the symbol tables empty (docs/code-symbol-index.md).
SymbolsAreBackfilled == \A f \in upToDate \cap Stored : indexed[f].symbols

\* Rows, graph and vectors follow the files, over failed and interrupted updates (the
\* parts above).
IndexIsCurrent ==
    /\ IndexFollowsTheFiles
    /\ GraphIsExact
    /\ VectorsMatchTheText
=============================================================================
