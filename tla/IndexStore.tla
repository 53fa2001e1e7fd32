----------------------------- MODULE IndexStore -----------------------------
(***************************************************************************)
(* The SQLite index of one repository as a value, and every transaction    *)
(* the indexer commits on it as a function from one such value to the      *)
(* next.  SQLite makes a transaction atomic, so the modules that           *)
(* interleave processes only ever see these functions.                     *)
(*                                                                         *)
(* Data is abstract.  A file's content is a member of Contents, and stands *)
(* for its own blake3 hash.  The text of a chunk is the pair of the        *)
(* content it was cut from and its line span, so two texts are equal       *)
(* exactly when the code would have embedded and tokenised the same bytes. *)
(***************************************************************************)
EXTENDS Integers, Sequences, FiniteSetsExt, Functions

CONSTANTS
  Paths,        \* relative paths of the files under the root
  Contents,     \* file contents
  Absent,       \* stands for "no such file"
  Spans,        \* line spans [start, end] of chunks
  ChunkFile,    \* the chunker: path, content |-> the chunks, in order
  Parsed,       \* the paths whose language has a parser
  Embedders,    \* embedders a process can be configured with
  Dim,          \* the width of each embedder's vectors
  RepoIds,      \* blake3 of each canonical root the repository has had
  Placeholder,  \* MIGRATION_PLACEHOLDER_REPO_ID
  NoEmbedder    \* no embedder_id / embedder_dim row in meta

(***************************************************************************)
(* A chunk is [span, symbol]: symbol is TRUE for a Symbol chunk.  The      *)
(* chunker never gives one file two chunks with the same span, because the *)
(* chunk id is path:start-end and the chunks table has it as primary key.  *)
(***************************************************************************)
ASSUME ChunkFileAssumption ==
  /\ ChunkFile \in [Paths \X Contents -> Seq([span : Spans, symbol : BOOLEAN])]
  /\ \A pc \in Paths \X Contents : \A i, j \in 1..Len(ChunkFile[pc]) :
        ChunkFile[pc][i].span = ChunkFile[pc][j].span => i = j

ASSUME EmbedderAssumption ==
  /\ Dim \in [Embedders -> Nat \ {0}]
  /\ NoEmbedder \notin Embedders

ASSUME NameAssumption ==
  /\ Absent \notin Contents
  /\ Placeholder \notin RepoIds
  /\ Parsed \subseteq Paths

------------------------------------------------------------------------------

ChunkId  == Paths \X Spans
Text     == Contents \X Spans
RepoKey  == (RepoIds \union {Placeholder}) \X Paths

(***************************************************************************)
(* The tables.  chunks, chunks_vec and chunks_fts are functions from       *)
(* rowids; symbols from the chunk id that is its primary key; files from   *)
(* the composite key (repo_id, path) to the content hash.  structural is   *)
(* file_imports and file_exports together.  vecDim is the float[N] width   *)
(* of chunks_vec (0 before the database exists), embId and embDim the two  *)
(* meta rows of the embedder stamp.                                        *)
(***************************************************************************)
Tables ==
  {"chunks", "vec", "fts", "symbols", "structural", "files",
   "vecDim", "embId", "embDim"}

ChunkRow == [path : Paths, span : Spans, text : Text]
VecRow   == [text : Text, by : Embedders]

MaxRowid(rows) == IF DOMAIN rows = {} THEN 0 ELSE Max(DOMAIN rows)

IdOf(row) == <<row.path, row.span>>

(* id is the primary key of chunks. *)
ChunkIdsUnique(db) ==
  \A r, s \in DOMAIN db.chunks : IdOf(db.chunks[r]) = IdOf(db.chunks[s]) => r = s

(* The vectors are as wide as the table was created for (float[N]). *)
VectorsFit(db) == \A r \in DOMAIN db.vec : Dim[db.vec[r].by] = db.vecDim

DbType(db) ==
  /\ DOMAIN db = Tables
  /\ DOMAIN db.chunks \subseteq 1..MaxRowid(db.chunks)
  /\ MaxRowid(db.chunks) \in Nat
  /\ \A r \in DOMAIN db.chunks : db.chunks[r] \in ChunkRow
  /\ ChunkIdsUnique(db)
  /\ \A r \in DOMAIN db.vec : db.vec[r] \in VecRow
  /\ VectorsFit(db)
  /\ \A r \in DOMAIN db.fts : db.fts[r] \in Text
  /\ DOMAIN db.symbols \subseteq ChunkId
  /\ \A id \in DOMAIN db.symbols : db.symbols[id] \in Text
  /\ db.structural \subseteq Parsed \X Contents
  /\ DOMAIN db.files \subseteq RepoKey
  /\ \A k \in DOMAIN db.files : db.files[k] \in Contents
  /\ db.vecDim \in Nat
  /\ db.embId \in Embedders \union {NoEmbedder}
  /\ db.embDim \in Nat

NoRows == [r \in {} |-> r]

MissingDb ==
  [chunks |-> NoRows, vec |-> NoRows, fts |-> NoRows, symbols |-> NoRows,
   structural |-> {}, files |-> NoRows,
   vecDim |-> 0, embId |-> NoEmbedder, embDim |-> 0]

RowsOf(db, p) == {r \in DOMAIN db.chunks : db.chunks[r].path = p}

(***************************************************************************)
(* open_db_with: the first process to open the database creates chunks_vec *)
(* at its embedder's width.  IF NOT EXISTS leaves an existing one alone.   *)
(***************************************************************************)
OpenDb(db, e) ==
  IF db.vecDim = 0 THEN [db EXCEPT !.vecDim = Dim[e]] ELSE db

(* A slip: with the chunks deleted first, the subselects of the deletes on  *)
(* the virtual tables find no rowids any more.                              *)
DeleteChunksFirst(db, p) ==
  LET old == RowsOf(db, p)
      ids == {IdOf(db.chunks[r]) : r \in old}
  IN  [db EXCEPT
         !.symbols    = Restrict(@, DOMAIN @ \ ids),
         !.structural = {row \in @ : row[1] # p},
         !.chunks     = Restrict(@, DOMAIN @ \ old)]

(***************************************************************************)
(* The deletes shared by reprocess_file_with and remove_file: the rows of  *)
(* the rowid-bound virtual tables go first, by the old chunk rowids.       *)
(***************************************************************************)
DeleteFileRows(db, p) ==
  LET old == RowsOf(db, p)
      ids == {IdOf(db.chunks[r]) : r \in old}
  IN  [db EXCEPT
         !.vec        = Restrict(@, DOMAIN @ \ old),
         !.fts        = Restrict(@, DOMAIN @ \ old),
         !.symbols    = Restrict(@, DOMAIN @ \ ids),
         !.structural = {row \in @ : row[1] # p},
         !.chunks     = Restrict(@, DOMAIN @ \ old)]

(***************************************************************************)
(* insert_chunk_full_with, over all the chunks of one file: SQLite gives   *)
(* each new chunks row the largest rowid plus one, and the chunks_vec and  *)
(* chunks_fts rows take the rowid of their chunk.                          *)
(***************************************************************************)
NewRowids(db, p, c) ==
  (MaxRowid(db.chunks) + 1)..(MaxRowid(db.chunks) + Len(ChunkFile[<<p, c>>]))

InsertChunks(db, p, c, e) ==
  LET specs == ChunkFile[<<p, c>>]
      base  == MaxRowid(db.chunks)
      new   == NewRowids(db, p, c)
      text  == [r \in new |-> <<c, specs[r - base].span>>]
      syms  == {specs[i].span : i \in {j \in 1..Len(specs) : specs[j].symbol}}
  IN  [db EXCEPT
         !.chunks  = [r \in DOMAIN @ \union new |->
                        IF r \in new
                          THEN [path |-> p, span |-> specs[r - base].span,
                                text |-> text[r]]
                          ELSE @[r]],
         !.vec     = [r \in DOMAIN @ \union new |->
                        IF r \in new THEN [text |-> text[r], by |-> e] ELSE @[r]],
         !.fts     = [r \in DOMAIN @ \union new |->
                        IF r \in new THEN text[r] ELSE @[r]],
         !.symbols = [id \in DOMAIN @ \union ({p} \X syms) |->
                        IF id \in {p} \X syms THEN <<c, id[2]>> ELSE @[id]]]

(***************************************************************************)
(* The plain INSERTs succeed only when no primary key or rowid is taken    *)
(* and the vector has the width chunks_vec was created with.               *)
(***************************************************************************)
CanInsert(db, p, c, e) ==
  LET specs == ChunkFile[<<p, c>>]
      ids   == {<<p, specs[i].span>> : i \in 1..Len(specs)}
  IN  /\ NewRowids(db, p, c) \intersect (DOMAIN db.vec \union DOMAIN db.fts) = {}
      /\ ids \intersect {IdOf(db.chunks[r]) : r \in DOMAIN db.chunks} = {}
      /\ ids \intersect DOMAIN db.symbols = {}
      /\ specs # <<>> => Dim[e] = db.vecDim

------------------------------------------------------------------------------

(***************************************************************************)
(* reprocess_file_with: one transaction.  CanReprocess is FALSE when one   *)
(* of its statements fails; the code then rolls everything back.           *)
(***************************************************************************)
CanReprocess(db, p, c, e) == CanInsert(DeleteFileRows(db, p), p, c, e)

(* A slip: an upsert by chunk id instead of deletes, so a chunk of the old  *)
(* content whose span the new one does not have stays.                      *)
ReprocessUpsert(db, p, c, rid, e) ==
  LET specs == ChunkFile[<<p, c>>]
      ids   == {<<p, specs[i].span>> : i \in 1..Len(specs)}
      keep  == {r \in DOMAIN db.chunks : IdOf(db.chunks[r]) \notin ids}
      kept  == [db EXCEPT !.chunks = Restrict(@, keep),
                          !.vec = Restrict(@, keep), !.fts = Restrict(@, keep)]
  IN  [InsertChunks(kept, p, c, e) EXCEPT
         !.files = [k \in DOMAIN @ \union {<<rid, p>>} |->
                      IF k = <<rid, p>> THEN c ELSE @[k]]]

(* A slip: files of languages without a parser get structural rows too. *)
ReprocessParsingAll(db, p, c, rid, e) ==
  [InsertChunks(DeleteFileRows(db, p), p, c, e) EXCEPT
     !.structural = @ \union {<<p, c>>},
     !.files      = [k \in DOMAIN @ \union {<<rid, p>>} |->
                       IF k = <<rid, p>> THEN c ELSE @[k]]]

Reprocess(db, p, c, rid, e) ==
  [InsertChunks(DeleteFileRows(db, p), p, c, e) EXCEPT
     !.structural = IF p \in Parsed THEN @ \union {<<p, c>>} ELSE @,
     !.files      = [k \in DOMAIN @ \union {<<rid, p>>} |->
                       IF k = <<rid, p>> THEN c ELSE @[k]]]

(* remove_file: one transaction. *)
RemoveFile(db, p, rid) ==
  [DeleteFileRows(db, p) EXCEPT !.files = Restrict(@, DOMAIN @ \ {<<rid, p>>})]

(* Slips: a table is forgotten. *)
WipeAllButFiles(db) ==
  [db EXCEPT !.vec = NoRows, !.fts = NoRows, !.symbols = NoRows,
             !.structural = {}, !.chunks = NoRows]

WipeAllButStructural(db) ==
  [db EXCEPT !.vec = NoRows, !.fts = NoRows, !.symbols = NoRows,
             !.chunks = NoRows, !.files = NoRows]

(* wipe_all: every index table, but neither meta nor the table definitions. *)
WipeAll(db) ==
  [db EXCEPT !.vec = NoRows, !.fts = NoRows, !.symbols = NoRows,
             !.structural = {}, !.chunks = NoRows, !.files = NoRows]

(***************************************************************************)
(* rewrite_placeholder_repo_id: UPDATE files SET repo_id = rid.  It fails  *)
(* on the composite primary key when a path already has a row under rid.   *)
(***************************************************************************)
CanRewrite(db, rid) ==
  \A p \in Paths : ~ {<<Placeholder, p>>, <<rid, p>>} \subseteq DOMAIN db.files

RewritePlaceholder(db, rid) ==
  LET renamed == {<<rid, p>> : p \in {q \in Paths : <<Placeholder, q>> \in DOMAIN db.files}}
      kept    == {k \in DOMAIN db.files : k[1] # Placeholder}
  IN  [db EXCEPT !.files =
         [k \in kept \union renamed |->
            IF k \in renamed THEN @[<<Placeholder, k[2]>>] ELSE @[k]]]

(* stored_file_paths and stored_file_state, both filtered by repo_id. *)
StoredPaths(db, rid) == {p \in Paths : <<rid, p>> \in DOMAIN db.files}

StoredHash(db, p, rid) ==
  IF <<rid, p>> \in DOMAIN db.files THEN db.files[<<rid, p>>] ELSE Absent

(* read_embedder_meta gives None unless both rows are there. *)
Stamped(id, dim) == id # NoEmbedder /\ dim # 0

(* A slip: only the widths are compared. *)
EmbedderAcceptedByWidth(id, dim, e) == Stamped(id, dim) => dim = Dim[e]

(* verify_embedder_meta *)
EmbedderAccepted(id, dim, e) ==
  Stamped(id, dim) => id = e /\ dim = Dim[e]

------------------------------------------------------------------------------

(***************************************************************************)
(* What the tables mean to a reader.                                       *)
(***************************************************************************)

(* The texts a chunker run over content c of path p puts in the index. *)
TextsOf(p, c) ==
  IF c = Absent THEN {}
  ELSE {<<c, ChunkFile[<<p, c>>][i].span>> : i \in 1..Len(ChunkFile[<<p, c>>])}

(* The texts of path p that a search can return. *)
Searchable(db, p) == {db.chunks[r].text : r \in RowsOf(db, p)}

(***************************************************************************)
(* The vector and full-text rows are those of the chunks, rowid by rowid   *)
(* and text by text: a hit of either arm hydrates to the text it matched.  *)
(***************************************************************************)
RowsBound(db) ==
  /\ DOMAIN db.vec = DOMAIN db.chunks
  /\ DOMAIN db.fts = DOMAIN db.chunks
  /\ \A r \in DOMAIN db.chunks :
       /\ db.vec[r].text = db.chunks[r].text
       /\ db.fts[r] = db.chunks[r].text

(* A files row tells the truth: its hash is that of the indexed chunks. *)
FileRowsTrue(db) ==
  \A k \in DOMAIN db.files : Searchable(db, k[2]) = TextsOf(k[2], db.files[k])

(***************************************************************************)
(* Every path with rows anywhere has a files row, so that the removal pass *)
(* of an incremental reindex can find it; and symbols and structural rows  *)
(* are those of the content the files row records.                         *)
(***************************************************************************)
NoOrphans(db) ==
  LET listed == {k[2] : k \in DOMAIN db.files}
      of(p)  == {db.files[k] : k \in {l \in DOMAIN db.files : l[2] = p}}
  IN  /\ \A r \in DOMAIN db.chunks : db.chunks[r].path \in listed
      /\ \A row \in db.structural : row[2] \in of(row[1])
      /\ \A id \in DOMAIN db.symbols :
           \E r \in RowsOf(db, id[1]) :
             IdOf(db.chunks[r]) = id /\ db.symbols[id] = db.chunks[r].text

(* The index is exactly that of the working tree `tree`, under repo id rid. *)
IndexExact(db, tree, rid) ==
  /\ RowsBound(db)
  /\ NoOrphans(db)
  /\ DOMAIN db.files = {<<rid, p>> : p \in {q \in Paths : tree[q] # Absent}}
  /\ \A p \in Paths :
       /\ StoredHash(db, p, rid) = tree[p]
       /\ Searchable(db, p) = TextsOf(p, tree[p])
=============================================================================
