# A verification project for apohara-codesearch

apohara-codesearch indexes a source repository into one SQLite file
(`<root>/.apohara-codesearch/index.db`) and searches it with BM25 and vector
retrieval.  Several processes (an MCP server per client, the `watch` subcommand)
rewrite one file, with nothing but SQLite's transactions between them, from a
working tree that changes while they read it; a search reads the same file in
many statements, on no common snapshot; and what is stored depends on which
embedder a process found when it was called.  This project models the system
from the syntax trees to the hits of an answer in TLA+, checks it with TLC and
proves its safety properties with TLAPS.

Paths below are relative to the repository; `incremental.rs`, `storage.rs`,
`schema.rs`, `chunker.rs`, `walker.rs`, `parser.rs`, `search.rs`, `embedder.rs`,
`embedder_gemma.rs` and `registry.rs` are in `crates/apohara-indexer/src/`, `server.rs` and `watch.rs` in
`crates/apohara-codesearch/src/`.

## The system

| Part | State it keeps | Operations | Hard part |
|---|---|---|---|
| Reindex engine, `incremental.rs` | none of its own; the tables of the index | `reindex_with` (forced or incremental), `wipe_all`, `reprocess_file_with`, `remove_file`, `rewrite_placeholder_repo_id` | many small transactions, other processes and crashes between them; contents read long before they are written |
| Storage, `storage.rs` | `chunks`, `chunks_vec`, `chunks_fts`, `symbols`, `file_imports`, `file_exports` | `open_db_with`, `insert_chunk_full_with`, `write_file_structural`, `knn_query_with` | three tables joined by a rowid that SQLite reuses |
| Schema, `schema.rs` | `files`, `meta` (schema version, embedder stamp) | `migrate`, `migrate_files_schema`, `write_`/`read_`/`verify_embedder_meta` | a migration two processes may run at once; a stamp written and read in two statements |
| Walker, `walker.rs` | none | `walk_repo` | the files of one walk are read at different moments |
| Chunker, `chunker.rs` | none | `chunk_file` | line and byte bookkeeping; chunk ids are spans and must be distinct |
| Watch, `watch.rs` | the event channel | `run_watch`, `handle_change`, `relevant` | events before, during and because of a reindex; debounce; failures |
| MCP server, `server.rs` | a map of per-repository build locks | `reindex`, `search_code`, `ensure_indexed` | the lazy first build; a search is several statements |
| Search, `search.rs` | none | ranking, fusion, boost, dedup, MMR, hydration | ranks and hydrates on different snapshots; order, ties and overlaps |
| Registry, `registry.rs` | a JSON file shared by all processes | `load`, `register`, `save` | lost updates, torn writes |
| Parsers, `parser.rs` | none | four walks over a syntax tree for each of nine languages | what a walk descends into, in which order it reports, two walks written twice |
| Embedders, `embedder.rs`, `embedder_gemma.rs` | none; what lies in the model directory | `active_embedder`, `embed`, `verify_embedder_meta` | resolved anew in every call, with silent fallbacks; an id is less than the weights |
| Tokens, `tokens.rs` | none | a pure function on strings | none |
| `main.rs`, `dto.rs`, npm launcher, benchmarks, fuzz targets | none | dispatch, data types, downloads | none |

How they interact.  `server.rs` and `watch.rs` each open the file with
`open_db_with`, call `migrate` and then `reindex_with`, in a process of their
own.  `reindex_with` walks the tree first, and only then starts to read and write
the index, a file per transaction.  A search reads the same file.  The watcher is
called back by the `notify` crate through a channel.  The only lock in the
program, the build lock of `server.rs`, is one of the process, and as the server
runs on one thread and no handler awaits, it is never contended; nothing orders
the processes.  The chunker gets its symbols from the parser's walk for spans, the
engine its imports and exports from the other two.

What makes each part correct, in a sentence: a vector or full-text row belongs to
the chunk that has its rowid; the hash in a `files` row is that of what is
indexed; every row can be found again by the pass that must delete it; a reindex
that succeeds leaves exactly the tree; vectors of two embedders are never mixed;
a reader sees whole versions of a file; the watcher misses no change and does not
wake itself; the registry is never torn and forgets no repository; hits are
disjoint, whole, and complete for what did not change; a definition is in some
chunk of its own or of what holds it.

## The modules

| Module | Models |
|---|---|
| `IndexStore` | the index as one value and each transaction as a function on it; what the tables mean to a reader (`RowsBound`, `FileRowsTrue`, `NoOrphans`, `IndexExact`) |
| `Reindex` | `reindex_with` by any number of processes, the tree and its editors, the properties |
| `FileIndex` | the abstract promise to a search: of each file one whole version or nothing |
| `Watch` | `run_watch` around the engine of `Reindex`, with liveness |
| `Chunker` | `chunk_file`: symbol chunks, the split of the remaining lines, windows, one loop iteration per step |
| `Migration` | `migrate` by racing processes of one version, on an index of any age, and what the engine then does to `files` |
| `Embedding` | which embedder a call gets, around the engine of `Reindex`, and what its stamp is worth to a search |
| `Server` | the calls of racing and dying server processes: first builds, reindexes, and the sidecar registry |
| `Search` | one `search_code` from ranking to answer, on an index that changes as `FileIndex` allows |
| `Parser` | the extractors of nine languages as tables, and the walk that interprets them |
| `MCReindex`, `MCEmbedding`, `MCWatch`, `MCChunker`, `MCMigration`, `MCServer`, `MCSearch`, `MCParser` | chunkers, widths, checkpoints, lines, rankings, grammars and symmetry for TLC |
| `ReindexProofs` | lemmas about the transactions, theorems about the engine |
| `WatchProofs`, `EmbeddingProofs` | theorems about the two modules around the engine, which rest on those about it |
| `ChunkerProofs`, `MigrationProofs`, `ServerProofs`, `SearchProofs`, `ParserProofs` | theorems about these modules |

`Watch` and `Embedding` extend `Reindex`, which extends `IndexStore`.  `FileIndex` is
in the middle: `Reindex` implements it, and `Search` relies on nothing else.

### How state and actions correspond to the code

*The index.*  `db` is the committed state of the file: a record of the tables.
`chunks`, `vec` and `fts` are functions from rowids.  A content stands for its
own blake3 hash, and the text of a chunk is the pair of the content and the span
it was cut from, so two texts are equal when the code would embed the same bytes.
`MaxRowid` is SQLite's rule for a rowid table without AUTOINCREMENT: the largest
rowid in use plus one, and 1 for an empty table.  That is what makes rowids be
reused.  A transaction is a function (`Reprocess`, `RemoveFile`, `WipeAll`,
`RewritePlaceholder`), and `CanReprocess`, `CanRewrite` say when one of its
statements violates a key or the vector width, so that the code rolls back and
returns the error.  `TypeOK` states what these keys amount to: no two chunks have one
id (`ChunkIdsUnique`), and the vectors are as wide as their table (`VectorsFit`).

*Processes.*  `pc[w]` is where process `w` is in `reindex_with`; an action is one
read of a file or one SQLite transaction, in the order of the code:

| Action | Code |
|---|---|
| `Start` | the caller: `open_db_with`, `migrate`, the embedder, `repo_id_for` |
| `WalkFile` | one file of `walk_repo` is read (`seen`) |
| `Rewrite` | `rewrite_placeholder_repo_id` |
| `ReadMetaId`, `Verify`, `CheckStamped` | the two statements of `read_embedder_meta`, for the check and once more for "is there a stamp" |
| `StampId`, `StampDim` | the two statements of `write_embedder_meta` |
| `Wipe` | `wipe_all` |
| `ListStored`, `Remove`, `RemoveDone` | `stored_file_paths` and the removal loop |
| `SkipFile`, `ChangedFile`, `WriteFile`, `ForceFile` | the read of the stored hash and the per-file transaction, separate for an incremental reindex |
| `Finish`, `Abort` | return, or any error, busy timeout or death of the process |
| `Edit`, `MoveRepo` | the environment: the tree changes; the directory is renamed, index included |

`ChangedFile` is also enabled when the hashes agree: `stored_file_state` turns an
error of the read into "not stored" (`.ok()`, incremental.rs:421).  `outcome` and
`quiet` are history variables: how the last reindex of a process ended, and
whether nothing else has changed the tree or the index since it began.
`walk_repo` starts after `open_db_with` and touches no table, so the repo id and
the open are one action.

*The watcher.*  `at` is the place in `run_watch`, `queue` the events not yet
received.  `HandleChange`, `EngineStep` and `Return` are `handle_change`; `Arm` is
`watch()`; `Receive`, `Drain`, `Timeout` the loop.  `Timeout` may happen although
an event is in the queue, since the queue is that of the kernel and of the
channel together.  Reading a file during a walk is an `access` event and a commit
an `index` event, as the comments of `relevant` and `is_index_path` describe;
equal ones in a row are kept once.  `Touch` is an event that changes no file of the index:
the second and third of an editor's save, or one of a file that is not indexed.
`RegisterInSidecar`, the end of a `handle_change` that succeeds, writes the registry in
the config directory, and the watcher sees that if the directory is below the root.

*The chunker.*  A line is its length in bytes, with the newline that joins it to
the next, and whether it is blank; a chunk is a kind and a span, as its body is
the lines of the span.  What the parser reports is an input: any spans in the
file, the same one twice included.  `at` is the loop that runs: over the symbols
(`EmitSymbol`), over the lines (`ScanLine`), over the lines of a run
(`TakeLine`, `Cut`), over the lines a cut carries over (`CountBack`, then
`TakeAfterCut` for the line that did not fit), or over the windows (`Window`).

*The migration.*  A row of `files` is its key `<<repo id, path>>`, since the
recreation copies the other columns.  `HasKind` and `AddKind`, `Create`, `Gate`,
`HasRepoId`, `KeyColumns` and then `Stamp` or `Recreate` are the statements of
`migrate` and `migrate_files_schema`; only `Recreate` is a transaction of several.
The index of a newer version may lack the column or the table at first, as this one does
not know what a newer version keeps.
`Search` is a process that only reads from here on; `Rewrite`, `Wipe`, `List`, `Remove`,
`WriteFile` and `SkipFile` are the steps of `reindex_with` on this one table.  The tree does
not change, as `Reindex` is about that.  In `outcome`, "refused" is the version gate,
"failed" an error of `migrate` itself (a second `ADD COLUMN`, a key met twice),
"stuck" an error of the rewrite.

*The server.*  `at[p]` is where the call of process `p` is: `SearchCode` and
`ReindexTool` begin one, `EnsureIndexed` is the existence check before the lock
and under it, `OpenDb` creates the file, `StartReindex` walks and wipes,
`ReindexFile` is one file's transaction, `EndReindex` the report.  An index is only
the set of files it holds, since the tree does not change here.  `Load`, `WriteTmp`
(create, then fill) and `Rename` are `register_in_sidecar`; each may fail
(`RegisterFails`), as may the build (`BuildFails`), and the process may die anywhere
(`Crash`).  `next[p]` is where the call goes then: a `search_code` that has built the
index goes on to its search, and reports the hits of that.  A user may delete an index
directory that no call will read or write again.  `built`, `broken`,
`fresh`, `noted` and `missed` are history variables.

*The search.*  `at` is the stage, `next` the loop index in it.  `Bm25Query` and
`VectorQuery` return any ranking of the chunks that are there: what matches is
left open.  `Fuse`, `ApplyStructuralBoost`, `DedupOverlapping` (one candidate a
step), `LoadEmbeddings` (one lookup a step), `MmrRerank` (one choice a step),
`Hydrate`, `LoadImports`, `LoadExports` (the three statements of `hydrate`) and
`DedupContent` follow in the order of `search_code`.  `Change` is a step of
`FileIndex` between any two of them.  A sort is any row of the candidates that its
comparison admits.  Scores are integers in units of `Scale`, similarities in
units of `SimUnit`.

*The parser.*  Each extractor is a record: what it records for a kind of node and
its form (`records`), whose children it does not look at (`closed`, or `leaves` if it
recorded something), which other extractor takes over below a kind (`turns`), and
the only kinds it looks at, if it drops all others (`only`).  `Grow` builds the tree,
a node at a time in document order; `Begin` starts one of the four walks; `Visit`
is one node of the recursion, its children before what is left to do.  A body node
is merged into its owner.  `Params` and `Signature` are the readers of parameters,
which decide what the chunker tags as a method.

*The embedders.*  `shelf` is what lies in the model directories, `conf` a process's
build and environment.  `ActiveEmbedder` is `active_embedder` with each fallback;
`EngineStep` is a step of the engine with the embedder the call began with;
`SearchCode` opens, verifies and compares.  `made` remembers which model the vectors
of a file are really of, and `stood` which models ever lay where an id is taken from.

## What the runs show

| Run | Result | What it asks |
|---|---|---|
| `reindex_race` | holds | two processes, three reindexes in all, two files, an edit or a move of the repository, a crash anywhere, an empty or a migrated index |
| `embedding` | holds | calls one after the other while checkpoints come, go and are replaced, the environment changes, the tree is edited and the repository moved |
| `watch` | holds | two edits at any moment, one event besides, of another file or of the registry, a failing reindex, a restart |
| `chunker` | holds | every file of up to five lines, with up to two symbols or without a parser |
| `migration` | holds | three processes open an index of any age, new and newer ones included, search or reindex it, and die at any statement |
| `parser` | holds | every syntax tree of up to four nodes below the root in nineteen fragments of the nine grammars |
| `search` | holds | every ranking of both arms over two files, one of which changes twice between the statements, for six kinds of request |
| `server` | holds | two processes search and reindex two repositories, four calls, two failures or deaths, an index deleted by hand |
| `reindex_moved` | violated | is a deleted file gone from the index after a rename of the repository? |
| `migration_stuck` | violated | is `migrate` safe on every open, so that the placeholders can always be rewritten? |
| `server_partial` | violated | does a search answer from an index that was built? |
| `chunker_bytes` | violated | is every Module chunk of several lines within the byte cap, as the test and the insert take for granted? |

Properties of `reindex_race`.  `RowBinding`: vectors and full-text rows are those
of the chunk with their rowid.  `HashTruth`: the hash that lets a file be skipped
is that of what is indexed.  `NothingOrphaned`: the removal pass can reach every
row, and symbols and structural rows belong to the indexed content.
`QuietReindexExact`: after any history of crashes and races, a reindex that
succeeds undisturbed leaves exactly the index of the tree.  These three are said of
a repository that has not been moved: after a move the rows under its old id are
never looked at again (`reindex_moved`), and only a forced reindex helps
(`QuietForceRecovers`, in the run `embedding`).
`IncrementalKeepsCurrent`: an undisturbed incremental reindex never makes an
up-to-date file unsearchable, not for a moment.  `PerFileAtomic`: the refinement
of `FileIndex`.

Properties of `embedding`.  `OneEmbedder`: all vectors of a stamped index
are of the stamped embedder, also after a crash between the two statements of the
stamp.  `AnswersFromOneModel`: a query is compared with vectors of its own model
only, whatever fell back to feature hashing in between, as long as no id ever
stood for two models.  `QuietForceRecovers`: a forced reindex recovers from everything,
the loss of the rows under an old repo id included.

Properties of `watch`.  `CatchesUp`: no change made while the watcher is armed is
lost.  `EveryReindexHasACause`: each reindex has a start of the process or an event of
its own behind it, so that the watcher does not wake itself by reading the tree or by
writing the index, and not twice for one event; its writes of the registry count as
events (see below).

Properties of `chunker`.  `SpansDistinct`: no two chunks have one span, hence one
chunk id (`IndexStore` assumes it of `ChunkFile`).  `CoversFile`: every line is in
some chunk, and a line outside the symbols in exactly one.  `CapsKept`: the
line cap holds although the line after a cut is taken untested, and only the last line
of a chunk goes beyond the byte cap.  `CutsAtBlank`: a segment
with a blank line is cut at one.  `WindowsOverlap`: each window starts
`WINDOW_OVERLAP` lines before the end of the last and goes beyond it.

Properties of `migration`.  `Settled`: a stamp is never ahead of the table, and no
process past `migrate` meets the old one.  `NewerOnlyAddedTo`: an older binary changes
no row and no stamp of a newer index and does not get past its gate; all it does is to add
the column and the table that `migrate` creates before it reads the version.  `PathsKept`: migrating and naming lose no row, also of a
table another process has recreated in between.  `QuietReindexNames`: an undisturbed
reindex leaves one row per file under the repo id.

Properties of `parser`.  `DocumentOrder`: definitions are reported in document order,
each once, a type before what it holds; the chunker keeps the first of two equal
spans.  `LostOnlyInside`: a definition without a symbol lies in one that has one,
with the exceptions the property names.  `MirrorsFunctions`: the two walks for
functions agree as far as the source says.  `ImportsOnce`: an import in a form that the
extractors read (all but those in `Unread`) is recorded once for each module it brings in,
unless it is inside a recorded import, and one in another form never is.  `MethodsTagged`: the tag
of a function says method for receivers of Go, for `self`, `&self` and `&mut self` of
Rust and for a first parameter `self` of Python, never for a typed receiver of Rust, and
otherwise only where a parameter is called `self`.

Properties of `search`.  `HitsDisjoint`: no two hits overlap by more than half, and
there are at most `k`.  `DroppedForAKeptOne`: of a chain of overlaps a dropped
candidate drops no other.  `FusionRespectsRankings`: what both arms put ahead is
ahead.  `DiversityKeepsBest`: MMR is a permutation with the best candidate first.
`UnchangedFilesAnswered`: whatever happens to other files, a candidate of an
unchanged file that is among the first `k` is answered, and its hit is of one version.

Properties of `server`.  `NoTornRegistry`: nobody reads a registry written halfway.
`RecordedStays`: a repository leaves the registry only by the save of a process that
had loaded it before.  `GapsAreClosed`: an index lacks a file only if a build broke
off and none begun since has ended, or one is at work on exactly that file.

The four violated runs are disagreements of the code with its own words; the
findings in `PROJECT.json` quote both.  In short: renaming a repository orphans its
`files` rows (the repo id is a hash of the path, the index moves along); of two
processes that migrate one legacy index the second may take the repo ids back while
the first writes rows under them, and then no reindex succeeds any more, forced or
not, until the index is deleted; `ensure_indexed` takes the existence of the file for
an index, so that a search answers from what another process has only begun to
build, or from what one that died has left, for good; the line after a cut at an
early blank line is not tested against the byte cap, so that a Module chunk may be
half as long again and its tail is in no index.

### Seen on the way

Disagreements that the models show or that were met while reading, without a run
of their own:

* A reindex, forced or not, is many transactions, while docs/ASSURANCE.md:128 speaks
  of one.  `PerFileAtomic` is what holds instead.
* The width of `chunks_vec` is that of the first open.  With an embedder of another
  width a forced reindex is rejected like any other (`CanReprocess`), although the
  error of `verify_embedder_meta` advises it (schema.rs:295).
* The embedder check (incremental.rs:119) and the writes it protects are separate
  transactions: with two processes and two embedders of one width a forced reindex
  of the one between the check and a write of the other mixes them.  The window of
  a search is at server.rs:222.
* An index without a stamp is accepted for any embedder (schema.rs:289), and
  the id of a BERT checkpoint is the stem of its directory (embedder.rs:366): other
  weights under one name pass for the same embedder.
* The watcher is armed after the first build instead of before it (watch.rs:95;
  the repository's README.md:70): a change in between waits for the next one.
* One file whose transaction fails ends the whole reindex (incremental.rs:163), and
  the files after it in the walk stay as they were.
* Two processes on a new database race for `ADD COLUMN`; the second call fails, once.
* The watcher writes the registry at the end of every reindex (watch.rs:76) into the
  config directory, and `relevant` excludes the index directory alone.  With the config
  directory below the watched root, as when a home directory is watched, every reindex
  brings about the next one, for ever, while watch.rs:84 says that "a reindex's own writes
  never retrigger it".  In `Watch` the variable `saves` counts these reindexes, and `MaxExtras`
  is all that ends them.
* `migrate` alters `chunks` and creates its tables before it reads the version
  (schema.rs:66-110, the gate at 134), so that an older binary adds to the index of a
  newer one before it is "rejected loudly" (schema.rs:54).
* In the parsers: exported abstract classes, namespaces and constants of TypeScript
  give no symbols although the comment at parser.rs:1572 says that an exported class
  yields its methods; `parse_source` drops the members of exported classes and
  all methods of Java types, whose bodies it looks up under a name the grammars do
  not have (parser.rs:2366); C and C++ functions behind a pointer, a reference, a
  qualification or an operator have no symbol (parser.rs:2884 says operators do);
  foreign functions of Rust and type aliases of Go have none; `local` and `readonly`
  count as exports of a shell script (parser.rs:2314); grouped, glob and renamed `use`,
  `extern crate`, `import x = require()`, `import()`, `load`, and sources that are
  variables, macros or other expressions are recorded as no imports (`Unread`);
  `self: Box<Self>` is a receiver, but the function is tagged a plain one; a Go function
  whose first parameter is called self is tagged a method; so are the methods of Python,
  which parser.rs:1743-1745 says are rendered as plain functions, and which `is_method`
  (chunker.rs:119) does not list; parse_typescript_import_clause is never called.
* "Top-k hits ordered by descending fused score" (dto.rs) does not hold of diversified
  answers; a registry entry is not absolute when a relative `path` is passed
  (registry.rs:40).

### Bounds, and why they are enough

*Two files, two contents.*  One content is cut into two chunks and the other into
one with the span of the first: every edit frees a rowid and reuses a chunk id,
and a second file competes for the freed rowids.  *Two processes.*  Conflicts are
between what one walked and what another committed; the proofs cover any number.
*Three reindexes:* one to build, and two that overlap, or one that crashes, one
that races and one that must repair.  *One edit* in the race separates what two
processes walked; two where there is one process.  The race begins with one of
the files holding the two-chunk content (`RaceInit`), the other anything.  `MaxStarts` and `MaxEdits` are
bounds in the guards of `Start`, `Edit` and `MoveRepo`; `Rest` is the end they
impose, not a state of the program.  In `Watch`, `EnoughStarts` assumes the bound
on reindexes large enough never to decide, and `EveryReindexHasACause` confirms it;
`MaxFaults` and `MaxBoots` bound failures and restarts, `MaxExtras` the events that no
edit causes, the registry's among them.  The run of the watcher
begins with one file in the tree, and files come and go with one content, so that an edit
may delete it or create the other; what a file is replaced with is the subject of
`reindex_race`.  Of the runs of the engine `reindex_race` uses `SYMMETRY`, for the
processes, which nothing distinguishes; it checks no liveness.  The repository of the
race is at one of two places at first, as which one it is makes no difference.

*The chunker's caps* are scaled: three lines instead of 200, seven bytes instead of
8192, windows of three lines overlapping by one instead of 60 by 15.  The lines
are of 1 (blank), 2 and 4 bytes: as in the code, where no line of an indexable
file is longer than 4096 bytes, a single line always fits and two of the longest
do not.  Five lines are enough for a run that is cut at an early blank line,
carries lines over and is cut again, and for two runs around a symbol.
`MaxFileLines` and `MaxSymbols` bound the inputs in `Init`.

*The embedders* have one process, three reindexes, two changes of a checkpoint or of
a configuration, and an edit or a rename: enough to index with one model, lose it,
fall back, and find another under the same id.  Two model directories and three
models, one of them of another width.

*The parser.*  Four nodes below the root hold a type in a type with two members, or
an export of a class with a method and what follows it.  The nineteen grammars are
fragments: definitions and modules of a language apart, each kind with the forms
and parameters its extractors tell apart.  `MaxNodes` bounds `Grow`.

*The search* is over two files of at most three chunks, one of them between two
versions or gone.  The spans of the versions nest, chain and coincide; one body is a
near-duplicate.  Two changes take a file away and bring it back as another.
`MaxChanges` bounds `Change`.

*The server* has two processes, two repositories of two files and four calls: two
first builds of one index with a wipe between them, or two registrations that
overlap and a third.  `MaxCalls`, `MaxFaults` and `MaxRemovals` are bounds in the
guards.  `SYMMETRY` is over processes, repositories and files, which nothing
distinguishes; the run checks no liveness.

*The migration* has three processes and three openings: two to race, and a third
that finds what they leave, or is late itself.  With two paths one may have two
rows and the other one.  `MaxOpens` bounds the openings.

### Fairness

Only `Watch` states any: the properties of the other modules are safety.  It assumes weak fairness of
`WatcherStep`, the steps of the one thread of the process: it is runnable whenever
it is not blocked in `recv`, `recv_timeout` returns after 300 ms, and SQLite
answers or fails within its busy timeout.  Nothing is assumed of editors, of the
user who restarts the process, or of failures.  A stream of events that never
pauses for 300 ms would keep the loop in its debounce for ever; edits are finite
in the model, so `CatchesUp` says nothing of that.

## What is proved

For every value of the constants that satisfies the named assumptions
(`ChunkFileAssumption`: the spans of one file are distinct; `EmbedderAssumption`,
`NameAssumption`, `LegacyAssumption`, `BoundsAssumption`), in `ReindexProofs`:

* `TypeCorrect`: `Spec => []TypeOK`.  Inductive with `WritesWhatItWalked`: a path
  a process is about to write is one it has walked, so what it writes is a content.
* `RowsStayBound`: `Spec => []RowBinding`.  Every transaction preserves `RowsBound`
  (the lemmas ending in `Bound`).  The heart of it is
  `FreshRowids`: new rowids are beyond those of `chunks`, hence, by `RowsBound`
  itself, beyond those of the virtual tables.
* `Refinement`: `Spec => PerFileAtomic`.  A commit of `Reprocess` is `Publish` of one
  version, `RemoveFile` is `Drop`, `WipeAll` is `Clear`, all else stutters (the
  lemmas ending in `Searchable`).
* `HashesTrue`, `NothingIsOrphaned`: `HashTruth` and `NothingOrphaned`, together, by
  the invariant `SoundInv`.  While nothing has been moved every row is under the one
  repo id or the placeholder (`RowsUnder`, with `JobsAtRoot` for the ids the
  processes hold), and under the former alone once any process is past the rewrite
  (`PlaceholdersOnlyBefore`): otherwise a per-file transaction would leave another row
  of its path with a stale hash.
* `QuietReindexIsExact` and `ForceRecovers`: `QuietReindexExact` and `QuietForceRecovers`.
  `QuietInv` says how far an undisturbed reindex is: `Progress` of any (what it walked
  is the tree, what has left its list is done), `Anew` of a forced one, which needs no
  assumption about what was there before it, since it wipes.
* `CurrentIsKept`: `IncrementalKeepsCurrent`, an action property.  A step of an
  undisturbed process writes what it walked, and what it walked is the tree
  (`TreeInv`).
* `StampIsTrue`: `OneEmbedder`, for one process at a time (`OneWorker`) and an index that
  was not built before there was a stamp.  `StampAgrees`: the vector table is empty from
  the wipe to the second statement of the stamp.

What these assume is needed.  After a move, TLC finds two rows of one path with
different hashes.  With two processes it finds vectors of the wrong embedder: one
wipes and stamps, another wipes, the first inserts, the second stamps its own id.

In `WatchProofs`, for any number of failures, restarts and edits: `RunsTheEngine`
(`WatchSpec => Spec`), by which every theorem above holds of the watcher;
`WatchTypeCorrect`; and `ReindexesHaveCauses`, that is `EveryReindexHasACause`.  It follows
from `PaidFor`: reindexes begun, the one that is due and relevant events not yet
received are together no more than boots, edits, touches and writes of the registry.  Two more are about formulas of
`Watch` that no run lists.  `BurstIsAnswered`: a reindex that a burst brought about and
that succeeds leaves the index of the tree, or the event of the edit that came too late
for its walk is in the channel or in the open window (`Owed`).  `FollowsTheTree`: while the watcher waits
after a reindex that succeeded, the index is that of the tree or a change is owed
(`UpToDateAtRest`), after any failures and restarts.  `BurstInv` says that during a
reindex the tree is untouched since it began or a change is owed, `ArmedInv` the same
of a first build and of every wait.  `FollowsTheTree` assumes `QuietUntilArmed`, no edit
between the start of a first build and the arming of the watcher: such an edit is in no
walk and has no event (watch.rs:95), and TLC shows the claim false with one.  Together they are the safety half
of `CatchesUp`; that the watcher comes to rest at all is the other half.

In `EmbeddingProofs`: `EmbedderIsAnArgument` (`EmbeddingSpec => Spec`) and
`OneModelAnswers`, that is `AnswersFromOneModel`, for any directories, checkpoints,
configurations and changes of them, under the assumptions of `StampIsTrue`.
`NamedRight`: whatever a call works with, and whatever the vectors of a file were made
with, has stood under the id it goes by.  It rests on `EmbedderInv` (the stamp changes
only while there are no vectors) and on `RowBinding` (then there are no chunks either).

In `ChunkerProofs`, for files of any length, any spans a parser reports and any
caps (`CapAssumption`): all six properties of the run `chunker` (`TypeCorrect`,
`ChunkSpansDistinct`, `NoLineLost`, `CapsHold`, `CutAtBlankLines`,
`WindowsOverlapping`).  They follow from one inductive invariant, `IInv`: where each
loop is (`Loops`), what the open segment has accounted (`Segment`), that Module
chunks end before a frontier that only moves forward (`ModulesApart`) and that
every line before it is in some chunk (`Reached`).  `CutsAtBlank` needs `Seams`,
which says of each Module chunk why it ends where it does, and the windows a
relation between the last one and the start of the next (`Windows`).  The byte half of
`CapsKept` needs `BytesInv` besides: the byte counter is that of the counted lines, all of
them but the last fit, and when the last one does not, no earlier line is left to be cut
at, so that nothing oversized is carried over.  It rests on `SumsOfFile`, that the bytes
before a line grow line by line.
`ChunkSpansDistinct` is the fact behind `ChunkFileAssumption`; the two modules keep
different data (a line here, a content there), so the step from one to the other is
by reading.

In `SearchProofs`, for any files, versions, rankings, weights, `rrf_k`, similarities and
any number of changes between the statements: all six properties of the run
`search` (`TypeCorrect`, `HitsAreDisjoint`, `DroppedOnlyForKept`, `FusionKeepsRankings`,
`BestStaysFirst`, `UnchangedAnswered`).  `IInv` has one part per stage, saying what it
has done of its input so far: `Fusion` (in the order of the scores), `Survivors` and
`Coverage` (what is kept is disjoint, what is dropped has a kept one before it),
`Selection` (a permutation, split in selected and remaining), `Hydration` and `Answer`
(each loop's prefix), and `Unchanged` and `UnchangedHits`, which say that of files not
changed so far everything read is still there.  MMR picks the best first
because the kept scores descend and nothing is selected yet; similarity may be
anything.
`FusionRespectsRankings` rests on `DivMonotone`: the later a rank, the less it adds.

In `ServerProofs`, for any number of processes, repositories and files: the four
properties of the run `server` (`TypeCorrect`, `RegistryWhole`, `RecordsStay`,
`NoOtherGaps`).  `Whole`: what a process renames is what it has loaded, since no other
writes its temporary file.  `Recorded`: what is recorded is in what a process is about
to save, or saved since it loaded.  `Gaps`: a file that is missing is still before a
build of that index, unless one broke off.  `PartialAnswers` draws from it what users
may expect where `AnswersFromBuiltIndex` fails (`server_partial`): a search answers from
an incomplete index in these two cases and in no third.

In `MigrationProofs`, for any number of processes, paths and openings: all five
properties of the run `migration` (`TypeCorrect`, `StampTrue`, `NewerIndexOnlyAddedTo`,
`NoPathLost`, `QuietReindexNamed`).  `TypeOK` and `Settled` are inductive together: a
row under the repo id belongs in the new table only, and the engine writes one
without looking.  `NewerOnlyAddedTo` needs `Barred`: nobody is past the gate of a newer
index.  `QuietReindexNames` needs `QuietInv`: how far an undisturbed reindex is
(`Progress`), which `Bystander` says no other process's step can set back unnoticed.

Two more say what the violated run `migration_stuck` needs.  `OnlyLateRecreationsStick`:
while nobody is about to recreate the table with another process past its migration
(`NoLateRecreate`), no rewrite of the placeholders fails, whatever else races, dies or
is left halfway (`KeysFree`: once a process is past the rewrite there are no placeholders,
and before it no placeholder row has one of the repo id beside it).
`MigratedNeverStuck`: an index that has the new table at first never gets there
(`Migrated`: who finds the column never recreates).  The theorems of `ReindexProofs` start
from such an index; that no path has a placeholder row beside its own is true there, and
false while two processes migrate an older one.

In `ParserProofs`, for trees of any size over any fragments of the nine grammars: all
six properties of the run `parser` (`TypeCorrect`, `DefinitionsInDocumentOrder`,
`DefinitionsLostOnlyInside`, `SpansMirrorFunctions`, `ImportsRecordedOnce`,
`TagsFollowReceivers`).  The run lists nineteen fragments of at most four nodes; the
theorems let `Grammars` hold any kinds in any nesting, under these assumptions:

| Assumption | Says | Because |
|---|---|---|
| `GrammarsAssumption` | a fragment has an extension the code knows and a root, and kinds hold kinds of it | what a fragment is |
| `ParametersAssumption` | only a parameter of some kinds is without a name: one behind a pattern, an unnamed one of Go, C and C++, an anonymous `*` or `&` of Ruby | the name of an identifier is its text |
| `NamesAssumption` | outside C and C++ a definition has one of the forms in which its name is read | the field is mandatory in those grammars |
| `SignaturesAssumption` | a Rust function without a body is in a trait or a foreign block | the compiler rejects it elsewhere |
| `GoAssumption` | a Go function is at the top level, a type spec in a type declaration, which holds nothing else that has children but aliases | the grammar of Go |
| `ImportsAssumption` | an import has one of the forms listed in `Brings`, and an `import` or `use` statement holds no node the walks tell apart | its parts are names, aliases and sources |

They are said of texts without syntax errors.  Each of the last five excludes trees on
which a property would be false: a Rust signature outside traits, for one, has no symbol.

The invariant is `IInv`: the tree is one of its grammar, numbered in document order
(`TreeOK`), and every walk follows a route.  A route is the function from nodes to the
extractor that comes by, or none; it is settled by the tree alone (`Route`).  The nodes
left to visit are in document order with the extractors of the route (`Queue`), and the
record holds exactly the entries of those on the route that are neither left to visit
nor below one that is (`Record`).  An invariant on the record and the queue without the
route is not inductive, as nothing would say that what is left to visit was not recorded
already under another extractor.  The properties then follow from routes and tables, with
no further reasoning about steps:

* Order and types are those of `Record`.
* `SpansMirrorFunctions`: the two extractors of a language come by the same nodes but
  below the types at which only one of them stops (`TwinsOf`), and where both come by they say
  the same of a function.
* `DefinitionsLostOnlyInside`: a node no extractor comes by is below one that an extractor
  came by and did not look into (`Hidden`), and that one is reported or overlooked; an
  extractor that comes by a definition whose name can be read reports it (`ToldReported`),
  but for those TypeScript drops below an `export`.
* `ImportsRecordedOnce`: the route comes by a node once, so an entry can only be doubled
  by its row of the table, which has as many entries as `Brings` counts and none for a form
  in `Unread`.
* `TagsFollowReceivers`: the loop over the parameters keeps a name for each that is not
  dropped, in order, so a receiver stays first, and of a typed one of Rust it keeps nothing
  that reads as `self`.

Inductions over nodes take the least counterexample (`FromBelow`), for a set in place of
a predicate.

Only model-checked: `CatchesUp`, as liveness is out of the prover's reach (its safety
half is `FollowsTheTree`).

## What is not modelled

Not going to be: the tokenizer (`tokens.rs`), a pure function of the characters of a
string; the library surface, the command line, the data types of the tools and the
npm launcher, which keep no state; benchmarks and fuzz targets.  Of the embedders the
tensor arithmetic and feature hashing are left out, and with them the fallback of
a single text a model fails on (embedder.rs:418, embedder_gemma.rs:510): its vector
is stored under the model's id, which the code accepts and no table shows.

Abstracted: whether a file is indexable (gitignore, size, UTF-8, long lines) is part
of the tree: `Absent` is also a file the walker skips.  `mtime` is stored but never
decides anything (incremental.rs:160).  A process's steps of `open_db_with` and
`migrate` are one action of `Reindex`; `Migration` interleaves those of `migrate`.  What
a newer version's index looks like is not known to the code; in `Migration` it has
a higher stamp and, of what this version knows, all or none of the column and of the
table, and no process of the newer version runs.  An overflow of the event queue that
`notify` does not report as an error is dropped by `relevant` (watch.rs:163) and is not
in `Watch`.  In `Search` an overflow of `k_rrf + rank + 1` for an absurd `rrf_k` and rounding
of scores are left out.  In `Parser` the grammars are tree-sitter's and given by
fragments; names, types and sources are not spelled out.

Left to do: two processes with two embedders in `Embedding`, which fails today for the
reason named above; a repaired migration (the shape read inside the transaction), which
keeps `NoLateRecreate`; a repaired `ensure_indexed` that looks for a finished
build.

## Running it

`tlc -config reindex_race.cfg MCReindex` and so on for the runs of `PROJECT.json`;
`tlapm ReindexProofs.tla` and so on for the proofs.  Definitions introduced by "A slip" are
plausible bugs; substituted for the definition that follows them they make TLC
find the property violated that `PROJECT.json` names.
