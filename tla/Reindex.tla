------------------------------ MODULE Reindex ------------------------------
(***************************************************************************)
(* The reindex engine (incremental.rs) as its processes run it: the MCP    *)
(* server's reindex tool and lazy first build, and the watch subcommand,   *)
(* each in a process of its own, on one index file, while editors change   *)
(* the working tree.                                                       *)
(*                                                                         *)
(* Nothing but SQLite's transactions orders the processes, so an action is *)
(* one filesystem read or one SQLite transaction (an autocommit statement  *)
(* is a transaction), and the program's control flow between them is a     *)
(* worker's pc.                                                            *)
(***************************************************************************)
EXTENDS IndexStore

CONSTANTS
  Workers,         \* processes that reindex
  Idle,            \* no path is being written
  LegacyEmbedders, \* the embedders a pre-v0.7 index may have been built with
  MaxStarts,       \* bound: reindexes started in a behaviour
  MaxEdits         \* bound: edits and moves in a behaviour

ASSUME LegacyAssumption == LegacyEmbedders \subseteq Embedders
ASSUME BoundsAssumption == MaxStarts \in Nat /\ MaxEdits \in Nat

VARIABLES
  disk,     \* the indexable files of the working tree
  root,     \* the repo id of the directory the tree is in
  db,       \* the index file, as committed
  pc,       \* where each worker is in reindex_with
  job,      \* its arguments, and the repo id it computed
  seen,     \* walked: the contents its walk has read
  todo,     \* the paths left in the loop it is in
  cur,      \* the path it is about to write
  metaId,   \* the embedder_id row it has read
  outcome,  \* how its last reindex ended
  quiet,    \* nothing else changed the tree or the index since it started
  starts,   \* how many reindexes have started
  edits,    \* how often the tree was edited or moved
  moved     \* the repository was moved at least once

workerVars == <<pc, job, seen, todo, cur, metaId, outcome>>
counters == <<starts, edits, moved>>
vars == <<disk, root, db, workerVars, quiet, counters>>

Phases ==
  {"idle", "walk", "rewrite", "verifyId", "verifyDim", "stampedId", "stampedDim",
   "stampId", "stampDim", "wipe", "list", "remove", "files", "write"}

Outcomes == {"none", "ok", "refused", "rejected", "aborted"}

Job  == [force : BOOLEAN, emb : Embedders, rid : RepoIds]
Tree == [Paths -> Contents \union {Absent}]

EmptyTree == [p \in Paths |-> Absent]

------------------------------------------------------------------------------

(* A pre-v0.7 index of a repository with one file, just migrated. *)
LegacyDb(p, c, e) == Reprocess(OpenDb(MissingDb, e), p, c, Placeholder, e)

Init ==
  /\ disk \in Tree
  /\ root \in RepoIds
  /\ db \in {MissingDb} \union
            {LegacyDb(p, c, e) : p \in Paths, c \in Contents, e \in LegacyEmbedders}
  /\ pc = [w \in Workers |-> "idle"]
  /\ job \in [Workers -> {[force |-> FALSE, emb |-> e, rid |-> root] : e \in Embedders}]
  /\ seen = [w \in Workers |-> EmptyTree]
  /\ todo = [w \in Workers |-> {}]
  /\ cur = [w \in Workers |-> Idle]
  /\ metaId = [w \in Workers |-> NoEmbedder]
  /\ outcome = [w \in Workers |-> "none"]
  /\ quiet = [w \in Workers |-> FALSE]
  /\ starts = 0
  /\ edits = 0
  /\ moved = FALSE

(* Worker w commits a transaction that takes the index to `new`. *)
Commit(w, new) ==
  /\ db' = new
  /\ quiet' = [v \in Workers |-> quiet[v] /\ (v = w \/ new = db)]

Goto(w, phase) == pc' = [pc EXCEPT ![w] = phase]

(* reindex_with returns, or its process dies: its local state is gone. *)
Leave(w, how) ==
  /\ Goto(w, "idle")
  /\ seen' = [seen EXCEPT ![w] = EmptyTree]
  /\ todo' = [todo EXCEPT ![w] = {}]
  /\ cur' = [cur EXCEPT ![w] = Idle]
  /\ metaId' = [metaId EXCEPT ![w] = NoEmbedder]
  /\ outcome' = [outcome EXCEPT ![w] = how]
  /\ UNCHANGED job

------------------------------------------------------------------------------

(***************************************************************************)
(* The callers: open_db_with, migrate, then reindex_with.                  *)
(***************************************************************************)
Start(w, force, e) ==
  /\ pc[w] = "idle"
  /\ starts < MaxStarts
  /\ starts' = starts + 1
  /\ Goto(w, "walk")
  /\ job' = [job EXCEPT ![w] = [force |-> force, emb |-> e, rid |-> root]]
  /\ todo' = [todo EXCEPT ![w] = Paths]
  /\ outcome' = [outcome EXCEPT ![w] = "none"]
  /\ db' = OpenDb(db, e)
  /\ quiet' = [v \in Workers |-> v = w \/ (quiet[v] /\ db' = db)]
  /\ UNCHANGED <<disk, root, seen, cur, metaId, edits, moved>>

(* walk_repo reads the files one after the other, in no order of its own. *)
WalkFile(w, p) ==
  /\ pc[w] = "walk"
  /\ p \in todo[w]
  /\ seen' = [seen EXCEPT ![w][p] = disk[p]]
  /\ todo' = [todo EXCEPT ![w] = @ \ {p}]
  /\ Goto(w, IF todo[w] = {p} THEN "rewrite" ELSE "walk")
  /\ UNCHANGED <<counters, disk, root, db, job, cur, metaId, outcome, quiet>>

Walked(w) == {p \in Paths : seen[w][p] # Absent}

Rewrite(w) ==
  /\ pc[w] = "rewrite"
  /\ IF CanRewrite(db, job[w].rid)
       THEN /\ Commit(w, RewritePlaceholder(db, job[w].rid))
            /\ Goto(w, IF job[w].force THEN "wipe" ELSE "verifyId")
            /\ UNCHANGED <<job, seen, todo, cur, metaId, outcome>>
       ELSE /\ Leave(w, "rejected")
            /\ UNCHANGED <<db, quiet>>
  /\ UNCHANGED <<counters, disk, root>>

(* read_embedder_meta reads its two rows in two statements, and an          *)
(* incremental reindex calls it twice: to verify, and to see if there is a  *)
(* stamp at all.                                                            *)
ReadMetaId(w) ==
  /\ \/ pc[w] = "verifyId" /\ Goto(w, "verifyDim")
     \/ pc[w] = "stampedId" /\ Goto(w, "stampedDim")
  /\ metaId' = [metaId EXCEPT ![w] = db.embId]
  /\ UNCHANGED <<counters, disk, root, db, job, seen, todo, cur, outcome, quiet>>

(* The refuse-to-mix gate of an incremental reindex. *)
Verify(w) ==
  /\ pc[w] = "verifyDim"
  /\ IF EmbedderAccepted(metaId[w], db.embDim, job[w].emb)
       THEN Goto(w, "stampedId") /\ UNCHANGED <<job, seen, todo, cur, metaId, outcome>>
       ELSE Leave(w, "refused")
  /\ UNCHANGED <<counters, disk, root, db, quiet>>

CheckStamped(w) ==
  /\ pc[w] = "stampedDim"
  /\ Goto(w, IF Stamped(metaId[w], db.embDim) THEN "list" ELSE "stampId")
  /\ metaId' = [metaId EXCEPT ![w] = NoEmbedder]
  /\ UNCHANGED <<counters, disk, root, db, job, seen, todo, cur, outcome, quiet>>

(* write_embedder_meta: two statements, each committed on its own. *)
StampId(w) ==
  /\ pc[w] = "stampId"
  /\ Commit(w, [db EXCEPT !.embId = job[w].emb])
  /\ Goto(w, "stampDim")
  /\ UNCHANGED <<counters, disk, root, job, seen, todo, cur, metaId, outcome>>

StampDim(w) ==
  /\ pc[w] = "stampDim"
  /\ Commit(w, [db EXCEPT !.embDim = Dim[job[w].emb]])
  /\ IF job[w].force
       THEN Goto(w, "files") /\ todo' = [todo EXCEPT ![w] = Walked(w)]
       ELSE Goto(w, "list") /\ UNCHANGED todo
  /\ UNCHANGED <<counters, disk, root, job, seen, cur, metaId, outcome>>

(* A slip: a forced reindex that forgets to stamp the index anew. *)
WipeKeepStamp(w) ==
  /\ pc[w] = "wipe"
  /\ Commit(w, WipeAll(db))
  /\ Goto(w, "files")
  /\ todo' = [todo EXCEPT ![w] = Walked(w)]
  /\ UNCHANGED <<counters, disk, root, job, seen, cur, metaId, outcome>>

Wipe(w) ==
  /\ pc[w] = "wipe"
  /\ Commit(w, WipeAll(db))
  /\ Goto(w, "stampId")
  /\ UNCHANGED <<counters, disk, root, job, seen, todo, cur, metaId, outcome>>

(* A slip: the removal pass takes every stored path. *)
ListAllStored(w) ==
  /\ pc[w] = "list"
  /\ todo' = [todo EXCEPT ![w] = StoredPaths(db, job[w].rid)]
  /\ Goto(w, "remove")
  /\ UNCHANGED <<counters, disk, root, db, job, seen, cur, metaId, outcome, quiet>>

(* stored_file_paths, read once; those not walked are to be removed. *)
ListStored(w) ==
  /\ pc[w] = "list"
  /\ todo' = [todo EXCEPT ![w] = StoredPaths(db, job[w].rid) \ Walked(w)]
  /\ Goto(w, "remove")
  /\ UNCHANGED <<counters, disk, root, db, job, seen, cur, metaId, outcome, quiet>>

Remove(w, p) ==
  /\ pc[w] = "remove"
  /\ p \in todo[w]
  /\ Commit(w, RemoveFile(db, p, job[w].rid))
  /\ todo' = [todo EXCEPT ![w] = @ \ {p}]
  /\ UNCHANGED <<counters, disk, root, pc, job, seen, cur, metaId, outcome>>

RemoveDone(w) ==
  /\ pc[w] = "remove"
  /\ todo[w] = {}
  /\ Goto(w, "files")
  /\ todo' = [todo EXCEPT ![w] = Walked(w)]
  /\ UNCHANGED <<counters, disk, root, db, job, seen, cur, metaId, outcome, quiet>>

(* The per-file transaction, and the error that ends the whole reindex. *)
ReprocessFile(w, p) ==
  /\ IF CanReprocess(db, p, seen[w][p], job[w].emb)
       THEN /\ Commit(w, Reprocess(db, p, seen[w][p], job[w].rid, job[w].emb))
            /\ Goto(w, "files")
            /\ todo' = [todo EXCEPT ![w] = @ \ {p}]
            /\ cur' = [cur EXCEPT ![w] = Idle]
            /\ UNCHANGED <<job, seen, metaId, outcome>>
       ELSE /\ Leave(w, "rejected")
            /\ UNCHANGED <<db, quiet>>
  /\ UNCHANGED <<counters, disk, root>>

ForceFile(w, p) ==
  /\ pc[w] = "files"
  /\ job[w].force
  /\ p \in todo[w]
  /\ ReprocessFile(w, p)

(* A slip: a file with a row is skipped, as by an mtime trusted alone. *)
SkipKnownFile(w, p) ==
  /\ pc[w] = "files"
  /\ ~ job[w].force
  /\ p \in todo[w]
  /\ StoredHash(db, p, job[w].rid) # Absent
  /\ todo' = [todo EXCEPT ![w] = @ \ {p}]
  /\ UNCHANGED <<counters, disk, root, db, pc, job, seen, cur, metaId, outcome, quiet>>

(* An incremental reindex skips a file whose stored hash is the walked one. *)
SkipFile(w, p) ==
  /\ pc[w] = "files"
  /\ ~ job[w].force
  /\ p \in todo[w]
  /\ StoredHash(db, p, job[w].rid) = seen[w][p]
  /\ todo' = [todo EXCEPT ![w] = @ \ {p}]
  /\ UNCHANGED <<counters, disk, root, db, pc, job, seen, cur, metaId, outcome, quiet>>

(* Otherwise it goes on to write it, as it does when the read itself fails  *)
(* (stored_file_state turns any error into "not stored").                   *)
ChangedFile(w, p) ==
  /\ pc[w] = "files"
  /\ ~ job[w].force
  /\ p \in todo[w]
  /\ Goto(w, "write")
  /\ cur' = [cur EXCEPT ![w] = p]
  /\ UNCHANGED <<counters, disk, root, db, job, seen, todo, metaId, outcome, quiet>>

WriteFile(w) ==
  /\ pc[w] = "write"
  /\ ReprocessFile(w, cur[w])

Finish(w) ==
  /\ pc[w] = "files"
  /\ todo[w] = {}
  /\ Leave(w, "ok")
  /\ UNCHANGED <<counters, disk, root, db, quiet>>

(***************************************************************************)
(* SQLITE_BUSY after the 5 s timeout, a full disk, a read error, or the    *)
(* death of the process: the open transaction never happened, everything   *)
(* committed before it stays, and reindex_with is over.                    *)
(***************************************************************************)
Abort(w) ==
  /\ pc[w] # "idle"
  /\ Leave(w, "aborted")
  /\ UNCHANGED <<counters, disk, root, db, quiet>>

------------------------------------------------------------------------------

(* Editors, git and builds: a file appears, changes or disappears. *)
Edit(p, c) ==
  /\ edits < MaxEdits
  /\ edits' = edits + 1
  /\ disk' = [disk EXCEPT ![p] = c]
  /\ disk' # disk
  /\ quiet' = [w \in Workers |-> FALSE]
  /\ UNCHANGED <<root, db, workerVars, starts, moved>>

(* The repository directory, index included, is moved or renamed while no  *)
(* process is working on it: its canonical path, and so its repo id, are   *)
(* others from now on.                                                     *)
MoveRepo(r) ==
  /\ r # root
  /\ \A w \in Workers : pc[w] = "idle"
  /\ edits < MaxEdits
  /\ edits' = edits + 1
  /\ root' = r
  /\ moved' = TRUE
  /\ quiet' = [w \in Workers |-> FALSE]
  /\ UNCHANGED <<disk, db, workerVars, starts>>

(* The bounds, not the program, end a behaviour here. *)
Rest ==
  /\ \A w \in Workers : pc[w] = "idle"
  /\ starts = MaxStarts
  /\ edits = MaxEdits
  /\ UNCHANGED vars

Step(w) ==
  \/ \E p \in Paths :
       \/ WalkFile(w, p)
       \/ Remove(w, p)
       \/ ForceFile(w, p)
       \/ SkipFile(w, p)
       \/ ChangedFile(w, p)
  \/ Rewrite(w)
  \/ ReadMetaId(w)
  \/ Verify(w)
  \/ CheckStamped(w)
  \/ StampId(w)
  \/ StampDim(w)
  \/ Wipe(w)
  \/ ListStored(w)
  \/ RemoveDone(w)
  \/ WriteFile(w)
  \/ Finish(w)

Next ==
  \/ \E w \in Workers :
       \/ \E force \in BOOLEAN, e \in Embedders : Start(w, force, e)
       \/ Step(w)
       \/ Abort(w)
  \/ \E p \in Paths, c \in Contents \union {Absent} : Edit(p, c)
  \/ \E r \in RepoIds : MoveRepo(r)
  \/ Rest

Spec == Init /\ [][Next]_vars

------------------------------------------------------------------------------

(* Every variable has its type: the one type invariant of this module. *)
TypeOK ==
  /\ disk \in Tree
  /\ root \in RepoIds
  /\ DbType(db)
  /\ pc \in [Workers -> Phases]
  /\ job \in [Workers -> Job]
  /\ seen \in [Workers -> Tree]
  /\ todo \in [Workers -> SUBSET Paths]
  /\ cur \in [Workers -> Paths \union {Idle}]
  /\ metaId \in [Workers -> Embedders \union {NoEmbedder}]
  /\ outcome \in [Workers -> Outcomes]
  /\ quiet \in [Workers -> BOOLEAN]
  /\ starts \in Nat
  /\ edits \in Nat
  /\ moved \in BOOLEAN

(***************************************************************************)
(* Rowids are reused as soon as they are free, and the vector and          *)
(* full-text tables know a chunk only by its rowid.  In every committed    *)
(* state, whatever the processes interleave and wherever they die, a row   *)
(* of either table is that of the chunk which now has its rowid            *)
(* (incremental.rs, "ROWID stability").                                    *)
(***************************************************************************)
RowBinding == RowsBound(db)

(***************************************************************************)
(* Skipping a file whose stored hash matches is sound only if that hash is *)
(* the hash of what is indexed, also when the content was walked long      *)
(* before it was written and other processes wrote in between.  (Rows of a *)
(* moved repository stay under its old id and are never looked at again.)  *)
(***************************************************************************)
HashTruth == ~ moved => FileRowsTrue(db)

(***************************************************************************)
(* Nothing in the index is beyond the reach of the incremental removal     *)
(* pass, which goes by the files table, and no symbol, import or export    *)
(* outlives the content it was parsed from: while the repository has not   *)
(* been moved, after which that pass no longer finds the old rows.         *)
(***************************************************************************)
NothingOrphaned == ~ moved => NoOrphans(db)

(***************************************************************************)
(* A reindex that returned without error, and since whose start neither    *)
(* the tree nor the index was touched by anyone else, leaves the index     *)
(* exactly that of the tree: after any history of aborted, crashed and     *)
(* racing reindexes before it, incremental ones included, as long as the   *)
(* repository has not been moved (VanishedFilesRemoved drops that).        *)
(***************************************************************************)
QuietReindexExact ==
  \A w \in Workers :
    ~ moved /\ outcome[w] = "ok" /\ quiet[w] => IndexExact(db, disk, root)

(* The index returns for path p exactly what is in the tree. *)
Current(p) == Searchable(db, p) = TextsOf(p, disk[p])

(* Worker w, alone with the tree and the index, takes a step of its own. *)
AloneStep(w) == pc[w] # "idle" /\ quiet[w] /\ quiet'[w]

(***************************************************************************)
(* An incremental reindex that nothing disturbs makes no file unsearchable *)
(* whose indexed chunks are up to date, not even for a moment.             *)
(***************************************************************************)
IncrementalKeepsCurrent ==
  [][\A w \in Workers : AloneStep(w) /\ ~ job[w].force =>
       \A p \in Paths : Current(p) => Current(p)']_vars

(***************************************************************************)
(* The vectors of a stamped index all come from the embedder of its stamp: *)
(* a query is never compared with vectors of another model.                *)
(***************************************************************************)
OneEmbedder ==
  Stamped(db.embId, db.embDim) => \A r \in DOMAIN db.vec : db.vec[r].by = db.embId

(***************************************************************************)
(* A forced reindex that nothing disturbs and that returns without error   *)
(* recovers the index from anything: moves of the repository, other        *)
(* embedders, half-written stamps.                                         *)
(***************************************************************************)
QuietForceRecovers ==
  \A w \in Workers :
    outcome[w] = "ok" /\ quiet[w] /\ job[w].force =>
      /\ IndexExact(db, disk, root)
      /\ db.embId = job[w].emb /\ db.embDim = Dim[job[w].emb]
      /\ \A r \in DOMAIN db.vec : db.vec[r].by = job[w].emb

(***************************************************************************)
(* A reindex that returned without error, and since whose start nothing    *)
(* else touched the tree or the index, leaves nothing searchable of a file *)
(* that is gone ("remove rows for files that vanished from disk",          *)
(* incremental.rs:87): the part of QuietReindexExact a user meets first.   *)
(* The removal pass only lists the rows under the repo id of the path the  *)
(* repository has now.                                                     *)
(***************************************************************************)
VanishedFilesRemoved ==
  \A w \in Workers : outcome[w] = "ok" /\ quiet[w] =>
    \A p \in Paths : disk[p] = Absent => Searchable(db, p) = {}

------------------------------------------------------------------------------

(***************************************************************************)
(* The engine implements the promise of FileIndex: each transaction shows  *)
(* a search one whole version of one file more or less, or nothing at all. *)
(***************************************************************************)
Abs == INSTANCE FileIndex WITH
         Files <- Paths,
         Versions <- [p \in Paths |-> {TextsOf(p, c) : c \in Contents}],
         idx <- [p \in Paths |-> Searchable(db, p)]

PerFileAtomic == Abs!Spec
=============================================================================
