----------------------------- MODULE Migration -----------------------------
(***************************************************************************)
(* migrate (schema.rs), statement by statement, by every process that      *)
(* opens the index, and what the engine then does to the files table.      *)
(*                                                                         *)
(* migrate brings `files` from the legacy key (path) to (repo_id, path).   *)
(* Only the recreation of the table is a transaction; what it is decided   *)
(* by is read before, each time in a statement of its own.  Of the other   *)
(* tables only chunks matters, for its `kind` column.  A files row is its  *)
(* key: the recreation copies the other columns.                           *)
(***************************************************************************)
EXTENDS Integers

CONSTANTS
  Paths,        \* relative paths of the files under the root
  Workers,      \* processes
  RepoId,       \* blake3 of the canonical root
  Placeholder,  \* MIGRATION_PLACEHOLDER_REPO_ID
  NoRepo,       \* the repo id of a row of the legacy table, which has none
  MaxOpens      \* bound: how often the index is opened in a behaviour

ASSUME KeyAssumption ==
  RepoId # Placeholder /\ RepoId # NoRepo /\ Placeholder # NoRepo
ASSUME OpensAssumption == MaxOpens \in Nat

VARIABLES
  tree,     \* the indexable files
  shape,    \* files: no table yet, the legacy key, or the composite key
  files,    \* the keys of its rows
  kind,     \* chunks has the column `kind`
  version,  \* schema_version in meta, 0 if absent
  at,       \* the statement a process is at
  sawRepoId, \* column_exists(files, repo_id), as it has read it
  todo,     \* the paths left in the loop of the engine it is in
  outcome,  \* how its last call ended
  quiet,    \* nothing else has changed the index since it opened it
  opens

local == <<at, sawRepoId, todo, outcome>>
index == <<shape, files, kind, version>>
vars  == <<tree, index, local, quiet, opens>>

SCHEMA_VERSION == 1

Migrating == {"hasKind", "addKind", "create", "gate", "hasRepoId", "keyColumns", "stamp",
              "recreate"}
Engine    == {"rewrite", "wipe", "list", "remove", "write"}
Shapes    == {"missing", "legacy", "composite"}
Outcomes  == {"none", "opened", "ok", "refused", "failed", "stuck", "aborted"}

Listed  == {key[2] : key \in files}
Named   == {p \in Listed : <<RepoId, p>> \in files}
Unnamed == {p \in Listed : <<Placeholder, p>> \in files}

(***************************************************************************)
(* No index; that of a version before 0.7; one of this version, its        *)
(* placeholder rows rewritten or not; or one of a later version, which     *)
(* need not have what this one expects: the column, or the table at all.   *)
(***************************************************************************)
Init ==
  /\ tree \in SUBSET Paths
  /\ \E stored \in SUBSET Paths :
       \/ /\ stored = {}
          /\ shape = "missing" /\ files = {} /\ kind = FALSE /\ version = 0
       \/ /\ shape = "legacy" /\ files = {NoRepo} \X stored /\ kind = TRUE /\ version = 0
       \/ /\ shape = "composite"
          /\ \E r \in {RepoId, Placeholder} : files = {r} \X stored
          /\ \/ kind = TRUE /\ version = SCHEMA_VERSION
             \/ kind \in BOOLEAN /\ version = SCHEMA_VERSION + 1
       \/ /\ stored = {}
          /\ shape = "missing" /\ files = {}
          /\ kind \in BOOLEAN /\ version = SCHEMA_VERSION + 1
  /\ at = [w \in Workers |-> "idle"]
  /\ sawRepoId = [w \in Workers |-> FALSE]
  /\ todo = [w \in Workers |-> {}]
  /\ outcome = [w \in Workers |-> "none"]
  /\ quiet = [w \in Workers |-> FALSE]
  /\ opens = 0

Goto(w, place) == at' = [at EXCEPT ![w] = place]

(* The call of process w is over, with its connection and its locals. *)
Leave(w, how) ==
  /\ Goto(w, "idle")
  /\ sawRepoId' = [sawRepoId EXCEPT ![w] = FALSE]
  /\ todo' = [todo EXCEPT ![w] = {}]
  /\ outcome' = [outcome EXCEPT ![w] = how]

(* Process w commits: for the others the index may not be quiet any more. *)
Commits(w) ==
  quiet' = [v \in Workers |-> quiet[v] /\ (v = w \/ UNCHANGED index)]

------------------------------------------------------------------------------

(* open_db_with creates chunks, without `kind`, and chunks_vec if need be. *)
Open(w) ==
  /\ at[w] = "idle"
  /\ opens < MaxOpens
  /\ opens' = opens + 1
  /\ Goto(w, "hasKind")
  /\ outcome' = [outcome EXCEPT ![w] = "none"]
  /\ quiet' = [quiet EXCEPT ![w] = TRUE]
  /\ UNCHANGED <<tree, index, sawRepoId, todo>>

HasKind(w) ==
  /\ at[w] = "hasKind"
  /\ Goto(w, IF kind THEN "create" ELSE "addKind")
  /\ UNCHANGED <<tree, index, sawRepoId, todo, outcome, quiet, opens>>

(* ALTER TABLE fails if another process has added the column by now. *)
AddKind(w) ==
  /\ at[w] = "addKind"
  /\ IF kind THEN Leave(w, "failed") /\ UNCHANGED kind
             ELSE Goto(w, "create") /\ kind' = TRUE /\ UNCHANGED <<sawRepoId, todo, outcome>>
  /\ UNCHANGED <<tree, shape, files, version, opens>>
  /\ Commits(w)

(* CREATE TABLE IF NOT EXISTS: a new index begins with the legacy key, too. *)
Create(w) ==
  /\ at[w] = "create"
  /\ shape' = IF shape = "missing" THEN "legacy" ELSE shape
  /\ Goto(w, "gate")
  /\ UNCHANGED <<tree, files, kind, version, sawRepoId, todo, outcome, opens>>
  /\ Commits(w)

(* A slip: the gate stamps the version it is about to bring about. *)
GateStamping(w) ==
  /\ at[w] = "gate"
  /\ IF version > SCHEMA_VERSION
       THEN Leave(w, "refused") /\ UNCHANGED version
       ELSE /\ Goto(w, "hasRepoId")
            /\ version' = SCHEMA_VERSION
            /\ UNCHANGED <<sawRepoId, todo, outcome>>
  /\ UNCHANGED <<tree, shape, files, kind, opens>>
  /\ Commits(w)

(* A slip: the next version is let through. *)
GateLate(w) ==
  /\ at[w] = "gate"
  /\ IF version > SCHEMA_VERSION + 1
       THEN Leave(w, "refused")
       ELSE Goto(w, "hasRepoId") /\ UNCHANGED <<sawRepoId, todo, outcome>>
  /\ UNCHANGED <<tree, index, quiet, opens>>

(* The downgrade gate. *)
Gate(w) ==
  /\ at[w] = "gate"
  /\ IF version > SCHEMA_VERSION
       THEN Leave(w, "refused")
       ELSE Goto(w, "hasRepoId") /\ UNCHANGED <<sawRepoId, todo, outcome>>
  /\ UNCHANGED <<tree, index, quiet, opens>>

HasRepoId(w) ==
  /\ at[w] = "hasRepoId"
  /\ sawRepoId' = [sawRepoId EXCEPT ![w] = shape = "composite"]
  /\ Goto(w, "keyColumns")
  /\ UNCHANGED <<tree, index, todo, outcome, quiet, opens>>

(* files_pk_is_composite, read after the column and apart from it. *)
KeyColumns(w) ==
  /\ at[w] = "keyColumns"
  /\ Goto(w, IF sawRepoId[w] /\ shape = "composite" THEN "stamp" ELSE "recreate")
  /\ UNCHANGED <<tree, index, sawRepoId, todo, outcome, quiet, opens>>

Stamp(w) ==
  /\ at[w] = "stamp"
  /\ version' = SCHEMA_VERSION
  /\ Goto(w, "rewrite")
  /\ UNCHANGED <<tree, shape, files, kind, sawRepoId, todo, outcome, opens>>
  /\ Commits(w)

(* A slip: the rows are left for the first reindex to write again. *)
RecreateEmpty(w) ==
  /\ at[w] = "recreate"
  /\ shape' = "composite" /\ files' = {} /\ version' = SCHEMA_VERSION
  /\ Goto(w, "rewrite")
  /\ UNCHANGED <<tree, kind, sawRepoId, todo, outcome, opens>>
  /\ Commits(w)

(* A slip: the copy forgets the repo id. *)
RecreateUnnamed(w) ==
  /\ at[w] = "recreate"
  /\ shape' = "composite" /\ version' = SCHEMA_VERSION
  /\ Goto(w, "rewrite")
  /\ UNCHANGED <<tree, files, kind, sawRepoId, todo, outcome, opens>>
  /\ Commits(w)

(***************************************************************************)
(* One transaction, the stamp included; it takes the table as it is now,   *)
(* which need not be the one that was looked at: two rows of one path      *)
(* cannot both get the placeholder.                                        *)
(***************************************************************************)
Recreate(w) ==
  /\ at[w] = "recreate"
  /\ IF Unnamed \intersect Named # {}
       THEN Leave(w, "failed") /\ UNCHANGED <<shape, files, version>>
       ELSE /\ shape' = "composite"
            /\ files' = {Placeholder} \X Listed
            /\ version' = SCHEMA_VERSION
            /\ Goto(w, "rewrite")
            /\ UNCHANGED <<sawRepoId, todo, outcome>>
  /\ UNCHANGED <<tree, kind, opens>>
  /\ Commits(w)

------------------------------------------------------------------------------

(* A search has migrated the index and only reads from here on. *)
Search(w) ==
  /\ at[w] = "rewrite"
  /\ Leave(w, "opened")
  /\ UNCHANGED <<tree, index, quiet, opens>>

(* A slip: only an index without rows of its own is rewritten. *)
RewriteIfNew(w) ==
  /\ at[w] = "rewrite"
  /\ IF Named # {}
       THEN UNCHANGED files
       ELSE files' = {RepoId} \X Listed
  /\ \E next \in {"wipe", "list"} : Goto(w, next)
  /\ UNCHANGED <<tree, shape, kind, version, sawRepoId, todo, outcome, opens>>
  /\ Commits(w)

(* One UPDATE, before a forced reindex wipes the index as well: the new     *)
(* keys must be free.                                                      *)
Rewrite(w) ==
  /\ at[w] = "rewrite"
  /\ IF Unnamed \intersect Named # {}
       THEN Leave(w, "stuck") /\ UNCHANGED files
       ELSE /\ files' = {RepoId} \X Listed
            /\ \E next \in {"wipe", "list"} : Goto(w, next)
            /\ UNCHANGED <<sawRepoId, todo, outcome>>
  /\ UNCHANGED <<tree, shape, kind, version, opens>>
  /\ Commits(w)

Wipe(w) ==
  /\ at[w] = "wipe"
  /\ files' = {}
  /\ Goto(w, "write")
  /\ todo' = [todo EXCEPT ![w] = tree]
  /\ UNCHANGED <<tree, shape, kind, version, sawRepoId, outcome, opens>>
  /\ Commits(w)

(* stored_file_paths: the rows under the repo id. *)
List(w) ==
  /\ at[w] = "list"
  /\ Goto(w, "remove")
  /\ todo' = [todo EXCEPT ![w] = Named \ tree]
  /\ UNCHANGED <<tree, index, sawRepoId, outcome, quiet, opens>>

Remove(w, p) ==
  /\ at[w] = "remove"
  /\ p \in todo[w]
  /\ files' = files \ {<<RepoId, p>>}
  /\ todo' = [todo EXCEPT ![w] = @ \ {p}]
  /\ UNCHANGED <<tree, shape, kind, version, at, sawRepoId, outcome, opens>>
  /\ Commits(w)

RemoveDone(w) ==
  /\ at[w] = "remove"
  /\ todo[w] = {}
  /\ Goto(w, "write")
  /\ todo' = [todo EXCEPT ![w] = tree]
  /\ UNCHANGED <<tree, index, sawRepoId, outcome, quiet, opens>>

(* The upsert replaces a row of the same repo id, and no other. *)
WriteFile(w, p) ==
  /\ at[w] = "write"
  /\ p \in todo[w]
  /\ files' = files \union {<<RepoId, p>>}
  /\ todo' = [todo EXCEPT ![w] = @ \ {p}]
  /\ UNCHANGED <<tree, shape, kind, version, at, sawRepoId, outcome, opens>>
  /\ Commits(w)

(* An incremental reindex skips what has a row with the hash of the file.  *)
(* (A forced one has wiped them; if another process has put one back by    *)
(* now, WriteFile is the same as this.)                                    *)
SkipFile(w, p) ==
  /\ at[w] = "write"
  /\ p \in todo[w]
  /\ p \in Named
  /\ todo' = [todo EXCEPT ![w] = @ \ {p}]
  /\ UNCHANGED <<tree, index, at, sawRepoId, outcome, quiet, opens>>

Finish(w) ==
  /\ at[w] = "write"
  /\ todo[w] = {}
  /\ Leave(w, "ok")
  /\ UNCHANGED <<tree, index, quiet, opens>>

(* An error of SQLite's or of another kind, or the death of the process.   *)
Abort(w) ==
  /\ at[w] # "idle"
  /\ Leave(w, "aborted")
  /\ UNCHANGED <<tree, index, quiet, opens>>

(* The bound, not the program, ends a behaviour here. *)
Rest ==
  /\ \A w \in Workers : at[w] = "idle"
  /\ opens = MaxOpens
  /\ UNCHANGED vars

Step(w) ==
  \/ Open(w) \/ HasKind(w) \/ AddKind(w) \/ Create(w)
  \/ Gate(w) \/ HasRepoId(w) \/ KeyColumns(w) \/ Stamp(w) \/ Recreate(w)
  \/ Search(w)
  \/ Rewrite(w) \/ Wipe(w) \/ List(w) \/ RemoveDone(w) \/ Finish(w)
  \/ \E p \in Paths : Remove(w, p) \/ WriteFile(w, p) \/ SkipFile(w, p)
  \/ Abort(w)

Next == (\E w \in Workers : Step(w)) \/ Rest

Spec == Init /\ [][Next]_vars

------------------------------------------------------------------------------

(* Every variable has its type, and a legacy row has no repo id: the one   *)
(* type invariant of this module.                                          *)
TypeOK ==
  /\ tree \in SUBSET Paths
  /\ shape \in Shapes
  /\ files \in SUBSET ((IF shape = "composite" THEN {RepoId, Placeholder} ELSE {NoRepo})
                         \X Paths)
  /\ kind \in BOOLEAN
  /\ version \in Nat
  /\ at \in [Workers -> Migrating \union Engine \union {"idle"}]
  /\ sawRepoId \in [Workers -> BOOLEAN]
  /\ todo \in [Workers -> SUBSET Paths]
  /\ outcome \in [Workers -> Outcomes]
  /\ quiet \in [Workers -> BOOLEAN]
  /\ opens \in Nat

(***************************************************************************)
(* Whatever processes migrate at once and wherever they die: an index with *)
(* the stamp of this version has the new table, so that the stamp may be   *)
(* trusted (schema.rs, "survives a kill after COMMIT"), and no process     *)
(* that is past migrate meets a table without repo_id.                     *)
(***************************************************************************)
Settled ==
  version = SCHEMA_VERSION \/ (\E w \in Workers : at[w] \in Engine \union {"stamp"})
    => shape = "composite"

(***************************************************************************)
(* An older binary changes no row and no stamp of the index of a newer one *)
(* and never gets to the engine in it ("rejected loudly", schema.rs:54).   *)
(* It does not leave that index alone: migrate reads the stamp only after  *)
(* its own ALTER and CREATE statements, so the column and the table that   *)
(* the newer version has given up are there again.  The property allows    *)
(* these additions, and no others.                                         *)
(***************************************************************************)
NewerOnlyAddedTo ==
  [][version > SCHEMA_VERSION =>
       /\ UNCHANGED <<files, version>>
       /\ shape' = shape \/ (shape = "missing" /\ shape' = "legacy")
       /\ kind => kind'
       /\ \A w \in Workers : at'[w] \notin Engine]_vars

(***************************************************************************)
(* Migrating and naming the rows keeps a row for every path that has one,  *)
(* also when the table was recreated or written by others in between: no   *)
(* file is indexed again, or forgotten, because of a migration.            *)
(***************************************************************************)
PathsKept ==
  [][\A w \in Workers :
       at[w] \in Migrating \union {"rewrite"} /\ at'[w] # at[w] => Listed' = Listed]_vars

(***************************************************************************)
(* A reindex that nothing disturbed since its process opened the index, of *)
(* whatever age and with whatever migrations abandoned halfway, leaves one *)
(* row for each file of the tree, under the repo id.                       *)
(***************************************************************************)
QuietReindexNames ==
  \A w \in Workers : outcome[w] = "ok" /\ quiet[w] => files = {RepoId} \X tree

(***************************************************************************)
(* The rewrite of the placeholder rows succeeds ("the unconditional        *)
(* rewrite is correct", incremental.rs:217, because migrate is             *)
(* "idempotent: safe to call on every open", schema.rs:35).                *)
(***************************************************************************)
NeverStuck == \A w \in Workers : outcome[w] # "stuck"

(* Nobody is about to recreate the table while another is past migrate.     *)
NoLateRecreate == \A v, w \in Workers : at[v] = "recreate" => at[w] \notin Engine
=============================================================================
