------------------------------- MODULE Server -------------------------------
(***************************************************************************)
(* The processes that share index files and the sidecar registry: servers  *)
(* whose calls build an index on first use (server.rs) and record it in    *)
(* the registry (registry.rs).  One server answers one call at a time: its *)
(* runtime has a single thread and no handler awaits, so the build lock is *)
(* only ever taken by its owner.  The handle_change of the watch           *)
(* subcommand is a call of reindex without force.                          *)
(*                                                                         *)
(* An index is its file and the set of source files it holds.  The sources *)
(* do not change here; Reindex is about what one file's rows are, and      *)
(* Search about what a search makes of them.                               *)
(***************************************************************************)
EXTENDS Integers, FiniteSets

CONSTANTS
  Processes,
  Roots,        \* the repositories
  Files,        \* the source files of each
  Cut,          \* what a file not written to its end holds
  MaxCalls,     \* bound: tool calls
  MaxFaults,    \* bound: calls that fail and processes that die
  MaxRemovals   \* bound: index directories a user deletes

ASSUME BoundAssumption == MaxCalls \in Nat /\ MaxFaults \in Nat /\ MaxRemovals \in Nat
ASSUME CutAssumption == Cut \notin Roots

Torn == {Cut}

VARIABLES
  exists,    \* the index.db of each root is there
  rows,      \* the files it holds
  registry,  \* registry.json: the roots it maps to their index; {} when missing
  tmp,       \* the temporary registry file of each process
  at,        \* where the call of each process is
  root,      \* its root
  next,      \* where it goes once its build is over: a search goes on
  force,     \* its build is a forced one
  todo,      \* the walked files its build has not come to
  loaded,    \* the registry it is about to save
  calls, faults, removals

(* What has happened, for the properties.                                    *)
VARIABLES
  built,     \* the index was complete when some build of it ended
  broken,    \* a build left it incomplete, and none begun since has ended
  fresh,     \* the build of the process began after the last of those
  noted,     \* the roots saved while they had an index, and not overlooked since
  missed     \* the roots saved by others since the process loaded

index   == <<exists, rows>>
sidecar == <<registry, tmp, loaded>>
bounds  == <<calls, faults, removals>>
past    == <<built, broken, fresh, noted, missed>>
call == <<root, next, force>>
vars == <<index, sidecar, at, call, todo, bounds, past>>

InBuild    == {"start", "files"}
InRegister == {"load", "write", "writing", "rename"}
Places     == {"idle", "look", "lock", "open", "search", "answered"} \cup InBuild \cup InRegister

Init ==
  /\ exists = [r \in Roots |-> FALSE]
  /\ rows = [r \in Roots |-> {}]
  /\ registry = {}
  /\ tmp = [p \in Processes |-> {}]
  /\ at = [p \in Processes |-> "idle"]
  /\ root \in [Processes -> Roots]
  /\ next = [p \in Processes |-> "idle"]
  /\ force = [p \in Processes |-> FALSE]
  /\ todo = [p \in Processes |-> {}]
  /\ loaded = [p \in Processes |-> {}]
  /\ calls = 0 /\ faults = 0 /\ removals = 0
  /\ built = [r \in Roots |-> FALSE]
  /\ broken = [r \in Roots |-> FALSE]
  /\ fresh = [p \in Processes |-> FALSE]
  /\ noted = {}
  /\ missed = [p \in Processes |-> {}]

Go(p, from, to) == at[p] = from /\ at' = [at EXCEPT ![p] = to]

------------------------------------------------------------------------------
(* The calls.                                                                *)

Called(p, tool, then, r) ==
  /\ calls < MaxCalls /\ calls' = calls + 1
  /\ Go(p, "idle", tool)
  /\ root' = [root EXCEPT ![p] = r]
  /\ next' = [next EXCEPT ![p] = then]
  /\ UNCHANGED <<index, sidecar, todo, faults, removals, past>>

SearchCode(p, r) == Called(p, "look", "search", r) /\ UNCHANGED force

ReindexTool(p, r, forced) ==
  Called(p, "open", "idle", r) /\ force' = [force EXCEPT ![p] = forced]

(* A slip: the directory is looked for, which db_path has just created. *)
DirectoryThere(r) == TRUE

\* db.exists()
IndexThere(r) == exists[r]

\* ensure_indexed: nothing to do when the file is there, before the lock or under it.
EnsureIndexed(p) ==
  /\ \/ IndexThere(root[p]) /\ (Go(p, "look", "search") \/ Go(p, "lock", "search"))
        /\ UNCHANGED force
     \/ ~ IndexThere(root[p]) /\ Go(p, "look", "lock") /\ UNCHANGED force
     \/ ~ IndexThere(root[p]) /\ Go(p, "lock", "open") /\ force' = [force EXCEPT ![p] = TRUE]
  /\ UNCHANGED <<index, sidecar, root, next, todo, bounds, past>>

\* open_db_with creates the file with its tables; migrate follows.
OpenDb(p) ==
  /\ Go(p, "open", "start")
  /\ exists' = [exists EXCEPT ![root[p]] = TRUE]
  /\ fresh' = [fresh EXCEPT ![p] = TRUE]
  /\ UNCHANGED <<rows, sidecar, call, todo, bounds, built, broken, noted, missed>>

\* The walk; a forced reindex then wipes every table.
StartReindex(p) ==
  /\ Go(p, "start", "files")
  /\ todo' = [todo EXCEPT ![p] = Files]
  /\ rows' = IF force[p] THEN [rows EXCEPT ![root[p]] = {}] ELSE rows
  /\ UNCHANGED <<exists, sidecar, call, bounds, past>>

\* One walked file, in the transaction of reprocess_file; an incremental reindex
\* skips it when its hash is stored.
ReindexFile(p) ==
  /\ at[p] = "files"
  /\ \E f \in todo[p] :
       /\ rows' = [rows EXCEPT ![root[p]] = @ \cup {f}]
       /\ todo' = [todo EXCEPT ![p] = @ \ {f}]
  /\ UNCHANGED <<exists, sidecar, at, call, bounds, past>>

EndReindex(p) ==
  /\ todo[p] = {}
  /\ Go(p, "files", "load")
  /\ built' = [built EXCEPT ![root[p]] = @ \/ rows[root[p]] = Files]
  /\ broken' = [broken EXCEPT ![root[p]] = @ /\ ~ fresh[p]]
  /\ UNCHANGED <<index, sidecar, call, todo, bounds, fresh, noted, missed>>

\* The ranking and the hydration, on what the index holds; Search has the steps.
AnswerSearch(p) ==
  /\ Go(p, "search", "answered")
  /\ UNCHANGED <<index, sidecar, call, todo, bounds, past>>

ReturnAnswer(p) ==
  /\ Go(p, "answered", "idle")
  /\ UNCHANGED <<index, sidecar, call, todo, bounds, past>>

------------------------------------------------------------------------------
(* register_in_sidecar: load, insert, save.                                  *)

(* A slip: the registry is saved without loading it first. *)
LoadNothing == {}

\* Entries whose index is gone are pruned from what is loaded.
LoadRegistry == {r \in registry : exists[r]}

Load(p) ==
  /\ Go(p, "load", "write")
  /\ registry # Torn  \* else the JSON does not parse: RegisterFails
  /\ loaded' = [loaded EXCEPT ![p] = LoadRegistry \cup {root[p]}]
  /\ missed' = [missed EXCEPT ![p] = {}]
  /\ UNCHANGED <<index, registry, tmp, call, todo, bounds, built, broken, fresh, noted>>

(* A slip: the name has neither the process id nor the nonce. *)
TmpShared(p) == CHOOSE q \in Processes : TRUE

\* The temporary file p writes: its name has the process id.
TmpName(p) == p

\* fs::write creates or truncates the file, then fills it.
WriteTmp(p) ==
  /\ \/ Go(p, "write", "writing") /\ tmp' = [tmp EXCEPT ![TmpName(p)] = Torn]
     \/ Go(p, "writing", "rename") /\ tmp' = [tmp EXCEPT ![TmpName(p)] = loaded[p]]
  /\ UNCHANGED <<index, registry, loaded, call, todo, bounds, past>>

\* The processes that have loaded and not yet saved.
Saving == {q \in Processes : at[q] \in InRegister \ {"load"}}

Rename(p) ==
  /\ Go(p, "rename", next[p])
  /\ registry' = tmp[TmpName(p)]
  /\ tmp' = [tmp EXCEPT ![TmpName(p)] = {}]
  /\ noted' = (noted \ (missed[p] \ loaded[p])) \cup {r \in {root[p]} : exists[r]}
  /\ missed' = [q \in Processes |-> IF q \in Saving THEN missed[q] \cup {root[p]} ELSE missed[q]]
  /\ UNCHANGED <<index, loaded, call, todo, bounds, built, broken, fresh>>

\* Each of its steps may fail; the error is logged and the call goes on.
RegisterFails(p) ==
  /\ at[p] \in InRegister
  /\ faults < MaxFaults /\ faults' = faults + 1
  /\ at' = [at EXCEPT ![p] = next[p]]
  /\ UNCHANGED <<index, sidecar, call, todo, calls, removals, past>>

------------------------------------------------------------------------------
(* Failures and the user.                                                    *)

\* What a build of r leaves behind that ends before its last file.
LeftBy(r) ==
  IF rows[r] = Files THEN UNCHANGED <<broken, fresh>>
  ELSE /\ broken' = [broken EXCEPT ![r] = TRUE]
       /\ fresh' = [q \in Processes |-> fresh[q] /\ root[q] # r]

(* A slip: a file that cannot be written is logged and left out. *)
FileLeftOut(p) ==
  /\ at[p] = "files"
  /\ faults < MaxFaults /\ faults' = faults + 1
  /\ \E f \in todo[p] : todo' = [todo EXCEPT ![p] = @ \ {f}]
  /\ UNCHANGED <<index, sidecar, at, call, calls, removals, past>>

\* An error in the migration, in a statement of the reindex or in one file's
\* transaction ends the call.
BuildFails(p) ==
  /\ at[p] \in InBuild
  /\ faults < MaxFaults /\ faults' = faults + 1
  /\ at' = [at EXCEPT ![p] = "idle"]
  /\ todo' = [todo EXCEPT ![p] = {}]
  /\ LeftBy(root[p])
  /\ UNCHANGED <<index, sidecar, call, calls, removals, built, noted, missed>>

\* The process dies, and a new one takes its place; a search that fails leaves as much.
Crash(p) ==
  /\ at[p] # "idle"
  /\ faults < MaxFaults /\ faults' = faults + 1
  /\ at' = [at EXCEPT ![p] = "idle"]
  /\ todo' = [todo EXCEPT ![p] = {}]
  /\ IF at[p] \in InBuild THEN LeftBy(root[p]) ELSE UNCHANGED <<broken, fresh>>
  /\ UNCHANGED <<index, sidecar, call, calls, removals, built, noted, missed>>

\* A user deletes an index directory that no call will read or write again.
RemoveIndex(r) ==
  /\ exists[r]
  /\ \A p \in Processes : root[p] = r =>
       at[p] = "idle" \/ (at[p] \in InRegister /\ next[p] = "idle")
  /\ removals < MaxRemovals /\ removals' = removals + 1
  /\ exists' = [exists EXCEPT ![r] = FALSE]
  /\ rows' = [rows EXCEPT ![r] = {}]
  /\ built' = [built EXCEPT ![r] = FALSE]
  /\ broken' = [broken EXCEPT ![r] = FALSE]
  /\ noted' = noted \ {r}
  /\ UNCHANGED <<sidecar, at, call, todo, calls, faults, fresh, missed>>

------------------------------------------------------------------------------
Next ==
  \/ \E p \in Processes :
       \/ \E r \in Roots :
            SearchCode(p, r) \/ ReindexTool(p, r, FALSE) \/ ReindexTool(p, r, TRUE)
       \/ EnsureIndexed(p) \/ OpenDb(p) \/ StartReindex(p) \/ ReindexFile(p) \/ EndReindex(p)
       \/ AnswerSearch(p) \/ ReturnAnswer(p)
       \/ Load(p) \/ WriteTmp(p) \/ Rename(p) \/ RegisterFails(p)
       \/ BuildFails(p) \/ Crash(p)
  \/ \E r \in Roots : RemoveIndex(r)

Spec == Init /\ [][Next]_vars

------------------------------------------------------------------------------
(* Properties.                                                               *)

(* Every variable has the shape the comments above give it, and a call that  *)
(* builds or searches, or registers what it will search, has an index file.  *)
TypeOK ==
  /\ exists \in [Roots -> BOOLEAN] /\ rows \in [Roots -> SUBSET Files]
  /\ registry \in (SUBSET Roots) \cup {Torn}
  /\ tmp \in [Processes -> (SUBSET Roots) \cup {Torn}]
  /\ loaded \in [Processes -> SUBSET Roots]
  /\ at \in [Processes -> Places] /\ root \in [Processes -> Roots]
  /\ next \in [Processes -> {"idle", "search"}]
  /\ force \in [Processes -> BOOLEAN] /\ todo \in [Processes -> SUBSET Files]
  /\ calls \in Nat /\ faults \in Nat /\ removals \in Nat
  /\ built \in [Roots -> BOOLEAN] /\ broken \in [Roots -> BOOLEAN]
  /\ fresh \in [Processes -> BOOLEAN]
  /\ noted \in SUBSET Roots /\ missed \in [Processes -> SUBSET Roots]
  /\ \A p \in Processes :
       \/ at[p] \in InBuild \cup {"search", "answered"}
       \/ at[p] \in InRegister /\ next[p] = "search"
       => exists[root[p]]

(* However the saves of several processes interleave, fail or are cut off,   *)
(* no reader finds a registry that is not written to its end (save).         *)
NoTornRegistry == registry # Torn

(* A root stays recorded as long as its index exists, however many processes *)
(* register, fail or die: only a save by a process that had loaded the       *)
(* registry before the root was saved may drop it (register).                *)
RecordedStays == noted \subseteq registry

Missing(r) == Files \ rows[r]

(* p is at work on the index of r and has every file it lacks before it. *)
WillComplete(p, r) ==
  /\ root[p] = r
  /\ \/ at[p] = "start"
     \/ at[p] = "files" /\ Missing(r) \subseteq todo[p]

(* An index that lacks files is being completed by one process that has them *)
(* all before it, or it was left so by a build that failed or died, and no   *)
(* reindex begun after that has ended: racing first builds, forced and       *)
(* incremental reindexes make no other gap, and any reindex closes this one. *)
GapsAreClosed ==
  \A r \in Roots :
    exists[r] /\ Missing(r) # {} => broken[r] \/ \E p \in Processes : WillComplete(p, r)

(* An answer is drawn from an index that some build has completed            *)
(* (search_code: "builds the index on first use, then returns the top-k").   *)
AnswersFromBuiltIndex == \A p \in Processes : at[p] = "answered" => built[root[p]]

(***************************************************************************)
(* What is true of that: a search answers from an index that lacks files   *)
(* only while another process is building it, with all these files before  *)
(* it, or after a build that broke off and before the next one has ended.  *)
(***************************************************************************)
PartialAnswersExplained ==
  [][\A p \in Processes :
       AnswerSearch(p) /\ Missing(root[p]) # {} =>
         broken[root[p]] \/ \E q \in Processes \ {p} : WillComplete(q, root[p])]_vars
=============================================================================
