------------------------------- MODULE Watch -------------------------------
(***************************************************************************)
(* The watch subcommand (watch.rs) around the reindex engine: the build on *)
(* start-up, the arming of the filesystem watcher, the debounce loop over  *)
(* the channel, and one incremental reindex per burst of events, on a tree *)
(* that editors change at any moment.  The watch process is the only one   *)
(* that writes the index here; processes that race are Reindex's subject.  *)
(***************************************************************************)
EXTENDS Reindex

CONSTANTS
  Watcher,    \* the watch process
  MaxFaults,  \* bound: reindexes that fail
  MaxBoots,   \* bound: starts of the process after the first
  MaxExtras   \* bound: changes the watcher is told of that change no indexed file

ASSUME WatchAssumption ==
  /\ Workers = {Watcher}
  /\ MaxFaults \in Nat /\ MaxBoots \in Nat
  /\ MaxExtras \in Nat

(* The bound on reindexes never decides what the watcher does: each start   *)
(* of the process builds once, and each event triggers at most one reindex. *)
ASSUME EnoughStarts == MaxStarts >= 1 + MaxBoots + MaxEdits + MaxExtras

VARIABLES
  at,      \* where the process is in run_watch
  queue,   \* events not received yet, in the kernel or in the channel
  faults,  \* how many reindexes have failed
  boots,   \* how often the process has been started again
  touches, \* how many events came that change no file of the index
  saves    \* how often the watcher saw its own write of the registry

watchVars == <<at, queue, faults, boots, touches, saves>>
allVars == <<vars, watchVars>>

(* What relevant() tells apart: a create, modify or remove outside the      *)
(* index directory (the registry's directory included, if it is under the   *)
(* root), an open or read, a write to the index, a watcher error.           *)
EventKinds == {"change", "access", "index", "error"}

Places == {"build", "building", "arm", "wait", "drain", "reindex", "reindexing", "off"}

WatchInit ==
  /\ Init
  /\ at = "build"
  /\ queue = <<>>
  /\ faults = 0
  /\ boots = 0
  /\ touches = 0
  /\ saves = 0

(* A slip: opens, reads and the writes to the index count as changes. *)
RelevantAny(kind) == kind \in EventKinds

Relevant(kind) == kind \in {"change", "error"}

(* watcher.watch() has returned, and the watcher has not been dropped. *)
Armed == at \in {"wait", "drain", "reindex", "reindexing"}

(* From then on the operating system and the notify crate deliver events.   *)
(* Of several opens, reads or writes to the index in a row the queue holds  *)
(* one: the loop drops them one by one, whatever their number.              *)
Notify(kind) ==
  LET repeated == queue # <<>> /\ queue[Len(queue)] = kind /\ kind \in {"access", "index"}
  IN  queue' = IF Armed /\ ~ repeated THEN Append(queue, kind) ELSE queue

------------------------------------------------------------------------------

(* handle_change up to the engine: it opens the database, and never forces. *)
HandleChange ==
  /\ \/ at = "build" /\ at' = "building"
     \/ at = "reindex" /\ at' = "reindexing"
  /\ \E e \in Embedders : Start(Watcher, FALSE, e)
  /\ Notify("index")
  /\ UNCHANGED <<faults, boots, touches, saves>>

(* The engine at work: reading a file is an access event of that file, a    *)
(* commit is an event of the index directory.                               *)
EngineStep ==
  /\ at \in {"building", "reindexing"}
  /\ Step(Watcher)
  /\ CASE db' # db -> Notify("index")
       [] pc[Watcher] = "walk" /\ seen' # seen -> Notify("access")
       [] OTHER -> UNCHANGED queue
  /\ UNCHANGED <<at, faults, boots, touches, saves>>

(***************************************************************************)
(* register_in_sidecar, the end of every handle_change that succeeds: it   *)
(* writes registry.json.tmp in the config directory and renames it.  The   *)
(* watcher sees that when the directory (~/.config/apohara-codesearch, or  *)
(* under XDG_CONFIG_HOME) is below the root, as when a home directory is   *)
(* watched, and nothing tells these events from an editor's; they are one  *)
(* burst, and one event stands for it.  Nothing is seen when the directory *)
(* is elsewhere, or when the registry could not be written, which is only  *)
(* logged.                                                                 *)
(***************************************************************************)
RegisterInSidecar ==
  \/ UNCHANGED <<queue, saves>>
  \/ /\ Armed /\ outcome[Watcher] = "ok"
     /\ touches + saves < MaxExtras
     /\ saves' = saves + 1
     /\ Notify("change")

(* A slip: what arrived while the index was built is taken for the          *)
(* watcher's own events and thrown away.                                    *)
ReturnAndFlush ==
  /\ at \in {"building", "reindexing"}
  /\ pc[Watcher] = "idle"
  /\ at' = CASE at = "reindexing" -> "wait"
             [] at = "building" -> IF outcome[Watcher] = "ok" THEN "arm" ELSE "off"
  /\ queue' = <<>>
  /\ UNCHANGED <<vars, faults, boots, touches, saves>>

(* The engine is done: handle_change registers the index and returns.  An   *)
(* error ends the process on start-up (`?`), and is only logged in the loop. *)
Return ==
  /\ at \in {"building", "reindexing"}
  /\ pc[Watcher] = "idle"
  /\ at' = CASE at = "reindexing" -> "wait"
             [] at = "building" -> IF outcome[Watcher] = "ok" THEN "arm" ELSE "off"
  /\ RegisterInSidecar
  /\ UNCHANGED <<vars, faults, boots, touches>>

(* recommended_watcher and watch(): events exist from here on. *)
Arm ==
  /\ at = "arm"
  /\ at' = "wait"
  /\ UNCHANGED <<vars, queue, faults, boots, touches, saves>>

(* rx.recv(): an event that is not relevant is dropped, a relevant one      *)
(* opens a burst.                                                           *)
Receive ==
  /\ at = "wait"
  /\ queue # <<>>
  /\ queue' = Tail(queue)
  /\ at' = IF Relevant(Head(queue)) THEN "drain" ELSE "wait"
  /\ UNCHANGED <<vars, faults, boots, touches, saves>>

(* rx.recv_timeout(debounce): whatever arrives within the window is part of *)
(* the burst.                                                               *)
Drain ==
  /\ at = "drain"
  /\ queue # <<>>
  /\ queue' = Tail(queue)
  /\ UNCHANGED <<vars, at, faults, boots, touches, saves>>

(* The window passed without an event.  One may be under way all the same:  *)
(* it is in the queue of the kernel, not yet in the channel.                *)
Timeout ==
  /\ at = "drain"
  /\ at' = "reindex"
  /\ UNCHANGED <<vars, queue, faults, boots, touches, saves>>

------------------------------------------------------------------------------

(* The reindex fails: the index is locked, a read or a write fails. *)
Fail ==
  /\ faults < MaxFaults
  /\ faults' = faults + 1
  /\ Abort(Watcher)
  /\ UNCHANGED <<at, queue, boots, touches, saves>>

(* A slip: a restart in the same process that goes on with the old channel. *)
DieKeepingEvents ==
  /\ at # "off"
  /\ at' = "off"
  /\ IF pc[Watcher] = "idle" THEN UNCHANGED vars ELSE Abort(Watcher)
  /\ UNCHANGED <<queue, faults, boots, touches, saves>>

(* The process dies anywhere, or its watcher does, which ends it too: what  *)
(* the engine had not committed and what the channel held are gone.         *)
Die ==
  /\ at # "off"
  /\ at' = "off"
  /\ queue' = <<>>
  /\ IF pc[Watcher] = "idle" THEN UNCHANGED vars ELSE Abort(Watcher)
  /\ UNCHANGED <<faults, boots, touches, saves>>

(* The user starts it again. *)
Boot ==
  /\ at = "off"
  /\ boots < MaxBoots
  /\ boots' = boots + 1
  /\ at' = "build"
  /\ UNCHANGED <<vars, queue, faults, touches, saves>>

(* An editor changes the tree; a watcher that cannot tell reports an error. *)
EditTree ==
  /\ \E p \in Paths, c \in Contents \union {Absent} : Edit(p, c)
  /\ \E kind \in {"change", "error"} : Notify(kind)
  /\ UNCHANGED <<at, faults, boots, touches, saves>>

WatcherStep ==
  \/ HandleChange
  \/ EngineStep
  \/ Return
  \/ Arm
  \/ Receive
  \/ Drain
  \/ Timeout

(* More events of a save than the one of the change itself (truncate, write, *)
(* rename, chmod), in one burst with it or not, and those of files that the *)
(* index does not hold.                                                     *)
Touch ==
  /\ Armed
  /\ touches + saves < MaxExtras
  /\ touches' = touches + 1
  /\ Notify("change")
  /\ UNCHANGED <<vars, at, faults, boots, saves>>

(* Nothing left to do: the process blocks in recv, or is gone. *)
WatchRest ==
  /\ edits = MaxEdits
  /\ at = "off" \/ (at = "wait" /\ queue = <<>>)
  /\ UNCHANGED allVars

WatchNext ==
  \/ WatcherStep
  \/ Fail
  \/ Die
  \/ Boot
  \/ EditTree
  \/ Touch
  \/ WatchRest

(* The watch process is one thread that the operating system schedules.     *)
(* Nothing is assumed of editors, of failures or of the user.               *)
WatchSpec == WatchInit /\ [][WatchNext]_allVars /\ WF_allVars(WatcherStep)

------------------------------------------------------------------------------

(* Every variable has its type, events exist only for an armed watcher, and *)
(* the engine only runs inside handle_change.                               *)
WatchTypeOK ==
  /\ TypeOK
  /\ at \in Places
  /\ queue \in Seq(EventKinds)
  /\ queue # <<>> => Armed
  /\ pc[Watcher] # "idle" => at \in {"building", "reindexing"}
  /\ faults \in 0..MaxFaults
  /\ boots \in 0..MaxBoots
  /\ touches \in 0..MaxExtras
  /\ saves \in 0..MaxExtras
  /\ touches + saves <= MaxExtras

(***************************************************************************)
(* The watcher never reindexes on account of its own reads and commits     *)
(* (the endless loop the comments of is_index_path and relevant warn of),  *)
(* and never twice on account of one event: each reindex has a start of    *)
(* the process or an event of its own behind it.  Of its own writes the    *)
(* registry's alone can be such an event (watch.rs:76), and then it goes   *)
(* on for ever, each reindex writing the registry anew: "a reindex's own   *)
(* writes never retrigger it" (watch.rs:84) holds with saves = 0 only.     *)
(***************************************************************************)
EveryReindexHasACause == starts <= 1 + boots + edits + touches + saves

(* A change of the tree that no reindex has answered yet. *)
Owed == (\E i \in 1..Len(queue) : Relevant(queue[i])) \/ at \in {"drain", "reindex"}

(***************************************************************************)
(* A reindex that a burst of events brought about and that succeeds leaves *)
(* the index of the tree, or the change that came too late for it is still *)
(* to be answered: nothing that happens while the tree is walked and the   *)
(* index written is forgotten.                                             *)
(***************************************************************************)
BurstAnswered ==
  [][at = "reindexing" /\ at' = "wait" /\ outcome'[Watcher] = "ok" =>
       (IndexExact(db, disk, root) \/ Owed)']_allVars

(* Nobody sees an edit between the start of the first build and watch().    *)
QuietUntilArmed == [][(at \in {"building", "arm"}) => UNCHANGED disk]_allVars

(***************************************************************************)
(* What the user of a watcher takes for granted: while it waits and its    *)
(* last reindex succeeded, the index is that of the tree or a change is    *)
(* still to be answered, also after reindexes that failed and restarts.    *)
(***************************************************************************)
UpToDateAtRest ==
  at = "wait" /\ outcome[Watcher] = "ok" => IndexExact(db, disk, root) \/ Owed

(***************************************************************************)
(* Once the watcher is armed no change is lost, in whatever phase of the   *)
(* walk, the write or the debounce it comes: unless the process dies or    *)
(* another reindex fails, the index is exactly that of the tree at some    *)
(* later moment, edits being finite.  A failed reindex is not tried again, *)
(* but the next change makes up for it ("keep watching so the next save    *)
(* can recover", watch.rs:141).                                            *)
(***************************************************************************)
CatchesUp ==
  \A n \in 0..MaxFaults :
    (Owed /\ faults = n) ~> (IndexExact(db, disk, root) \/ at = "off" \/ faults > n)
=============================================================================
