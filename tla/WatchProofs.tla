---------------------------- MODULE WatchProofs ----------------------------
(***************************************************************************)
(* Theorems about the safety of the watcher, for any number of files,      *)
(* failures, restarts and edits.  The watcher drives the engine of Reindex *)
(* and nothing else, so every theorem about the engine is one about the    *)
(* watcher.  Its reads and commits never wake it, it reindexes after every *)
(* burst of changes, and when it has come to rest the index is the tree,   *)
(* unless a change fell before it was armed.  That it comes to rest is     *)
(* liveness, and left to TLC.                                              *)
(***************************************************************************)
EXTENDS Watch, ReindexProofs, FiniteSetTheorems

------------------------------------------------------------------------------

(* Every step of the watcher is one of the engine, of the tree, or neither. *)
LEMMA EngineOrNothing == [WatchNext]_allVars => [Next]_vars
<1> SUFFICES ASSUME WatchNext PROVE [Next]_vars
  BY DEF allVars
<1> Watcher \in Workers
  BY WatchAssumption
<1>1. CASE HandleChange
  BY <1>1 DEF HandleChange, Next
<1>2. CASE EngineStep
  BY <1>2 DEF EngineStep, Next
<1>3. CASE Return \/ Arm \/ Receive \/ Drain \/ Timeout \/ Boot \/ Touch \/ WatchRest
  BY <1>3 DEF Return, Arm, Receive, Drain, Timeout, Boot, Touch, WatchRest, allVars
<1>4. CASE Fail
  BY <1>4 DEF Fail, Next
<1>5. CASE Die
  BY <1>5 DEF Die, Next
<1>6. CASE EditTree
  BY <1>6 DEF EditTree, Next
<1> QED BY <1>1, <1>2, <1>3, <1>4, <1>5, <1>6 DEF WatchNext, WatcherStep

(***************************************************************************)
(* The watch process is a reindexing process like any other: what holds of *)
(* the engine, whatever its callers do, holds under run_watch.             *)
(***************************************************************************)
THEOREM RunsTheEngine == WatchSpec => Spec
<1>1. WatchInit => Init
  BY DEF WatchInit
<1> QED BY <1>1, EngineOrNothing, PTL DEF WatchSpec, Spec

------------------------------------------------------------------------------

(* What WatchTypeOK says beyond the types of the engine. *)
LoopTypeOK ==
  /\ at \in Places
  /\ queue \in Seq(EventKinds)
  /\ queue # <<>> => Armed
  /\ pc[Watcher] # "idle" => at \in {"building", "reindexing"}
  /\ faults \in 0..MaxFaults
  /\ boots \in 0..MaxBoots
  /\ touches \in 0..MaxExtras
  /\ saves \in 0..MaxExtras
  /\ touches + saves <= MaxExtras

LEMMA NotifyType ==
  ASSUME NEW kind \in EventKinds, queue \in Seq(EventKinds), Notify(kind)
  PROVE  /\ queue' \in Seq(EventKinds)
         /\ queue' # <<>> => queue # <<>> \/ Armed
BY DEF Notify

(* An engine that is left or never entered is idle. *)
LEMMA LeftIsIdle ==
  ASSUME TypeOK, NEW w \in Workers
  PROVE  Abort(w) => pc'[w] = "idle"
BY DEF Abort, Leave, Goto, TypeOK

LEMMA StepKeepsLoopType ==
  TypeOK /\ LoopTypeOK /\ [WatchNext]_allVars => LoopTypeOK'
<1> SUFFICES ASSUME TypeOK, LoopTypeOK, [WatchNext]_allVars
             PROVE  LoopTypeOK'
  OBVIOUS
<1> USE DEF LoopTypeOK
<1>w. Watcher \in Workers
  BY WatchAssumption
<1>b. MaxFaults \in Nat /\ MaxBoots \in Nat /\ MaxExtras \in Nat
  BY WatchAssumption
<1>x. touches + saves < MaxExtras =>
        /\ touches + 1 \in 0..MaxExtras /\ saves + 1 \in 0..MaxExtras
        /\ (touches + 1) + saves <= MaxExtras /\ touches + (saves + 1) <= MaxExtras
  <2>1. touches \in Nat /\ saves \in Nat
    BY <1>b
  <2> QED BY <1>b, <2>1
<1>k. "index" \in EventKinds /\ "access" \in EventKinds
      /\ "change" \in EventKinds /\ "error" \in EventKinds
  BY DEF EventKinds
<1>1. CASE HandleChange
  <2>1. queue' \in Seq(EventKinds) /\ (queue' # <<>> => Armed)
    BY <1>1, <1>k, NotifyType DEF HandleChange
  <2> QED BY <1>1, <2>1 DEF HandleChange, Armed, Places
<1>2. CASE EngineStep
  <2>1. queue' \in Seq(EventKinds) /\ (queue' # <<>> => Armed)
    BY <1>2, <1>k, NotifyType DEF EngineStep
  <2> QED BY <1>2, <2>1 DEF EngineStep, Armed, Places
<1>3. CASE Return
  <2>1. queue' \in Seq(EventKinds) /\ (queue' # <<>> => queue # <<>> \/ Armed)
    <3>1. queue' = queue \/ Notify("change")
      BY <1>3 DEF Return, RegisterInSidecar
    <3> QED BY <3>1, <1>k, NotifyType
  <2>2. /\ saves' \in 0..MaxExtras /\ touches + saves' <= MaxExtras
        /\ touches' = touches
    <3>1. saves' = saves \/ (touches + saves < MaxExtras /\ saves' = saves + 1)
      BY <1>3 DEF Return, RegisterInSidecar
    <3>2. touches' = touches
      BY <1>3 DEF Return
    <3> QED BY <3>1, <3>2, <1>x
  <2>3. Armed => Armed'
    BY <1>3 DEF Return, Armed
  <2>4. faults' = faults /\ boots' = boots /\ at' \in Places /\ pc'[Watcher] = "idle"
    BY <1>3 DEF Return, Places, vars, workerVars
  <2> QED BY <2>1, <2>2, <2>3, <2>4
<1>4. CASE Arm
  BY <1>4 DEF Arm, Armed, Places, vars, workerVars
<1>5. CASE Receive
  BY <1>5 DEF Receive, Armed, Places, vars, workerVars
<1>6. CASE Drain
  BY <1>6 DEF Drain, Armed, Places, vars, workerVars
<1>7. CASE Timeout
  BY <1>7 DEF Timeout, Armed, Places, vars, workerVars
<1>8. CASE Fail
  <2>1. faults' \in 0..MaxFaults
    BY <1>8, <1>b DEF Fail
  <2> QED BY <1>8, <1>w, <2>1, LeftIsIdle DEF Fail, Armed
<1>9. CASE Die
  <2>1. pc'[Watcher] = "idle"
    BY <1>9, <1>w, LeftIsIdle DEF Die, vars, workerVars
  <2>2. queue' = <<>> /\ queue' \in Seq(EventKinds)
    BY <1>9 DEF Die
  <2> QED BY <1>9, <2>1, <2>2 DEF Die, Places
<1>10. CASE Boot
  <2>1. boots' \in 0..MaxBoots
    BY <1>10, <1>b DEF Boot
  <2> QED BY <1>10, <2>1 DEF Boot, Armed, Places, vars, workerVars
<1>11. CASE EditTree
  <2>1. queue' \in Seq(EventKinds) /\ (queue' # <<>> => Armed)
    BY <1>11, <1>k, NotifyType DEF EditTree
  <2>2. pc' = pc
    BY <1>11 DEF EditTree, Edit, workerVars
  <2> QED BY <1>11, <2>1, <2>2 DEF EditTree, Armed
<1>12. CASE Touch
  <2>1. queue' \in Seq(EventKinds) /\ (queue' # <<>> => Armed)
    BY <1>12, <1>k, NotifyType DEF Touch
  <2>2. /\ touches' \in 0..MaxExtras /\ touches' + saves <= MaxExtras
        /\ saves' = saves
    BY <1>12, <1>x DEF Touch
  <2> QED BY <1>12, <2>1, <2>2 DEF Touch, Armed, vars, workerVars
<1>13. CASE WatchRest \/ UNCHANGED allVars
  BY <1>13 DEF WatchRest, allVars, watchVars, vars, workerVars, Armed
<1> QED BY <1>1, <1>2, <1>3, <1>4, <1>5, <1>6, <1>7, <1>8, <1>9, <1>10, <1>11, <1>12, <1>13
        DEF WatchNext, WatcherStep

LEMMA InitialLoopType == WatchInit => LoopTypeOK
<1> SUFFICES ASSUME WatchInit PROVE LoopTypeOK
  OBVIOUS
<1>1. pc[Watcher] = "idle"
  BY WatchAssumption DEF WatchInit, Init
<1>2. /\ 0 \in 0..MaxFaults /\ 0 \in 0..MaxBoots
      /\ 0 \in 0..MaxExtras /\ 0 + 0 <= MaxExtras
  BY WatchAssumption
<1> QED BY <1>1, <1>2 DEF WatchInit, LoopTypeOK, Places

(***************************************************************************)
(* The type invariant of the watcher: events exist only for an armed       *)
(* watcher, and the engine runs only inside handle_change.                 *)
(***************************************************************************)
THEOREM WatchTypeCorrect == WatchSpec => []WatchTypeOK
<1>1. WatchSpec => []TypeOK
  BY RunsTheEngine, TypeCorrect, PTL
<1>2. TypeOK /\ LoopTypeOK => WatchTypeOK
  BY DEF LoopTypeOK, WatchTypeOK
<1> QED BY <1>1, <1>2, InitialLoopType, StepKeepsLoopType, PTL DEF WatchSpec

------------------------------------------------------------------------------

(***************************************************************************)
(* EveryReindexHasACause is not inductive: each reindex is paid for by a   *)
(* start of the process or by a relevant event, and each relevant event by *)
(* an edit, a touch or a write of the registry.  The invariant counts the  *)
(* events not received yet and the reindex that is due.                    *)
(***************************************************************************)
Pending(q) == {i \in 1..Len(q) : Relevant(q[i])}

Due == IF at \in {"build", "drain", "reindex"} THEN 1 ELSE 0

Causes == 1 + boots + edits + touches + saves

PaidFor == starts + Cardinality(Pending(queue)) + Due <= Causes

LEMMA PendingFinite ==
  ASSUME NEW q \in Seq(EventKinds)
  PROVE  IsFiniteSet(Pending(q)) /\ Cardinality(Pending(q)) \in Nat
<1>1. IsFiniteSet(1..Len(q))
  BY FS_Interval
<1>2. Pending(q) \in SUBSET (1..Len(q))
  BY DEF Pending
<1>3. IsFiniteSet(Pending(q))
  BY <1>1, <1>2, FS_Subset
<1> QED BY <1>3, FS_CardinalityType

LEMMA NothingPending == Cardinality(Pending(<<>>)) = 0
<1>1. Pending(<<>>) = {}
  BY DEF Pending
<1> QED BY <1>1, FS_EmptySet

(* An event that arrives adds one, and only if it is relevant. *)
LEMMA AppendPending ==
  ASSUME NEW q \in Seq(EventKinds), NEW kind \in EventKinds
  PROVE  /\ Cardinality(Pending(Append(q, kind))) <= Cardinality(Pending(q)) + 1
         /\ ~ Relevant(kind) => Pending(Append(q, kind)) = Pending(q)
<1> DEFINE a == Append(q, kind)
<1>1. Len(q) \in Nat /\ Len(a) = Len(q) + 1 /\ a[Len(q) + 1] = kind
  OBVIOUS
<1>2. \A i \in 1..Len(q) : a[i] = q[i]
  OBVIOUS
<1> HIDE DEF a
<1>3. CASE Relevant(kind)
  <2>1. Pending(a) = Pending(q) \union {Len(q) + 1}
    BY <1>1, <1>2, <1>3 DEF Pending
  <2>2. Cardinality(Pending(a)) \in {Cardinality(Pending(q)), Cardinality(Pending(q)) + 1}
    BY <2>1, PendingFinite, FS_AddElement
  <2>3. Cardinality(Pending(q)) \in Nat
    BY PendingFinite
  <2> QED BY <1>3, <2>2, <2>3 DEF a
<1>4. CASE ~ Relevant(kind)
  <2>1. Pending(a) = Pending(q)
    BY <1>1, <1>2, <1>4 DEF Pending
  <2>2. Cardinality(Pending(q)) \in Nat
    BY PendingFinite
  <2> QED BY <2>1, <2>2 DEF a
<1> QED BY <1>3, <1>4

(* Receiving one takes it from the pending ones, if it is relevant. *)
LEMMA TailPending ==
  ASSUME NEW q \in Seq(EventKinds), q # <<>>
  PROVE  Cardinality(Pending(Tail(q))) + (IF Relevant(Head(q)) THEN 1 ELSE 0)
           <= Cardinality(Pending(q))
<1> DEFINE t == Tail(q)
           S == Pending(q) \ {1}
           T == Pending(t)
           f == [i \in T |-> i + 1]
<1>1. /\ Len(q) \in Nat /\ Len(q) >= 1 /\ Len(t) = Len(q) - 1
      /\ \A i \in 1..Len(t) : t[i] = q[i + 1]
      /\ q[1] = Head(q)
  OBVIOUS
<1> HIDE DEF t
<1>2. \A i \in T : i \in Nat /\ i + 1 \in S
  BY <1>1 DEF Pending
<1>3. f \in [T -> S]
  BY <1>2
<1>4. \A i, j \in T : f[i] = f[j] => i = j
  BY <1>2
<1>5. f \in Injection(T, S)
  BY <1>3, <1>4 DEF Injection, IsInjective
<1>6. IsFiniteSet(Pending(q)) /\ Cardinality(Pending(q)) \in Nat
  BY PendingFinite
<1>7. /\ IsFiniteSet(S)
      /\ Cardinality(S) = IF Relevant(Head(q)) THEN Cardinality(Pending(q)) - 1
                                               ELSE Cardinality(Pending(q))
  <2>1. 1 \in Pending(q) <=> Relevant(Head(q))
    BY <1>1 DEF Pending
  <2> QED BY <1>6, <2>1, FS_RemoveElement
<1>8. Cardinality(T) <= Cardinality(S)
  BY <1>5, <1>7, FS_Injection
<1>9. Cardinality(T) \in Nat
  <2>1. t \in Seq(EventKinds)
    BY DEF t
  <2> QED BY <2>1, PendingFinite
<1> HIDE DEF S, T
<1>10. Cardinality(T) + (IF Relevant(Head(q)) THEN 1 ELSE 0) <= Cardinality(Pending(q))
  BY <1>6, <1>7, <1>8, <1>9
<1> QED BY <1>10 DEF T, t

(* What the operating system reports of an access or a commit is not pending, *)
(* and an edit is pending at most once.                                       *)
LEMMA NotifyPending ==
  ASSUME NEW kind \in EventKinds, queue \in Seq(EventKinds), Notify(kind)
  PROVE  /\ Cardinality(Pending(queue')) <= Cardinality(Pending(queue)) + 1
         /\ ~ Relevant(kind) => Pending(queue') = Pending(queue)
<1>1. CASE queue' = queue
  BY <1>1, PendingFinite
<1>2. CASE queue' = Append(queue, kind)
  BY <1>2, AppendPending
<1> QED BY <1>1, <1>2 DEF Notify

LEMMA InitiallyPaidFor == WatchInit => PaidFor
BY NothingPending DEF WatchInit, Init, PaidFor, Causes, Due

(* Only the start of a reindex and an edit touch the two counters. *)
LEMMA EngineCounts ==
  ASSUME NEW w \in Workers
  PROVE  /\ Step(w) => UNCHANGED <<starts, edits>>
         /\ Abort(w) => UNCHANGED <<starts, edits>>
BY DEF Step, WalkFile, Remove, ForceFile, SkipFile, ChangedFile, Rewrite, ReadMetaId,
       Verify, CheckStamped, StampId, StampDim, Wipe, ListStored, RemoveDone, WriteFile,
       ReprocessFile, Finish, Abort, counters

LEMMA StepKeepsPaidFor ==
  WatchTypeOK /\ PaidFor /\ [WatchNext]_allVars => PaidFor'
<1> SUFFICES ASSUME WatchTypeOK, PaidFor, [WatchNext]_allVars
             PROVE  PaidFor'
  OBVIOUS
<1>w. Watcher \in Workers
  BY WatchAssumption
<1>t. /\ starts \in Nat /\ edits \in Nat /\ boots \in Nat
      /\ touches \in Nat /\ saves \in Nat
      /\ queue \in Seq(EventKinds)
  BY WatchAssumption DEF WatchTypeOK, TypeOK
<1>p. Cardinality(Pending(queue)) \in Nat
  BY <1>t, PendingFinite
<1>i. ~ Relevant("index") /\ ~ Relevant("access")
  BY DEF Relevant
<1>k. "index" \in EventKinds /\ "access" \in EventKinds
      /\ "change" \in EventKinds /\ "error" \in EventKinds
  BY DEF EventKinds
<1>1. CASE HandleChange
  <2>1. Pending(queue') = Pending(queue)
    BY <1>1, <1>t, <1>i, <1>k, NotifyPending DEF HandleChange
  <2>2. starts' = starts + 1 /\ UNCHANGED <<edits, boots, touches, saves>>
    BY <1>1 DEF HandleChange, Start
  <2>3. Due = 1 /\ Due' = 0
    BY <1>1 DEF HandleChange, Due
  <2> QED BY <1>t, <1>p, <2>1, <2>2, <2>3 DEF PaidFor, Causes
<1>2. CASE EngineStep
  <2>1. Pending(queue') = Pending(queue)
    BY <1>2, <1>t, <1>i, <1>k, NotifyPending DEF EngineStep
  <2>2. UNCHANGED <<starts, edits, boots, touches, saves, at>>
    BY <1>2, <1>w, EngineCounts DEF EngineStep
  <2> QED BY <2>1, <2>2 DEF PaidFor, Causes, Due
<1>3. CASE Return
  <2>1. UNCHANGED <<starts, edits, boots, touches>> /\ Due = 0 /\ Due' = 0
    BY <1>3 DEF Return, vars, counters, Due
  <2>2. CASE UNCHANGED <<queue, saves>>
    BY <2>1, <2>2 DEF PaidFor, Causes
  <2>3. CASE Notify("change") /\ saves' = saves + 1
    <3>1. /\ Cardinality(Pending(queue')) <= Cardinality(Pending(queue)) + 1
          /\ queue' \in Seq(EventKinds)
      BY <2>3, <1>t, <1>k, NotifyPending, NotifyType
    <3>2. Cardinality(Pending(queue')) \in Nat
      BY <3>1, PendingFinite
    <3> QED BY <1>t, <1>p, <2>1, <2>3, <3>1, <3>2 DEF PaidFor, Causes
  <2> QED BY <1>3, <2>2, <2>3 DEF Return, RegisterInSidecar
<1>4. CASE Arm
  <2>1. UNCHANGED <<starts, edits, boots, touches, saves, queue>> /\ Due = 0 /\ Due' = 0
    BY <1>4 DEF Arm, vars, counters, Due
  <2> QED BY <2>1 DEF PaidFor, Causes
<1>5. CASE Receive
  <2>1. UNCHANGED <<starts, edits, boots, touches, saves>> /\ Due = 0
    BY <1>5 DEF Receive, vars, counters, Due
  <2>2. Cardinality(Pending(queue')) + Due' <= Cardinality(Pending(queue))
    BY <1>5, <1>t, TailPending DEF Receive, Due
  <2>3. queue' \in Seq(EventKinds) /\ Due' \in Nat
    BY <1>5, <1>t DEF Receive, Due
  <2>4. Cardinality(Pending(queue')) \in Nat
    BY <2>3, PendingFinite
  <2> QED BY <1>t, <1>p, <2>1, <2>2, <2>3, <2>4 DEF PaidFor, Causes
<1>6. CASE Drain
  <2>1. UNCHANGED <<starts, edits, boots, touches, saves, at>>
    BY <1>6 DEF Drain, vars, counters
  <2>2. Cardinality(Pending(queue')) <= Cardinality(Pending(queue))
    <3>1. queue' = Tail(queue) /\ queue # <<>>
      BY <1>6 DEF Drain
    <3>2. Tail(queue) \in Seq(EventKinds)
      BY <1>t, <3>1
    <3>3. Cardinality(Pending(Tail(queue))) \in Nat
      BY <3>2, PendingFinite
    <3> QED BY <1>t, <1>p, <3>1, <3>3, TailPending
  <2>3. queue' \in Seq(EventKinds) /\ Due' = Due /\ Due \in Nat
    BY <1>6, <1>t, <2>1 DEF Drain, Due
  <2>4. Cardinality(Pending(queue')) \in Nat
    BY <2>3, PendingFinite
  <2> QED BY <1>t, <1>p, <2>1, <2>2, <2>3, <2>4 DEF PaidFor, Causes
<1>7. CASE Timeout
  <2>1. UNCHANGED <<starts, edits, boots, touches, saves, queue>> /\ Due = 1 /\ Due' = 1
    BY <1>7 DEF Timeout, vars, counters, Due
  <2> QED BY <2>1 DEF PaidFor, Causes
<1>8. CASE Fail
  <2>1. UNCHANGED <<starts, edits, boots, touches, saves, queue, at>>
    BY <1>8, <1>w, EngineCounts DEF Fail
  <2> QED BY <2>1 DEF PaidFor, Causes, Due
<1>9. CASE Die
  <2>1. UNCHANGED <<starts, edits, boots, touches, saves>>
    BY <1>9, <1>w, EngineCounts DEF Die, vars, counters
  <2>2. queue' = <<>> /\ Due' = 0 /\ Due \in Nat
    BY <1>9 DEF Die, Due
  <2> QED BY <1>t, <1>p, <2>1, <2>2, NothingPending DEF PaidFor, Causes
<1>10. CASE Boot
  <2>1. UNCHANGED <<starts, edits, touches, saves, queue>> /\ boots' = boots + 1
    BY <1>10 DEF Boot, vars, counters
  <2>2. Due = 0 /\ Due' = 1
    BY <1>10 DEF Boot, Due
  <2> QED BY <1>t, <1>p, <2>1, <2>2 DEF PaidFor, Causes
<1>11. CASE EditTree
  <2>1. UNCHANGED <<starts, boots, touches, saves, at>> /\ edits' = edits + 1
    BY <1>11 DEF EditTree, Edit
  <2>2. /\ Cardinality(Pending(queue')) <= Cardinality(Pending(queue)) + 1
        /\ queue' \in Seq(EventKinds)
    BY <1>11, <1>t, <1>k, NotifyPending, NotifyType DEF EditTree
  <2>3. Cardinality(Pending(queue')) \in Nat /\ Due' = Due /\ Due \in Nat
    BY <2>1, <2>2, PendingFinite DEF Due
  <2> QED BY <1>t, <1>p, <2>1, <2>2, <2>3 DEF PaidFor, Causes
<1>12. CASE Touch
  <2>1. UNCHANGED <<starts, edits, boots, saves, at>> /\ touches' = touches + 1
    BY <1>12 DEF Touch, vars, counters
  <2>2. /\ Cardinality(Pending(queue')) <= Cardinality(Pending(queue)) + 1
        /\ queue' \in Seq(EventKinds)
    BY <1>12, <1>t, <1>k, NotifyPending, NotifyType DEF Touch
  <2>3. Cardinality(Pending(queue')) \in Nat /\ Due' = Due /\ Due \in Nat
    BY <2>1, <2>2, PendingFinite DEF Due
  <2> QED BY <1>t, <1>p, <2>1, <2>2, <2>3 DEF PaidFor, Causes
<1>13. CASE WatchRest \/ UNCHANGED allVars
  <2>1. UNCHANGED <<starts, edits, boots, touches, saves, queue, at>>
    BY <1>13 DEF WatchRest, allVars, watchVars, vars, counters
  <2> QED BY <2>1 DEF PaidFor, Causes, Due
<1> QED BY <1>1, <1>2, <1>3, <1>4, <1>5, <1>6, <1>7, <1>8, <1>9, <1>10, <1>11, <1>12, <1>13
        DEF WatchNext, WatcherStep

(***************************************************************************)
(* However the events of edits, of other files, of the watcher's own reads *)
(* and of its own commits interleave, each reindex has a start of the      *)
(* process or an event of its own behind it: the watcher never wakes       *)
(* itself by reading the tree or writing the index (relevant and           *)
(* is_index_path), and never twice for one event.  It does wake itself by  *)
(* writing the registry below the root, once per write.                    *)
(***************************************************************************)
THEOREM ReindexesHaveCauses == WatchSpec => []EveryReindexHasACause
<1>1. WatchTypeOK /\ PaidFor => EveryReindexHasACause
  <2> SUFFICES ASSUME WatchTypeOK, PaidFor PROVE EveryReindexHasACause
    OBVIOUS
  <2>1. /\ starts \in Nat /\ edits \in Nat /\ boots \in Nat
        /\ touches \in Nat /\ saves \in Nat
        /\ Cardinality(Pending(queue)) \in Nat /\ Due \in Nat
    BY WatchAssumption, PendingFinite DEF WatchTypeOK, TypeOK, Due
  <2> QED BY <2>1 DEF PaidFor, Causes, EveryReindexHasACause
<1> QED BY <1>1, WatchTypeCorrect, InitiallyPaidFor, StepKeepsPaidFor, PTL DEF WatchSpec

------------------------------------------------------------------------------

(***************************************************************************)
(* What CatchesUp promises for some later moment rests on a fact about     *)
(* every moment: while a reindex answers a burst, either nothing but it    *)
(* has touched the tree since it began, or the event of what did is still  *)
(* to be received.  The first build is different, as there are no events   *)
(* before it ends.                                                         *)
(***************************************************************************)
Untouched == quiet[Watcher] \/ Owed

BurstInv ==
  /\ ~ moved
  /\ at = "reindexing" => Untouched

ArmedInv == at \in {"building", "arm", "wait"} => Untouched

(* A relevant event has not been received yet. *)
Awaited(q) == \E i \in 1..Len(q) : Relevant(q[i])

(* Events that arrive overtake none, and a relevant one is awaited from then on. *)
LEMMA NotifyAwaits ==
  ASSUME NEW kind \in EventKinds, queue \in Seq(EventKinds), Notify(kind)
  PROVE  /\ Awaited(queue) => Awaited(queue')
         /\ Armed /\ Relevant(kind) => Awaited(queue')
<1>1. CASE queue' = queue /\ ~ (Armed /\ Relevant(kind))
  BY <1>1
<1>2. CASE queue' = Append(queue, kind)
  <2>1. /\ Len(queue) \in Nat /\ Len(queue') = Len(queue) + 1
        /\ queue'[Len(queue) + 1] = kind
        /\ \A i \in 1..Len(queue) : queue'[i] = queue[i]
    BY <1>2
  <2> QED BY <2>1 DEF Awaited
<1> QED BY <1>1, <1>2 DEF Notify, Relevant

(* An event that recv takes from the channel and drops was not relevant. *)
LEMMA ReceiveAwaits ==
  ASSUME queue \in Seq(EventKinds), queue # <<>>, Awaited(queue), ~ Relevant(Head(queue))
  PROVE  Awaited(Tail(queue))
<1>1. /\ Len(queue) \in Nat /\ Len(Tail(queue)) = Len(queue) - 1
      /\ Head(queue) = queue[1]
      /\ \A i \in 1..Len(Tail(queue)) : Tail(queue)[i] = queue[i + 1]
  OBVIOUS
<1>2. PICK i \in 1..Len(queue) : Relevant(queue[i])
  BY DEF Awaited
<1>3. i # 1
  BY <1>1, <1>2
<1>4. i - 1 \in 1..Len(Tail(queue)) /\ Tail(queue)[i - 1] = queue[i]
  BY <1>1, <1>3
<1> QED BY <1>2, <1>4 DEF Awaited

(* The engine disturbs nobody but others, and leaves the tree alone. *)
LEMMA EngineUndisturbed ==
  ASSUME TypeOK, NEW w \in Workers, Step(w) \/ Abort(w)
  PROVE  quiet'[w] = quiet[w] /\ UNCHANGED <<disk, moved>>
<1>1. quiet \in [Workers -> BOOLEAN]
  BY DEF TypeOK
<1>2. ASSUME NEW new, Commit(w, new) PROVE quiet'[w] = quiet[w]
  BY <1>1, <1>2 DEF Commit
<1>3. ASSUME NEW p \in Paths, ReprocessFile(w, p)
      PROVE  quiet'[w] = quiet[w] /\ UNCHANGED <<disk, moved>>
  BY <1>2, <1>3 DEF ReprocessFile, counters
<1>4. ASSUME NEW p \in Paths, WalkFile(w, p) \/ SkipFile(w, p) \/ ChangedFile(w, p)
      PROVE  quiet'[w] = quiet[w] /\ UNCHANGED <<disk, moved>>
  BY <1>4 DEF WalkFile, SkipFile, ChangedFile, counters
<1>5. ASSUME NEW p \in Paths, Remove(w, p) \/ ForceFile(w, p)
      PROVE  quiet'[w] = quiet[w] /\ UNCHANGED <<disk, moved>>
  BY <1>2, <1>3, <1>5 DEF Remove, ForceFile, counters
<1>6. CASE Rewrite(w) \/ StampId(w) \/ StampDim(w) \/ Wipe(w)
  BY <1>2, <1>6 DEF Rewrite, StampId, StampDim, Wipe, counters
<1>7. CASE WriteFile(w)
  BY <1>2, <1>7 DEF WriteFile, ReprocessFile, counters
<1>8. CASE ReadMetaId(w) \/ Verify(w) \/ CheckStamped(w) \/ ListStored(w) \/ RemoveDone(w)
           \/ Finish(w) \/ Abort(w)
  BY <1>8 DEF ReadMetaId, Verify, CheckStamped, ListStored, RemoveDone, Finish, Abort, counters
<1> QED BY <1>4, <1>5, <1>6, <1>7, <1>8 DEF Step

(* A step leaves what was untouched so, or begins a reindex, or goes where   *)
(* nothing is claimed; but for an edit nobody sees.                          *)
LEMMA StepKeepsUntouched ==
  ASSUME WatchTypeOK, [WatchNext]_allVars
  PROVE  /\ moved' = moved
         /\ at' = "reindexing" => Untouched' \/ (at = "reindexing" /\ ~ Untouched)
         /\ at' \in {"building", "arm", "wait"} /\ (at \in {"building", "arm"} => disk' = disk) =>
              \/ Untouched'
              \/ at \in {"building", "arm", "wait", "reindexing"} /\ ~ Untouched
<1> DEFINE Claims == {"building", "arm", "wait", "reindexing"}
           Goal == /\ moved' = moved
                   /\ at' = "reindexing" => Untouched' \/ (at = "reindexing" /\ ~ Untouched)
                   /\ at' \in {"building", "arm", "wait"}
                        /\ (at \in {"building", "arm"} => disk' = disk) =>
                          Untouched' \/ (at \in Claims /\ ~ Untouched)
<1>t. /\ Watcher \in Workers /\ TypeOK /\ queue \in Seq(EventKinds) /\ at \in Places
      /\ pc[Watcher] # "idle" => at \in {"building", "reindexing"}
  BY WatchAssumption DEF WatchTypeOK
<1>k. /\ {"index", "access", "change", "error"} \subseteq EventKinds
      /\ Relevant("change") /\ Relevant("error")
  BY DEF EventKinds, Relevant
<1>o. /\ Owed <=> Awaited(queue) \/ at \in {"drain", "reindex"}
      /\ Owed' <=> Awaited(queue') \/ at' \in {"drain", "reindex"}
  BY DEF Owed, Awaited
<1>a. ASSUME at' \notin Claims, moved' = moved PROVE Goal
  BY <1>a
<1>b. ASSUME Untouched', moved' = moved PROVE Goal
  BY <1>b
<1>c. ASSUME at \in Claims, at' \in {at, "arm", "wait", "off"}, Untouched => Untouched', moved' = moved
      PROVE  Goal
  BY <1>c
<1>1. CASE HandleChange
  <2>1. quiet'[Watcher] = TRUE /\ moved' = moved
    BY <1>1, <1>t DEF HandleChange, Start
  <2> QED BY <2>1, <1>b DEF Untouched
<1>2. CASE EngineStep
  <2>1. quiet'[Watcher] = quiet[Watcher] /\ moved' = moved
    BY <1>2, <1>t, EngineUndisturbed DEF EngineStep
  <2>2. Awaited(queue) => Awaited(queue')
    <3>1. queue' = queue \/ Notify("index") \/ Notify("access")
      BY <1>2 DEF EngineStep
    <3> QED BY <3>1, <1>t, <1>k, NotifyAwaits
  <2>3. at \in {"building", "reindexing"} /\ at' = at
    BY <1>2 DEF EngineStep
  <2>4. Untouched => Untouched'
    BY <2>1, <2>2, <2>3, <1>o DEF Untouched
  <2> QED BY <2>1, <2>3, <2>4, <1>c
<1>3. CASE Return \/ Arm
  <2>1. /\ quiet' = quiet /\ moved' = moved
        /\ queue' = queue \/ Notify("change")
        /\ at \in {"building", "reindexing", "arm"} /\ at' \in {"arm", "wait", "off"}
    BY <1>3 DEF Return, Arm, RegisterInSidecar, vars, counters
  <2>2. Awaited(queue) => Awaited(queue')
    BY <2>1, <1>t, <1>k, NotifyAwaits
  <2>3. Untouched => Untouched'
    BY <2>1, <2>2, <1>o DEF Untouched
  <2> QED BY <2>1, <2>3, <1>c
<1>4. CASE Receive
  <2>1. /\ quiet' = quiet /\ moved' = moved /\ queue' = Tail(queue) /\ queue # <<>> /\ at = "wait"
        /\ at' = IF Relevant(Head(queue)) THEN "drain" ELSE "wait"
    BY <1>4 DEF Receive, vars, counters
  <2>2. CASE Relevant(Head(queue))
    BY <2>1, <2>2, <1>a
  <2>3. CASE ~ Relevant(Head(queue))
    <3>1. Awaited(queue) => Awaited(queue')
      BY <2>1, <2>3, <1>t, ReceiveAwaits
    <3>2. Untouched => Untouched'
      BY <2>1, <2>3, <3>1, <1>o DEF Untouched
    <3> QED BY <2>1, <2>3, <3>2, <1>c
  <2> QED BY <2>2, <2>3
<1>5. CASE Drain \/ Timeout \/ Boot
  <2>1. moved' = moved /\ at' \in {"drain", "reindex", "build"}
    BY <1>5 DEF Drain, Timeout, Boot, vars, counters
  <2> QED BY <2>1, <1>a
<1>6. CASE Fail
  <2>1. quiet'[Watcher] = quiet[Watcher] /\ moved' = moved
    BY <1>6, <1>t, EngineUndisturbed DEF Fail
  <2>2. at \in {"building", "reindexing"} /\ at' = at /\ queue' = queue
    BY <1>6, <1>t DEF Fail, Abort
  <2>3. Untouched => Untouched'
    BY <2>1, <2>2, <1>o DEF Untouched
  <2> QED BY <2>1, <2>2, <2>3, <1>c
<1>7. CASE Die
  <2>1. at' = "off" /\ moved' = moved
    BY <1>7, <1>t, EngineUndisturbed DEF Die, vars, counters
  <2> QED BY <2>1, <1>a
<1>8. CASE EditTree
  <2>1. moved' = moved /\ disk' # disk /\ at' = at
    BY <1>8 DEF EditTree, Edit
  <2>2. CASE Armed
    <3>1. PICK kind \in {"change", "error"} : Notify(kind)
      BY <1>8 DEF EditTree
    <3>2. Awaited(queue')
      BY <2>2, <3>1, <1>t, <1>k, NotifyAwaits
    <3> QED BY <2>1, <3>2, <1>o, <1>b DEF Untouched
  <2>3. CASE ~ Armed
    BY <2>1, <2>3 DEF Armed
  <2> QED BY <2>2, <2>3
<1>9. CASE Touch
  <2>1. quiet' = quiet /\ moved' = moved /\ at' = at /\ Armed /\ Notify("change")
    BY <1>9 DEF Touch, vars, counters
  <2>2. Awaited(queue')
    BY <2>1, <1>t, <1>k, NotifyAwaits
  <2> QED BY <2>1, <2>2, <1>o, <1>b DEF Untouched
<1>10. CASE WatchRest \/ UNCHANGED allVars
  <2>1. quiet' = quiet /\ moved' = moved /\ queue' = queue /\ at' = at
    BY <1>10 DEF WatchRest, allVars, watchVars, vars, counters
  <2>2. Untouched => Untouched'
    BY <2>1, <1>o DEF Untouched
  <2>3. CASE at \in Claims
    BY <2>1, <2>2, <2>3, <1>c
  <2>4. CASE at \notin Claims
    BY <2>1, <2>4, <1>a
  <2> QED BY <2>3, <2>4
<1> QED BY <1>1, <1>2, <1>3, <1>4, <1>5, <1>6, <1>7, <1>8, <1>9, <1>10 DEF WatchNext, WatcherStep

LEMMA BurstInvariant == WatchSpec => []BurstInv
<1>1. WatchInit => BurstInv
  BY DEF WatchInit, Init, BurstInv
<1>2. WatchTypeOK /\ BurstInv /\ [WatchNext]_allVars => BurstInv'
  BY StepKeepsUntouched DEF BurstInv
<1> QED BY <1>1, <1>2, WatchTypeCorrect, PTL DEF WatchSpec

(* What is untouched since a reindex that succeeded is indexed exactly. *)
LEMMA UntouchedIsExact ==
  ASSUME QuietReindexExact, ~ moved, Untouched, outcome[Watcher] = "ok"
  PROVE  IndexExact(db, disk, root) \/ Owed
BY WatchAssumption DEF QuietReindexExact, Untouched

(***************************************************************************)
(* Whatever is edited while the watcher walks the tree, writes the index   *)
(* or waits for the end of a burst: when the reindex has returned and      *)
(* succeeded, the index is that of the tree, or the event of the edit that *)
(* came too late is still in the channel, to bring about the next one.     *)
(***************************************************************************)
THEOREM BurstIsAnswered == WatchSpec => BurstAnswered
<1> DEFINE Answers ==
      at = "reindexing" /\ at' = "wait" /\ outcome'[Watcher] = "ok" =>
        (IndexExact(db, disk, root) \/ Owed)'
<1>1. WatchTypeOK /\ WatchTypeOK' /\ BurstInv /\ BurstInv' /\ QuietReindexExact'
        /\ [WatchNext]_allVars => Answers
  <2> SUFFICES ASSUME WatchTypeOK, BurstInv, BurstInv', QuietReindexExact', [WatchNext]_allVars,
                      at = "reindexing", at' = "wait", outcome'[Watcher] = "ok"
               PROVE  (IndexExact(db, disk, root) \/ Owed)'
    OBVIOUS
  <2>1. ~ moved' /\ Untouched'
    BY StepKeepsUntouched DEF BurstInv
  <2> QED BY <2>1, WatchAssumption DEF QuietReindexExact, Untouched
<1>2. WatchSpec => []QuietReindexExact
  BY RunsTheEngine, QuietReindexIsExact, PTL
<1> QED BY <1>1, <1>2, WatchTypeCorrect, BurstInvariant, PTL DEF WatchSpec, BurstAnswered

(***************************************************************************)
(* If nobody edits between the start of a first build and the arming of    *)
(* the watcher, then at any moment at which it waits after a reindex that  *)
(* succeeded the index is that of the tree, or an event is in the channel: *)
(* after any bursts, failed reindexes and restarts.  Without that the      *)
(* claim is false (watch.rs:95): the edit is in no walk and has no event.  *)
(***************************************************************************)
THEOREM FollowsTheTree == WatchSpec /\ QuietUntilArmed => []UpToDateAtRest
<1>1. WatchInit => ArmedInv
  BY DEF WatchInit, ArmedInv
<1>2. WatchTypeOK /\ BurstInv /\ ArmedInv /\ [WatchNext]_allVars
        /\ [(at \in {"building", "arm"}) => UNCHANGED disk]_allVars => ArmedInv'
  <2> SUFFICES ASSUME WatchTypeOK, BurstInv, ArmedInv, [WatchNext]_allVars,
                      [(at \in {"building", "arm"}) => UNCHANGED disk]_allVars
               PROVE  ArmedInv'
    OBVIOUS
  <2>1. at \in {"building", "arm"} => disk' = disk
    BY DEF allVars, vars
  <2> QED BY <2>1, StepKeepsUntouched DEF BurstInv, ArmedInv
<1>3. BurstInv /\ ArmedInv /\ QuietReindexExact => UpToDateAtRest
  BY UntouchedIsExact DEF BurstInv, ArmedInv, UpToDateAtRest
<1>4. WatchSpec => []QuietReindexExact
  BY RunsTheEngine, QuietReindexIsExact, PTL
<1> QED BY <1>1, <1>2, <1>3, <1>4, WatchTypeCorrect, BurstInvariant, PTL
        DEF WatchSpec, QuietUntilArmed
=============================================================================
