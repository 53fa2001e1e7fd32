---------------------------- MODULE ServerProofs ----------------------------
(***************************************************************************)
(* The safety properties of Server, for any number of processes, roots and *)
(* files.  Three inductive invariants carry them: what a temporary file    *)
(* holds when it is renamed, what a process about to save has loaded, and  *)
(* which process completes an index whose last break is over.              *)
(***************************************************************************)
EXTENDS Server, TLAPS

\* A call that only moves on leaves these alone: the frames of the steps name them.
USE DEF call

LEMMA InitTyped == Init => TypeOK
  BY DEF Init, TypeOK, Places, InBuild

\* The steps of one process that are not part of a register.
Call(p) ==
  \/ \E r \in Roots : SearchCode(p, r) \/ ReindexTool(p, r, FALSE) \/ ReindexTool(p, r, TRUE)
  \/ EnsureIndexed(p) \/ OpenDb(p) \/ StartReindex(p) \/ ReindexFile(p) \/ EndReindex(p)
  \/ AnswerSearch(p) \/ ReturnAnswer(p)

Register(p) == Load(p) \/ WriteTmp(p) \/ Rename(p) \/ RegisterFails(p)

Fault(p) == BuildFails(p) \/ Crash(p)

LEMMA NextCases ==
  ASSUME [Next]_vars
  PROVE  \/ \E p \in Processes : Call(p) \/ Register(p) \/ Fault(p)
         \/ \E r \in Roots : RemoveIndex(r)
         \/ UNCHANGED vars
  BY DEF Next, Call, Register, Fault

LEMMA CallTyped == ASSUME TypeOK, NEW p \in Processes, Call(p) PROVE TypeOK'
  <1>1. CASE \E r \in Roots : SearchCode(p, r) \/ ReindexTool(p, r, FALSE) \/ ReindexTool(p, r, TRUE)
    <2>1. PICK r \in Roots, b \in BOOLEAN : SearchCode(p, r) \/ ReindexTool(p, r, b)
      BY <1>1
    <2>. QED
      BY <2>1 DEF SearchCode, ReindexTool, Called, Go, TypeOK, Places, InBuild, InRegister, index,
         sidecar, past
  <1>2. CASE EnsureIndexed(p)
    BY <1>2 DEF EnsureIndexed, IndexThere, Go, TypeOK, Places, InBuild, InRegister, index, sidecar,
       bounds, past
  <1>3. CASE OpenDb(p)
    BY <1>3 DEF OpenDb, Go, TypeOK, Places, InBuild, InRegister, index, sidecar, bounds, past
  <1>4. CASE StartReindex(p)
    BY <1>4 DEF StartReindex, Go, TypeOK, Places, InBuild, InRegister, index, sidecar, bounds, past
  <1>5. CASE ReindexFile(p)
    BY <1>5 DEF ReindexFile, TypeOK, Places, InBuild, InRegister, index, sidecar, bounds, past
  <1>6. CASE EndReindex(p)
    BY <1>6 DEF EndReindex, Go, TypeOK, Places, InBuild, InRegister, index, sidecar, bounds, past
  <1>7. CASE AnswerSearch(p) \/ ReturnAnswer(p)
    BY <1>7 DEF AnswerSearch, ReturnAnswer, Go, TypeOK, Places, InBuild, InRegister, index, sidecar,
       bounds, past
  <1>. QED
    BY <1>1, <1>2, <1>3, <1>4, <1>5, <1>6, <1>7 DEF Call

\* What is renamed is what its process has loaded, whole.
Whole == \A p \in Processes : at[p] = "rename" => tmp[p] = loaded[p]

LEMMA RegisterTyped ==
  ASSUME TypeOK, Whole, NEW p \in Processes, Register(p) PROVE TypeOK'
  <1>. USE DEF TypeOK, Places, InBuild, InRegister, index, sidecar, bounds, past
  <1>1. CASE Load(p)
    <2>1. /\ loaded' = [loaded EXCEPT ![p] = LoadRegistry \cup {root[p]}]
          /\ LoadRegistry \cup {root[p]} \in SUBSET Roots
      BY <1>1 DEF Load, LoadRegistry
    <2>. QED
      BY <1>1, <2>1 DEF Load, Go
  <1>2. CASE WriteTmp(p)
    BY <1>2 DEF WriteTmp, Go, TmpName
  <1>3. CASE Rename(p)
    <2>1. registry' \in SUBSET Roots
      BY <1>3 DEF Rename, Go, TmpName, Whole
    <2>2. noted' \in SUBSET Roots /\ missed' \in [Processes -> SUBSET Roots]
      BY <1>3 DEF Rename
    <2>. QED
      BY <1>3, <2>1, <2>2 DEF Rename, Go, TmpName
  <1>4. CASE RegisterFails(p)
    BY <1>4 DEF RegisterFails
  <1>. QED
    BY <1>1, <1>2, <1>3, <1>4 DEF Register

LEMMA FaultTyped == ASSUME TypeOK, NEW p \in Processes, Fault(p) PROVE TypeOK'
  <1>1. /\ broken' \in [Roots -> BOOLEAN] /\ fresh' \in [Processes -> BOOLEAN]
    <2>1. CASE LeftBy(root[p])
      <3>1. CASE rows[root[p]] = Files
        BY <2>1, <3>1 DEF LeftBy, TypeOK
      <3>2. CASE rows[root[p]] # Files
        <4>1. broken' = [broken EXCEPT ![root[p]] = TRUE]
          BY <2>1, <3>2 DEF LeftBy
        <4>2. broken' \in [Roots -> BOOLEAN]
          BY <4>1 DEF TypeOK
        <4>3. fresh' = [q \in Processes |-> fresh[q] /\ root[q] # root[p]]
          BY <2>1, <3>2 DEF LeftBy
        <4>4. \A q \in Processes : (fresh[q] /\ root[q] # root[p]) \in BOOLEAN
          OBVIOUS
        <4>. QED
          BY <4>2, <4>3, <4>4, Zenon
      <3>. QED
        BY <3>1, <3>2
    <2>2. CASE UNCHANGED <<broken, fresh>>
      BY <2>2 DEF TypeOK
    <2>. QED
      BY <2>1, <2>2 DEF Fault, BuildFails, Crash
  <1>. QED
    BY <1>1 DEF Fault, BuildFails, Crash, TypeOK, Places, InBuild, InRegister, index, sidecar,
       bounds, past

LEMMA RemoveTyped == ASSUME TypeOK, NEW r \in Roots, RemoveIndex(r) PROVE TypeOK'
  BY DEF RemoveIndex, TypeOK, Places, InBuild, InRegister, index, sidecar, bounds, past

LEMMA WholeKept == ASSUME TypeOK, Whole, [Next]_vars PROVE Whole'
  <1>1. CASE \E p \in Processes : Call(p)
    BY <1>1 DEF Call, SearchCode, ReindexTool, Called, EnsureIndexed, OpenDb, StartReindex,
       ReindexFile, EndReindex, AnswerSearch, ReturnAnswer, Go, Whole, TypeOK, sidecar
  <1>2. CASE \E p \in Processes : Register(p)
    BY <1>2 DEF Register, Load, WriteTmp, Rename, RegisterFails, Go, TmpName, Whole, TypeOK, sidecar
  <1>3. CASE \E p \in Processes : Fault(p)
    BY <1>3 DEF Fault, BuildFails, Crash, Whole, TypeOK, sidecar
  <1>4. CASE \E r \in Roots : RemoveIndex(r)
    BY <1>4 DEF RemoveIndex, Whole, sidecar
  <1>5. CASE UNCHANGED vars
    BY <1>5 DEF Whole, vars, sidecar
  <1>. QED
    BY <1>1, <1>2, <1>3, <1>4, <1>5, NextCases

(* Every variable keeps its shape, and a call that builds or searches, or    *)
(* registers what it will search, has an index file: TypeOK, for every value *)
(* of the constants.                                                         *)
THEOREM TypeCorrect == Spec => [](TypeOK /\ Whole)
  <1>1. Init => TypeOK /\ Whole
    BY InitTyped DEF Init, Whole
  <1>2. TypeOK /\ Whole /\ [Next]_vars => TypeOK' /\ Whole'
    <2>. SUFFICES ASSUME TypeOK, Whole, [Next]_vars PROVE TypeOK'
      BY WholeKept
    <2>1. CASE UNCHANGED vars
      BY <2>1 DEF vars, index, sidecar, bounds, past, TypeOK
    <2>. QED
      BY <2>1, NextCases, CallTyped, RegisterTyped, FaultTyped, RemoveTyped
  <1>. QED
    BY <1>1, <1>2, PTL DEF Spec

(* A registry is read whole, however many saves interleave, fail or are cut  *)
(* off: no two processes write one temporary file, and none is renamed       *)
(* before it is filled (save).                                               *)
THEOREM RegistryWhole == Spec => []NoTornRegistry
  <1>1. Init => NoTornRegistry
    BY CutAssumption DEF Init, NoTornRegistry, Torn
  <1>2. TypeOK /\ Whole /\ NoTornRegistry /\ [Next]_vars => NoTornRegistry'
    <2>. SUFFICES ASSUME TypeOK, Whole, NoTornRegistry, [Next]_vars PROVE NoTornRegistry'
      OBVIOUS
    <2>1. CASE \E p \in Processes : Rename(p)
      <3>1. PICK p \in Processes : Rename(p)
        BY <2>1
      <3>2. registry' = loaded[p]
        BY <3>1 DEF Rename, Go, TmpName, Whole
      <3>. QED
        BY <3>2, CutAssumption DEF TypeOK, NoTornRegistry, Torn
    <2>2. CASE UNCHANGED registry
      BY <2>2 DEF NoTornRegistry
    <2>. QED
      BY <2>1, <2>2, NextCases DEF Call, SearchCode, ReindexTool, Called, EnsureIndexed, OpenDb,
         StartReindex, ReindexFile, EndReindex, AnswerSearch, ReturnAnswer, Register, Load,
         WriteTmp, RegisterFails, Fault, BuildFails, Crash, RemoveIndex, vars, sidecar
  <1>. QED
    BY <1>1, <1>2, TypeCorrect, PTL DEF Spec

------------------------------------------------------------------------------
\* A recorded root has its index, is in the registry, and has been loaded by
\* every process that is about to save and has not overlooked it.
Recorded ==
  /\ noted \subseteq registry
  /\ \A r \in noted : exists[r]
  /\ \A p \in Saving : noted \ missed[p] \subseteq loaded[p] /\ root[p] \in loaded[p]

LEMMA RecordedByCall ==
  ASSUME TypeOK, Recorded, NEW p \in Processes, Call(p) PROVE Recorded'
  <1>1. UNCHANGED <<registry, noted, missed, loaded>>
    BY DEF Call, SearchCode, ReindexTool, Called, EnsureIndexed, OpenDb, StartReindex, ReindexFile,
       EndReindex, AnswerSearch, ReturnAnswer, sidecar, past
  <1>2. \A r \in Roots : exists[r] => exists'[r]
    BY DEF Call, SearchCode, ReindexTool, Called, EnsureIndexed, OpenDb, StartReindex, ReindexFile,
       EndReindex, AnswerSearch, ReturnAnswer, index, TypeOK
  <1>3. \A q \in Saving' : q \in Saving /\ root'[q] = root[q]
    BY DEF Call, SearchCode, ReindexTool, Called, EnsureIndexed, OpenDb, StartReindex, ReindexFile,
       EndReindex, AnswerSearch, ReturnAnswer, Go, Saving, InRegister, TypeOK
  <1>. QED
    BY <1>1, <1>2, <1>3 DEF Recorded, TypeOK

LEMMA RecordedByRegister ==
  ASSUME TypeOK, Whole, Recorded, NEW p \in Processes, Register(p) PROVE Recorded'
  <1>1. CASE Load(p)
    <2>1. Saving' \subseteq Saving \cup {p}
      BY <1>1 DEF Load, Go, Saving, InRegister, TypeOK
    <2>2. loaded'[p] = LoadRegistry \cup {root[p]} /\ noted \subseteq LoadRegistry
      BY <1>1 DEF Load, LoadRegistry, Recorded, TypeOK
    <2>3. \A q \in Processes \ {p} : loaded'[q] = loaded[q] /\ missed'[q] = missed[q]
      BY <1>1 DEF Load, TypeOK
    <2>4. UNCHANGED <<registry, noted, exists, root>>
      BY <1>1 DEF Load, index
    <2>. QED
      BY <2>1, <2>2, <2>3, <2>4 DEF Recorded, Saving
  <1>2. CASE WriteTmp(p) \/ RegisterFails(p)
    <2>1. Saving' \subseteq Saving
      BY <1>2 DEF WriteTmp, RegisterFails, Go, Saving, InRegister, TypeOK
    <2>. QED
      BY <1>2, <2>1 DEF WriteTmp, RegisterFails, Recorded, index, sidecar, past
  <1>3. CASE Rename(p)
    <2>1. p \in Saving /\ Saving' = Saving \ {p}
      BY <1>3 DEF Rename, Go, Saving, InRegister, TypeOK
    <2>2. registry' = loaded[p] /\ UNCHANGED <<loaded, root, exists>>
      BY <1>3 DEF Rename, Go, TmpName, Whole, index
    <2>3. /\ noted' \subseteq (noted \ (missed[p] \ loaded[p])) \cup {root[p]}
          /\ \A r \in noted' : r \in noted \/ exists[r]
      BY <1>3 DEF Rename
    <2>4. \A q \in Saving : missed'[q] = missed[q] \cup {root[p]}
      BY <1>3 DEF Rename, Saving
    <2>. QED
      BY <2>1, <2>2, <2>3, <2>4 DEF Recorded
  <1>. QED
    BY <1>1, <1>2, <1>3 DEF Register

LEMMA RecordedByOthers ==
  ASSUME TypeOK, Recorded,
         (\E p \in Processes : Fault(p)) \/ (\E r \in Roots : RemoveIndex(r)) \/ UNCHANGED vars
  PROVE  Recorded'
  <1>1. CASE \E p \in Processes : Fault(p)
    <2>1. Saving' \subseteq Saving
      BY <1>1 DEF Fault, BuildFails, Crash, Saving, InRegister, TypeOK
    <2>. QED
      BY <1>1, <2>1 DEF Fault, BuildFails, Crash, Recorded, index, sidecar
  <1>2. CASE \E r \in Roots : RemoveIndex(r)
    BY <1>2 DEF RemoveIndex, Recorded, Saving, sidecar, TypeOK
  <1>3. CASE UNCHANGED vars
    BY <1>3 DEF vars, index, sidecar, past, Recorded, Saving
  <1>. QED
    BY <1>1, <1>2, <1>3

(* A root stays recorded as long as its index exists; a save drops it only   *)
(* when its process had loaded the registry before the root was saved.       *)
THEOREM RecordsStay == Spec => []RecordedStays
  <1>1. Init => Recorded
    BY DEF Init, Recorded, Saving, InRegister
  <1>2. TypeOK /\ Whole /\ Recorded /\ [Next]_vars => Recorded'
    BY NextCases, RecordedByCall, RecordedByRegister, RecordedByOthers
  <1>3. Recorded => RecordedStays
    BY DEF Recorded, RecordedStays
  <1>. QED
    BY <1>1, <1>2, <1>3, TypeCorrect, PTL DEF Spec

------------------------------------------------------------------------------
Completed(r) == \E p \in Processes : WillComplete(p, r)

Building(p, r) == at[p] \in InBuild /\ root[p] = r

\* An index without a broken build is complete or being completed, and so is
\* one that a build begun after the break has come to the files of.
Gaps(r) ==
  /\ exists[r] /\ Missing(r) # {} => broken[r] \/ Completed(r)
  /\ \A p \in Processes : at[p] = "files" /\ root[p] = r /\ fresh[p] => Completed(r)

\* A step that leaves r and its builds alone, or ends one that has nothing to do with it.
LEMMA GapsFramed ==
  ASSUME TypeOK, NEW r \in Roots, Gaps(r),
         rows'[r] = rows[r], broken'[r] = broken[r], exists'[r] => exists[r],
         \A p \in Processes : Building(p, r) =>
           at'[p] = at[p] /\ root'[p] = r /\ todo'[p] = todo[p],
         \A p \in Processes : at'[p] = "files" /\ root'[p] = r /\ fresh'[p]
           => at[p] = "files" /\ root[p] = r /\ fresh[p]
  PROVE  Gaps(r)'
  <1>1. ASSUME NEW p \in Processes, WillComplete(p, r) PROVE WillComplete(p, r)'
    BY <1>1 DEF WillComplete, Missing, Building, InBuild
  <1>2. Completed(r) => Completed(r)'
    BY <1>1 DEF Completed
  <1>3. Missing(r)' = Missing(r)
    BY DEF Missing
  <1>. QED
    BY <1>2, <1>3 DEF Gaps

LEMMA GapsByCall ==
  ASSUME TypeOK, NEW r \in Roots, Gaps(r), NEW p \in Processes, Call(p) PROVE Gaps(r)'
  <1>1. CASE \E s \in Roots : SearchCode(p, s) \/ ReindexTool(p, s, FALSE) \/ ReindexTool(p, s, TRUE)
    BY SMTT(30), <1>1, GapsFramed
       DEF SearchCode, ReindexTool, Called, Go, Building, InBuild, TypeOK, index, past
  <1>2. CASE EnsureIndexed(p)
    BY <1>2, GapsFramed DEF EnsureIndexed, Go, Building, InBuild, TypeOK, index, past
  <1>3. CASE OpenDb(p)
    <2>1. at[p] = "open" /\ at'[p] = "start" /\ UNCHANGED <<rows, root, todo, broken>>
      BY <1>3 DEF OpenDb, Go, TypeOK
    <2>2. \A q \in Processes \ {p} : at'[q] = at[q] /\ fresh'[q] = fresh[q]
      BY <1>3 DEF OpenDb, Go, TypeOK
    <2>3. CASE root[p] = r
      <3>1. WillComplete(p, r)'
        BY <2>1, <2>3 DEF WillComplete
      <3>. QED
        BY <3>1 DEF Gaps, Completed
    <2>4. CASE root[p] # r
      <3>1. exists'[r] = exists[r]
        BY <1>3, <2>4 DEF OpenDb, TypeOK
      <3>. QED
        BY <2>1, <2>2, <2>4, <3>1, GapsFramed DEF Building
    <2>. QED
      BY <2>3, <2>4
  <1>4. CASE StartReindex(p)
    <2>1. at[p] = "start" /\ at'[p] = "files" /\ UNCHANGED <<exists, root, broken, fresh>>
      BY <1>4 DEF StartReindex, Go, TypeOK, past
    <2>2. \A q \in Processes \ {p} : at'[q] = at[q] /\ todo'[q] = todo[q]
      BY <1>4 DEF StartReindex, Go, TypeOK
    <2>3. todo'[p] = Files
      BY <1>4 DEF StartReindex, TypeOK
    <2>4. CASE root[p] = r
      <3>1. WillComplete(p, r)'
        BY <2>1, <2>3, <2>4 DEF WillComplete, Missing
      <3>. QED
        BY <3>1 DEF Gaps, Completed
    <2>5. CASE root[p] # r
      <3>1. rows'[r] = rows[r]
        BY <1>4, <2>5 DEF StartReindex, TypeOK
      <3>. QED
        BY <2>1, <2>2, <2>5, <3>1, GapsFramed DEF Building
    <2>. QED
      BY <2>4, <2>5
  <1>5. CASE ReindexFile(p)
    <2>1. at[p] = "files" /\ UNCHANGED <<at, exists, root, broken, fresh>>
      BY <1>5 DEF ReindexFile, past
    <2>2. PICK f \in todo[p] : /\ rows' = [rows EXCEPT ![root[p]] = @ \cup {f}]
                               /\ todo' = [todo EXCEPT ![p] = @ \ {f}]
      BY <1>5 DEF ReindexFile
    <2>3. CASE root[p] = r
      <3>1. rows'[r] = rows[r] \cup {f}
        BY <2>2, <2>3 DEF TypeOK
      <3>2. \A q \in Processes : todo[q] \ {f} \subseteq todo'[q]
        BY <2>2 DEF TypeOK
      <3>3. ASSUME NEW q \in Processes, WillComplete(q, r) PROVE WillComplete(q, r)'
        BY <2>1, <3>1, <3>2, <3>3 DEF WillComplete, Missing
      <3>4. Completed(r) => Completed(r)'
        BY <3>3 DEF Completed
      <3>. QED
        BY <2>1, <3>1, <3>4 DEF Gaps, Missing
    <2>4. CASE root[p] # r
      <3>1. rows'[r] = rows[r]
        BY <2>2, <2>4 DEF TypeOK
      <3>2. \A q \in Processes \ {p} : todo'[q] = todo[q]
        BY <2>2 DEF TypeOK
      <3>. QED
        BY <2>1, <2>4, <3>1, <3>2, GapsFramed DEF Building
    <2>. QED
      BY <2>3, <2>4
  <1>6. CASE EndReindex(p)
    <2>1. at[p] = "files" /\ at'[p] = "load" /\ todo[p] = {} /\ UNCHANGED <<index, root, todo, fresh>>
      BY <1>6 DEF EndReindex, Go, TypeOK
    <2>2. \A q \in Processes \ {p} : at'[q] = at[q]
      BY <1>6 DEF EndReindex, Go, TypeOK
    <2>3. CASE root[p] = r
      <3>1. Missing(r)' = Missing(r)
        BY <2>1 DEF Missing, index
      <3>2. ASSUME Completed(r) PROVE Missing(r) = {} \/ Completed(r)'
        <4>1. PICK q \in Processes : WillComplete(q, r)
          BY <3>2 DEF Completed
        <4>2. CASE q = p
          BY <2>1, <4>1, <4>2 DEF WillComplete
        <4>3. CASE q # p
          <5>1. WillComplete(q, r)'
            BY <2>1, <2>2, <3>1, <4>1, <4>3 DEF WillComplete
          <5>. QED
            BY <5>1 DEF Completed
        <4>. QED
          BY <4>2, <4>3
      <3>3. broken[r] /\ ~ broken'[r] => fresh[p]
        BY <1>6, <2>3 DEF EndReindex, TypeOK
      <3>4. fresh[p] => Completed(r)
        BY <2>1, <2>3 DEF Gaps
      <3>5. exists'[r] /\ Missing(r)' # {} => broken'[r] \/ Completed(r)'
        BY <2>1, <3>1, <3>2, <3>3, <3>4 DEF Gaps, index
      <3>6. ASSUME NEW q \in Processes, at'[q] = "files", root'[q] = r, fresh'[q]
            PROVE  Completed(r)'
        <4>1. q # p /\ Completed(r)
          BY <2>1, <2>2, <3>6 DEF Gaps
        <4>2. CASE Missing(r) = {}
          <5>1. WillComplete(q, r)'
            BY <3>1, <3>6, <4>2 DEF WillComplete
          <5>. QED
            BY <5>1 DEF Completed
        <4>. QED
          BY <3>2, <4>1, <4>2
      <3>. QED
        BY <3>5, <3>6 DEF Gaps
    <2>4. CASE root[p] # r
      <3>1. broken'[r] = broken[r]
        BY <1>6, <2>4 DEF EndReindex, TypeOK
      <3>. QED
        BY <2>1, <2>2, <2>4, <3>1, GapsFramed DEF Building, index
    <2>. QED
      BY <2>3, <2>4
  <1>7. CASE AnswerSearch(p) \/ ReturnAnswer(p)
    BY <1>7, GapsFramed DEF AnswerSearch, ReturnAnswer, Go, Building, InBuild, TypeOK, index, past
  <1>. QED
    BY <1>1, <1>2, <1>3, <1>4, <1>5, <1>6, <1>7 DEF Call

LEMMA GapsByRegister ==
  ASSUME TypeOK, NEW r \in Roots, Gaps(r), NEW p \in Processes, Register(p) PROVE Gaps(r)'
  BY GapsFramed DEF Register, Load, WriteTmp, Rename, RegisterFails, Go, Building, InBuild,
     InRegister, TypeOK, index, past

LEMMA GapsByFault ==
  ASSUME TypeOK, NEW r \in Roots, Gaps(r), NEW p \in Processes, Fault(p) PROVE Gaps(r)'
  <1>1. at'[p] = "idle" /\ UNCHANGED <<exists, rows, root>>
    BY DEF Fault, BuildFails, Crash, TypeOK, index
  <1>2. \A q \in Processes \ {p} : at'[q] = at[q] /\ todo'[q] = todo[q]
    BY DEF Fault, BuildFails, Crash, TypeOK
  <1>3. CASE Building(p, r) /\ rows[r] # Files
    <2>1. LeftBy(r)
      BY <1>3 DEF Fault, BuildFails, Crash, Building
    <2>2. broken'[r]
      BY <1>3, <2>1 DEF LeftBy, TypeOK
    <2>3. \A q \in Processes : fresh'[q] => root[q] # r
      BY <1>3, <2>1 DEF LeftBy
    <2>. QED
      BY <1>1, <2>2, <2>3 DEF Gaps
  <1>4. CASE Building(p, r) /\ rows[r] = Files
    <2>1. Missing(r)' = {}
      BY <1>1, <1>4 DEF Missing
    <2>2. \A q \in Processes : at'[q] = "files" /\ root'[q] = r => WillComplete(q, r)'
      BY <2>1 DEF WillComplete
    <2>. QED
      BY <2>1, <2>2 DEF Gaps, Completed
  <1>5. CASE ~ Building(p, r)
    <2>1. LeftBy(root[p]) \/ UNCHANGED <<broken, fresh>>
      BY DEF Fault, BuildFails, Crash
    <2>2. LeftBy(root[p]) => root[p] # r \/ UNCHANGED <<broken, fresh>>
      BY <1>5 DEF Fault, BuildFails, Crash, Building
    <2>3. broken'[r] = broken[r] /\ \A q \in Processes : fresh'[q] => fresh[q]
      BY <2>1, <2>2 DEF LeftBy, TypeOK
    <2>. QED
      BY <1>1, <1>2, <1>5, <2>3, GapsFramed DEF Building
  <1>. QED
    BY <1>3, <1>4, <1>5

LEMMA GapsByRemoval ==
  ASSUME TypeOK, NEW r \in Roots, Gaps(r), NEW s \in Roots, RemoveIndex(s) PROVE Gaps(r)'
  <1>1. CASE s = r
    <2>1. ~ exists'[r] /\ UNCHANGED <<at, root>>
      BY <1>1 DEF RemoveIndex, TypeOK
    <2>2. \A p \in Processes : root[p] = r => at[p] # "files"
      BY <1>1 DEF RemoveIndex, InRegister
    <2>. QED
      BY <2>1, <2>2 DEF Gaps
  <1>2. CASE s # r
    BY <1>2, GapsFramed DEF RemoveIndex, Building, TypeOK
  <1>. QED
    BY <1>1, <1>2

(* An index that lacks files is being completed by a process that has them   *)
(* all before it, or a build of it broke off and no reindex begun since has  *)
(* ended, whatever builds, wipes and deaths have raced.                      *)
THEOREM NoOtherGaps == Spec => []GapsAreClosed
  <1>. DEFINE AllGaps == \A r \in Roots : Gaps(r)
  <1>1. Init => AllGaps
    BY DEF Init, Gaps
  <1>2. TypeOK /\ AllGaps /\ [Next]_vars => AllGaps'
    <2>. SUFFICES ASSUME TypeOK, [Next]_vars, NEW r \in Roots, Gaps(r) PROVE Gaps(r)'
      OBVIOUS
    <2>1. CASE UNCHANGED vars
      BY <2>1, GapsFramed DEF vars, index, past, Building
    <2>. QED
      BY <2>1, NextCases, GapsByCall, GapsByRegister, GapsByFault, GapsByRemoval
  <1>3. AllGaps => GapsAreClosed
    BY DEF Gaps, GapsAreClosed, Completed
  <1>. QED
    BY <1>1, <1>2, <1>3, TypeCorrect, PTL DEF Spec

(* A search answers from an index that lacks files only while another        *)
(* process is completing it or after a build that broke off: the two cases   *)
(* that exists() cannot tell from a finished index, and there is no third.   *)
THEOREM PartialAnswers == Spec => PartialAnswersExplained
  <1>. DEFINE Explained ==
         \A p \in Processes :
           AnswerSearch(p) /\ Missing(root[p]) # {} =>
             broken[root[p]] \/ \E q \in Processes \ {p} : WillComplete(q, root[p])
  <1>1. TypeOK /\ GapsAreClosed => Explained
    <2>. SUFFICES ASSUME TypeOK, GapsAreClosed, NEW p \in Processes, AnswerSearch(p),
                         Missing(root[p]) # {}, ~ broken[root[p]]
                  PROVE  \E q \in Processes \ {p} : WillComplete(q, root[p])
      OBVIOUS
    <2>1. at[p] = "search" /\ root[p] \in Roots /\ exists[root[p]]
      BY DEF AnswerSearch, Go, TypeOK
    <2>2. PICK q \in Processes : WillComplete(q, root[p])
      BY <2>1 DEF GapsAreClosed
    <2>3. q # p
      BY <2>1, <2>2 DEF WillComplete
    <2>. QED
      BY <2>2, <2>3
  <1>. QED
    BY <1>1, TypeCorrect, NoOtherGaps, PTL DEF PartialAnswersExplained
=============================================================================
