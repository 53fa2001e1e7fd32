-------------------------- MODULE MigrationProofs --------------------------
(***************************************************************************)
(* Theorems about the migration, for any number of processes, paths and    *)
(* openings of the index.                                                  *)
(***************************************************************************)
EXTENDS Migration, TLAPS

------------------------------------------------------------------------------

(***************************************************************************)
(* TypeOK and Settled need each other: a row under the repo id belongs in  *)
(* the new table only, and the engine writes such rows without looking.    *)
(***************************************************************************)
Inv == TypeOK /\ Settled

Keys == IF shape = "composite" THEN {RepoId, Placeholder} ELSE {NoRepo}

LEMMA Listing ==
  ASSUME TypeOK
  PROVE  /\ Listed \subseteq Paths
         /\ \A key \in files : key = <<key[1], key[2]>> /\ key[1] \in Keys
         /\ \A p : p \in Listed <=> \E r \in Keys : <<r, p>> \in files
<1>1. files \subseteq Keys \X Paths
  BY DEF TypeOK, Keys
<1>2. \A key \in files : key = <<key[1], key[2]>> /\ key[1] \in Keys /\ key[2] \in Paths
  BY <1>1
<1>3. Listed \subseteq Paths
  BY <1>2 DEF Listed
<1>4. ASSUME NEW p, p \in Listed PROVE \E r \in Keys : <<r, p>> \in files
  <2>1. PICK key \in files : p = key[2]
    BY <1>4 DEF Listed
  <2> QED BY <2>1, <1>2
<1>5. ASSUME NEW p, NEW r \in Keys, <<r, p>> \in files PROVE p \in Listed
  <2>1. <<r, p>>[2] = p
    OBVIOUS
  <2> QED BY <1>5, <2>1 DEF Listed
<1> QED BY <1>2, <1>3, <1>4, <1>5

(* The rows of one repo id for a set of paths, and what they list. *)
LEMMA OneId ==
  ASSUME NEW r, NEW S, files' = {r} \X S
  PROVE  Listed' = S
<1>1. ASSUME NEW p \in S PROVE p \in Listed'
  <2>1. <<r, p>> \in files' /\ <<r, p>>[2] = p
    BY <1>1
  <2> QED BY <2>1 DEF Listed
<1>2. ASSUME NEW p \in Listed' PROVE p \in S
  BY <1>2 DEF Listed
<1> QED BY <1>1, <1>2

LEMMA Initially == Init => Inv
<1> SUFFICES ASSUME Init PROVE Inv
  OBVIOUS
<1> USE DEF Init
<1>1. PICK stored \in SUBSET Paths :
       \/ /\ stored = {}
          /\ shape = "missing" /\ files = {} /\ kind = FALSE /\ version = 0
       \/ /\ shape = "legacy" /\ files = {NoRepo} \X stored /\ kind = TRUE /\ version = 0
       \/ /\ shape = "composite"
          /\ \E r \in {RepoId, Placeholder} : files = {r} \X stored
          /\ \/ kind = TRUE /\ version = SCHEMA_VERSION
             \/ kind \in BOOLEAN /\ version = SCHEMA_VERSION + 1
       \/ /\ stored = {}
          /\ shape = "missing" /\ files = {}
          /\ kind \in BOOLEAN /\ version = SCHEMA_VERSION + 1
  OBVIOUS
<1>2. shape \in Shapes /\ version \in Nat
  <2> version = 0 \/ version = SCHEMA_VERSION \/ version = SCHEMA_VERSION + 1
    BY <1>1
  <2> QED BY <1>1 DEF Shapes, SCHEMA_VERSION
<1>7. kind \in BOOLEAN
  BY <1>1, Zenon
<1>3. files \in SUBSET ((IF shape = "composite" THEN {RepoId, Placeholder} ELSE {NoRepo})
                         \X Paths)
  BY <1>1
<1>4. /\ at \in [Workers -> Migrating \union Engine \union {"idle"}]
      /\ outcome \in [Workers -> Outcomes]
  BY DEF Outcomes
<1>5. version = SCHEMA_VERSION => shape = "composite"
  BY <1>1 DEF SCHEMA_VERSION
<1>6. \A w \in Workers : at[w] \notin Engine \union {"stamp"}
  BY DEF Engine
<1> QED BY <1>2, <1>3, <1>4, <1>5, <1>6, <1>7 DEF Inv, TypeOK, Settled

(* A row is written only where the table has the new key. *)
LEMMA StepKeepsInv ==
  ASSUME Inv, [Next]_vars
  PROVE  Inv'
<1>0. Listed \subseteq Paths
  BY Listing DEF Inv
<1> USE DEF Inv, TypeOK, Settled, index, local, Migrating, Engine, Outcomes, Shapes,
            SCHEMA_VERSION, Goto, Leave, Commits
<1>1. ASSUME NEW w \in Workers, Open(w) PROVE Inv'
  BY <1>1 DEF Open
<1>2. ASSUME NEW w \in Workers, HasKind(w) PROVE Inv'
  BY <1>2 DEF HasKind
<1>3. ASSUME NEW w \in Workers, AddKind(w) PROVE Inv'
  BY ZenonT(60), <1>3 DEF AddKind
<1>4. ASSUME NEW w \in Workers, Create(w) PROVE Inv'
  BY <1>4 DEF Create
<1>5. ASSUME NEW w \in Workers, Gate(w) PROVE Inv'
  BY ZenonT(60), <1>5 DEF Gate
<1>6. ASSUME NEW w \in Workers, HasRepoId(w) PROVE Inv'
  BY <1>6 DEF HasRepoId
<1>7. ASSUME NEW w \in Workers, KeyColumns(w) PROVE Inv'
  BY <1>7 DEF KeyColumns
<1>8. ASSUME NEW w \in Workers, Stamp(w) PROVE Inv'
  BY ZenonT(60), <1>8 DEF Stamp
<1>9. ASSUME NEW w \in Workers, Recreate(w) PROVE Inv'
  <2>1. CASE Unnamed \intersect Named # {}
    BY ZenonT(60), <1>9, <2>1 DEF Recreate
  <2>2. CASE Unnamed \intersect Named = {}
    <3>1. shape' = "composite" /\ files' = {Placeholder} \X Listed
      BY <1>9, <2>2 DEF Recreate
    <3>2. files' \in SUBSET ({RepoId, Placeholder} \X Paths)
      BY <1>0, <3>1
    <3>3. files' \in SUBSET ((IF shape' = "composite" THEN {RepoId, Placeholder}
                                                    ELSE {NoRepo}) \X Paths)
      BY <3>1, <3>2
    <3>4. version' \in Nat /\ at' \in [Workers -> Migrating \union Engine \union {"idle"}]
      BY <1>9, <2>2 DEF Recreate
    <3>5. quiet' \in [Workers -> BOOLEAN]
      BY <1>9 DEF Recreate
    <3>6. UNCHANGED <<tree, kind, sawRepoId, todo, outcome, opens>>
      BY <1>9, <2>2 DEF Recreate
    <3> QED BY <3>1, <3>3, <3>4, <3>5, <3>6
  <2> QED BY <2>1, <2>2
<1>10. ASSUME NEW w \in Workers, Search(w) PROVE Inv'
  BY <1>10 DEF Search
<1>11. ASSUME NEW w \in Workers, Rewrite(w) PROVE Inv'
  <2>1. CASE Unnamed \intersect Named # {}
    BY <1>11, <2>1 DEF Rewrite
  <2>2. CASE Unnamed \intersect Named = {}
    <3>1. shape' = "composite" /\ files' = {RepoId} \X Listed
      BY <1>11, <2>2 DEF Rewrite
    <3>2. files' \in SUBSET ({RepoId, Placeholder} \X Paths)
      BY <1>0, <3>1
    <3>3. files' \in SUBSET ((IF shape' = "composite" THEN {RepoId, Placeholder}
                                                    ELSE {NoRepo}) \X Paths)
      BY <3>1, <3>2
    <3>4. version' \in Nat /\ at' \in [Workers -> Migrating \union Engine \union {"idle"}]
      BY <1>11, <2>2 DEF Rewrite
    <3>5. quiet' \in [Workers -> BOOLEAN]
      BY <1>11 DEF Rewrite
    <3>6. UNCHANGED <<tree, kind, sawRepoId, todo, outcome, opens>>
      BY <1>11, <2>2 DEF Rewrite
    <3> QED BY <3>1, <3>3, <3>4, <3>5, <3>6
  <2> QED BY <2>1, <2>2
<1>12. ASSUME NEW w \in Workers, Wipe(w) PROVE Inv'
  BY <1>12 DEF Wipe
<1>13. ASSUME NEW w \in Workers, List(w) PROVE Inv'
  BY <1>0, <1>13 DEF List, Named
<1>14. ASSUME NEW w \in Workers, RemoveDone(w) PROVE Inv'
  BY <1>14 DEF RemoveDone
<1>15. ASSUME NEW w \in Workers, Finish(w) PROVE Inv'
  BY <1>15 DEF Finish
<1>16. ASSUME NEW w \in Workers, NEW p \in Paths, Remove(w, p) PROVE Inv'
  BY <1>16 DEF Remove
<1>17. ASSUME NEW w \in Workers, NEW p \in Paths, WriteFile(w, p) PROVE Inv'
  BY <1>17 DEF WriteFile
<1>18. ASSUME NEW w \in Workers, NEW p \in Paths, SkipFile(w, p) PROVE Inv'
  BY <1>18 DEF SkipFile
<1>19. ASSUME NEW w \in Workers, Abort(w) PROVE Inv'
  BY <1>19 DEF Abort
<1>20. CASE UNCHANGED vars
  BY <1>20 DEF vars
<1> QED BY <1>1, <1>2, <1>3, <1>4, <1>5, <1>6, <1>7, <1>8, <1>9, <1>10, <1>11, <1>12, <1>13,
           <1>14, <1>15, <1>16, <1>17, <1>18, <1>19, <1>20 DEF Next, Step, Rest
(* The types hold, with whatever processes migrate and reindex at once. *)
THEOREM TypeCorrect == Spec => []TypeOK
<1>1. Spec => []Inv
  BY Initially, StepKeepsInv, PTL DEF Spec
<1>2. Inv => TypeOK
  BY DEF Inv
<1> QED BY <1>1, <1>2, PTL

(***************************************************************************)
(* The stamp may be trusted, and nothing past migrate meets the old table: *)
(* wherever a process died, and whatever it had read before another one    *)
(* recreated the table.                                                    *)
(***************************************************************************)
THEOREM StampTrue == Spec => []Settled
<1>1. Spec => []Inv
  BY Initially, StepKeepsInv, PTL DEF Spec
<1>2. Inv => Settled
  BY DEF Inv
<1> QED BY <1>1, <1>2, PTL

------------------------------------------------------------------------------

(***************************************************************************)
(* In the index of a newer version no process gets past the gate, as       *)
(* nobody can take the stamp away behind it.                               *)
(***************************************************************************)
BeforeGate == {"idle", "hasKind", "addKind", "create", "gate"}

Barred == version > SCHEMA_VERSION => \A w \in Workers : at[w] \in BeforeGate

LEMMA BarredInitially == Init => Barred
  BY DEF Init, Barred, BeforeGate

LEMMA StepBarred ==
  ASSUME Inv, Barred, [Next]_vars
  PROVE  /\ Barred'
         /\ version > SCHEMA_VERSION =>
              /\ UNCHANGED <<files, version>>
              /\ shape' = shape \/ (shape = "missing" /\ shape' = "legacy")
              /\ kind => kind'
              /\ \A w \in Workers : at'[w] \notin Engine
<1>1. CASE ~ version > SCHEMA_VERSION
  <2>1. version' = version \/ version' = SCHEMA_VERSION
    BY DEF Next, Step, Rest, Open, HasKind, AddKind, Create, Gate, HasRepoId, KeyColumns, Stamp,
           Recreate, Search, Rewrite, Wipe, List, RemoveDone, Finish, Remove, WriteFile,
           SkipFile, Abort, vars, index
  <2> QED BY <1>1, <2>1 DEF Barred, SCHEMA_VERSION
<1>2. CASE version > SCHEMA_VERSION
  <2> USE DEF index, local, Goto, Leave, BeforeGate
  <2>1. at \in [Workers -> Migrating \union Engine \union {"idle"}]
    BY DEF Inv, TypeOK
  <2>2. \A w \in Workers : at[w] \in BeforeGate
    BY <1>2 DEF Barred
  <2> DEFINE Kept == /\ UNCHANGED <<files, version>>
                     /\ shape' = shape \/ (shape = "missing" /\ shape' = "legacy")
                     /\ \A w \in Workers : at'[w] \in BeforeGate
  <2>3. ASSUME NEW w \in Workers, Open(w) PROVE Kept /\ kind' = kind
    BY <2>1, <2>2, <2>3 DEF Open
  <2>4. ASSUME NEW w \in Workers, HasKind(w) PROVE Kept /\ kind' = kind
    BY <2>1, <2>2, <2>4 DEF HasKind
  <2>5. ASSUME NEW w \in Workers, AddKind(w) PROVE Kept
    BY <2>1, <2>2, <2>5 DEF AddKind
  <2>6. ASSUME NEW w \in Workers, AddKind(w) PROVE kind => kind'
    BY <2>6, Zenon DEF AddKind
  <2>7. ASSUME NEW w \in Workers, Create(w) PROVE Kept /\ kind' = kind
    BY <2>1, <2>2, <2>7 DEF Create
  <2>8. ASSUME NEW w \in Workers, Gate(w) PROVE Kept /\ kind' = kind
    BY <1>2, <2>1, <2>2, <2>8 DEF Gate
  <2>9. ASSUME NEW w \in Workers, Abort(w) PROVE Kept /\ kind' = kind
    BY <2>1, <2>2, <2>9 DEF Abort
  <2>10. ASSUME UNCHANGED vars PROVE Kept /\ kind' = kind
    BY <2>2, <2>10 DEF vars
  <2> HIDE DEF Kept
  <2>11. ASSUME NEW w \in Workers,
               \/ HasRepoId(w) \/ KeyColumns(w) \/ Stamp(w) \/ Recreate(w) \/ Search(w)
               \/ Rewrite(w) \/ Wipe(w) \/ List(w) \/ RemoveDone(w) \/ Finish(w)
        PROVE  FALSE
    <3>1. at[w] \in BeforeGate
      BY <2>2
    <3> QED BY <2>11, <3>1 DEF HasRepoId, KeyColumns, Stamp, Recreate, Search, Rewrite, Wipe,
                              List, RemoveDone, Finish
  <2>12. ASSUME NEW w \in Workers, NEW p \in Paths,
                Remove(w, p) \/ WriteFile(w, p) \/ SkipFile(w, p)
         PROVE  FALSE
    <3>1. at[w] \in BeforeGate
      BY <2>2
    <3> QED BY <2>12, <3>1 DEF Remove, WriteFile, SkipFile
  <2>13. Kept
    BY <2>3, <2>4, <2>5, <2>7, <2>8, <2>9, <2>10, <2>11, <2>12 DEF Next, Step, Rest
  <2>14. kind => kind'
    <3>1. kind' = kind \/ \E w \in Workers : AddKind(w)
      BY <2>3, <2>4, <2>7, <2>8, <2>9, <2>10, <2>11, <2>12 DEF Next, Step, Rest
    <3> QED BY <2>6, <3>1, Zenon
  <2>15. \A w \in Workers : at'[w] \notin Engine
    BY <2>13 DEF Kept, Engine
  <2>16. Barred'
    BY <2>13 DEF Kept, Barred
  <2>17. /\ UNCHANGED <<files, version>>
         /\ shape' = shape \/ (shape = "missing" /\ shape' = "legacy")
    BY <2>13 DEF Kept
  <2> QED BY <2>14, <2>15, <2>16, <2>17, Zenon
<1> QED BY <1>1, <1>2

(***************************************************************************)
(* An older binary changes no row and no stamp of the index of a newer     *)
(* one, and adds to it only what its own ALTER and CREATE bring.           *)
(***************************************************************************)
THEOREM NewerIndexOnlyAddedTo == Spec => NewerOnlyAddedTo
<1>1. Spec => [](Inv /\ Barred)
  BY Initially, BarredInitially, StepKeepsInv, StepBarred, PTL DEF Spec
<1>2. Inv /\ Barred /\ [Next]_vars =>
        [version > SCHEMA_VERSION =>
          /\ UNCHANGED <<files, version>>
          /\ shape' = shape \/ (shape = "missing" /\ shape' = "legacy")
          /\ kind => kind'
          /\ \A w \in Workers : at'[w] \notin Engine]_vars
  BY StepBarred
<1> QED BY <1>1, <1>2, PTL DEF Spec, NewerOnlyAddedTo

------------------------------------------------------------------------------

(* A process that leaves its place has taken the step. *)
LEMMA StepKeepsPaths ==
  ASSUME Inv, [Next]_vars, NEW w \in Workers,
         at[w] \in Migrating \union {"rewrite"}, at'[w] # at[w]
  PROVE  Listed' = Listed
<1> USE DEF index, local, Goto, Leave, Migrating
<1>1. at \in [Workers -> Migrating \union Engine \union {"idle"}]
  BY DEF Inv, TypeOK
<1>2. CASE files' = files
  BY <1>2 DEF Listed
<1>3. CASE files' # files
  <2>1. ASSUME NEW v \in Workers, Recreate(v) PROVE Listed' = Listed
    BY <1>3, <2>1, OneId DEF Recreate
  <2>2. ASSUME NEW v \in Workers, Rewrite(v) PROVE Listed' = Listed
    BY <1>3, <2>2, OneId DEF Rewrite
  <2>3. ASSUME NEW v \in Workers, Wipe(v) PROVE FALSE
    BY <1>1, <2>3 DEF Wipe
  <2>4. ASSUME NEW v \in Workers, NEW p \in Paths, Remove(v, p) \/ WriteFile(v, p) PROVE FALSE
    BY <2>4 DEF Remove, WriteFile
  <2> QED BY <1>3, <2>1, <2>2, <2>3, <2>4
       DEF Next, Step, Rest, vars, Open, HasKind, AddKind, Create, Gate, HasRepoId, KeyColumns,
           Stamp, Search, List, RemoveDone, Finish, SkipFile, Abort
<1> QED BY <1>2, <1>3

(* No migration loses or invents a path, whatever it races with. *)
THEOREM NoPathLost == Spec => PathsKept
<1>1. Spec => []Inv
  BY Initially, StepKeepsInv, PTL DEF Spec
<1>2. Inv /\ [Next]_vars =>
        [\A w \in Workers :
           at[w] \in Migrating \union {"rewrite"} /\ at'[w] # at[w] => Listed' = Listed]_vars
  BY StepKeepsPaths
<1> QED BY <1>1, <1>2, PTL DEF Spec, PathsKept

------------------------------------------------------------------------------

(***************************************************************************)
(* How far a reindex is that nothing has disturbed: no row has the         *)
(* placeholder any more, the rows the tree has no file for are still to be *)
(* removed, and the files that have no row are still to be written.        *)
(***************************************************************************)
Progress(w) ==
  /\ at[w] \in {"wipe", "list", "remove", "write"} =>
       \A p \in Paths : <<Placeholder, p>> \notin files
  /\ at[w] = "remove" => \A p \in Paths : <<RepoId, p>> \in files => p \in tree \union todo[w]
  /\ at[w] = "write" =>
       /\ todo[w] \subseteq tree
       /\ \A p \in Paths : <<RepoId, p>> \in files => p \in tree
       /\ \A p \in tree : <<RepoId, p>> \in files \/ p \in todo[w]
  /\ outcome[w] = "ok" => at[w] = "idle" /\ files = {RepoId} \X tree

QuietInv == \A w \in Workers :
  /\ quiet[w] => Progress(w)
  /\ outcome[w] = "ok" => at[w] = "idle"

(* A step of v leaves w where it is, and quiet only if the rows stay, too.  *)
LEMMA Bystander ==
  ASSUME Inv, NEW v \in Workers, NEW w \in Workers, w # v, Step(v)
  PROVE  /\ at'[w] = at[w] /\ todo'[w] = todo[w] /\ outcome'[w] = outcome[w]
         /\ tree' = tree
         /\ quiet'[w] => quiet[w] /\ files' = files
<1>1. /\ at \in [Workers -> Migrating \union Engine \union {"idle"}]
      /\ todo \in [Workers -> SUBSET Paths]
      /\ outcome \in [Workers -> Outcomes]
      /\ quiet \in [Workers -> BOOLEAN]
  BY DEF Inv, TypeOK
<1>2. CASE Open(v) \/ HasKind(v) \/ AddKind(v) \/ Create(v) \/ Gate(v) \/ HasRepoId(v)
           \/ KeyColumns(v)
  BY <1>1, <1>2 DEF Open, HasKind, AddKind, Create, Gate, HasRepoId, KeyColumns, index, local,
                    Goto, Leave, Commits
<1>3. CASE Stamp(v) \/ Recreate(v) \/ Search(v) \/ Rewrite(v)
  BY <1>1, <1>3 DEF Stamp, Recreate, Search, Rewrite, index, local, Goto, Leave, Commits
<1>4. CASE Wipe(v) \/ List(v) \/ RemoveDone(v) \/ Finish(v) \/ Abort(v)
  BY <1>1, <1>4 DEF Wipe, List, RemoveDone, Finish, Abort, index, local, Goto, Leave, Commits
<1>5. ASSUME NEW p \in Paths, Remove(v, p) \/ WriteFile(v, p) \/ SkipFile(v, p)
      PROVE  /\ at'[w] = at[w] /\ todo'[w] = todo[w] /\ outcome'[w] = outcome[w]
             /\ tree' = tree
             /\ quiet'[w] => quiet[w] /\ files' = files
  BY <1>1, <1>5 DEF Remove, WriteFile, SkipFile, index, local, Commits
<1> QED BY <1>2, <1>3, <1>4, <1>5 DEF Step

Advances(w) == /\ quiet'[w] => Progress(w)'
               /\ outcome'[w] = "ok" => at'[w] = "idle"

(* The steps of v itself take it from one stage of Progress to the next. *)
LEMMA OwnStep ==
  ASSUME Inv, QuietInv, NEW v \in Workers, Step(v)
  PROVE  Advances(v)
<1>1. /\ at \in [Workers -> Migrating \union Engine \union {"idle"}]
      /\ todo \in [Workers -> SUBSET Paths]
      /\ outcome \in [Workers -> Outcomes]
      /\ quiet \in [Workers -> BOOLEAN]
      /\ tree \in SUBSET Paths
  BY DEF Inv, TypeOK
<1>2. Listed \subseteq Paths
  BY Listing DEF Inv
<1>3. /\ quiet[v] => Progress(v)
      /\ outcome[v] = "ok" => at[v] = "idle"
  BY DEF QuietInv
<1>4. \A p \in Paths : <<RepoId, p>> \in files => p \in Named
  <2>1. ASSUME NEW p \in Paths, <<RepoId, p>> \in files PROVE p \in Listed
    <3>1. <<RepoId, p>>[2] = p
      OBVIOUS
    <3> QED BY <2>1, <3>1 DEF Listed
  <2> QED BY <2>1 DEF Named
<1> USE DEF Advances, Progress, Goto, Leave, local, index
<1>5. CASE Open(v) \/ HasKind(v) \/ AddKind(v) \/ Create(v) \/ Gate(v) \/ HasRepoId(v)
           \/ KeyColumns(v)
  BY <1>1, <1>3, <1>5 DEF Open, HasKind, AddKind, Create, Gate, HasRepoId, KeyColumns
<1>6. CASE Stamp(v) \/ Recreate(v) \/ Search(v) \/ Abort(v)
  BY <1>1, <1>3, <1>6 DEF Stamp, Recreate, Search, Abort
<1>7. CASE Rewrite(v)
  <2>1. CASE Unnamed \intersect Named # {}
    BY <1>1, <1>7, <2>1 DEF Rewrite
  <2>2. CASE Unnamed \intersect Named = {}
    <3>1. /\ files' = {RepoId} \X Listed /\ at'[v] \in {"wipe", "list"}
          /\ outcome'[v] = outcome[v] /\ at[v] = "rewrite"
      BY <1>1, <1>7, <2>2 DEF Rewrite
    <3>2. \A p \in Paths : <<Placeholder, p>> \notin files'
      BY <3>1, KeyAssumption
    <3> QED BY <1>3, <3>1, <3>2
  <2> QED BY <2>1, <2>2
<1>8. CASE Wipe(v)
  BY <1>1, <1>3, <1>8 DEF Wipe
<1>9. CASE List(v)
  <2>1. /\ at[v] = "list" /\ at'[v] = "remove" /\ todo'[v] = Named \ tree /\ files' = files
        /\ quiet' = quiet /\ outcome'[v] = outcome[v] /\ tree' = tree
    BY <1>1, <1>9 DEF List
  <2> QED BY <1>3, <1>4, <2>1
<1>10. CASE RemoveDone(v)
  <2>1. /\ at[v] = "remove" /\ at'[v] = "write" /\ todo[v] = {} /\ todo'[v] = tree
        /\ files' = files /\ quiet' = quiet /\ outcome'[v] = outcome[v] /\ tree' = tree
    BY <1>1, <1>10 DEF RemoveDone
  <2> QED BY <1>3, <2>1
<1>11. CASE Finish(v)
  <2>1. /\ at[v] = "write" /\ at'[v] = "idle" /\ todo[v] = {}
        /\ files' = files /\ quiet' = quiet /\ tree' = tree
    BY <1>1, <1>11 DEF Finish
  <2>2. ASSUME quiet[v] PROVE files = {RepoId} \X tree
    <3>1. files \subseteq {RepoId, Placeholder} \X Paths
      <4>1. shape = "composite"
        BY <2>1 DEF Inv, Settled, Engine
      <4> QED BY <4>1 DEF Inv, TypeOK
    <3>2. /\ \A p \in Paths : <<Placeholder, p>> \notin files
          /\ \A p \in Paths : <<RepoId, p>> \in files => p \in tree
          /\ \A p \in tree : <<RepoId, p>> \in files
      BY <1>3, <2>1, <2>2
    <3>3. ASSUME NEW key \in files PROVE key \in {RepoId} \X tree
      BY <3>1, <3>2, <3>3
    <3>4. ASSUME NEW key \in {RepoId} \X tree PROVE key \in files
      BY <3>2, <3>4
    <3> QED BY <3>3, <3>4
  <2> QED BY <2>1, <2>2
<1>12. ASSUME NEW p \in Paths, Remove(v, p) PROVE Advances(v)
  <2>1. /\ at[v] = "remove" /\ at'[v] = "remove" /\ p \in todo[v] /\ todo'[v] = todo[v] \ {p}
        /\ files' = files \ {<<RepoId, p>>} /\ outcome'[v] = outcome[v] /\ tree' = tree
        /\ quiet'[v] = quiet[v]
    BY <1>1, <1>12 DEF Remove, Commits
  <2> QED BY <1>3, <2>1
<1>13. ASSUME NEW p \in Paths, WriteFile(v, p) PROVE Advances(v)
  <2>1. /\ at[v] = "write" /\ at'[v] = "write" /\ p \in todo[v] /\ todo'[v] = todo[v] \ {p}
        /\ files' = files \union {<<RepoId, p>>} /\ outcome'[v] = outcome[v] /\ tree' = tree
        /\ quiet'[v] = quiet[v]
    BY <1>1, <1>13 DEF WriteFile, Commits
  <2>2. \A q : /\ <<RepoId, q>> \in files' => q = p \/ <<RepoId, q>> \in files
              /\ <<RepoId, q>> \in files => <<RepoId, q>> \in files'
    BY <2>1, KeyAssumption
  <2>3. <<RepoId, p>> \in files'
    BY <2>1
  <2>4. CASE quiet[v]
    <3>1. p \in tree
      BY <1>3, <2>1, <2>4
    <3>2. \A q \in Paths : <<Placeholder, q>> \notin files'
      <4>1. \A q \in Paths : <<Placeholder, q>> \notin files
        BY <1>3, <2>1, <2>4
      <4>2. ASSUME NEW q \in Paths PROVE <<Placeholder, q>> \notin files'
        <5>1. <<Placeholder, q>> \notin files
          BY <4>1
        <5>2. <<Placeholder, q>> # <<RepoId, p>>
          BY KeyAssumption
        <5> QED BY <2>1, <5>1, <5>2
      <4> QED BY <4>2
    <3>3. \A q \in Paths : <<RepoId, q>> \in files' => q \in tree'
      BY <1>3, <2>1, <2>2, <2>4, <3>1
    <3>4. \A q \in tree' : <<RepoId, q>> \in files' \/ q \in todo'[v]
      BY <1>1, <1>3, <2>1, <2>2, <2>3, <2>4
    <3>5. todo'[v] \subseteq tree'
      BY <1>3, <2>1, <2>4
    <3>6. outcome'[v] # "ok"
      BY <1>3, <2>1
    <3> QED BY <2>1, <3>2, <3>3, <3>4, <3>5, <3>6
  <2>5. CASE ~ quiet[v]
    BY <1>3, <2>1, <2>5
  <2> QED BY <2>4, <2>5
<1>14. ASSUME NEW p \in Paths, SkipFile(v, p) PROVE Advances(v)
  <2>1. /\ at[v] = "write" /\ at'[v] = "write" /\ p \in Named /\ todo'[v] = todo[v] \ {p}
        /\ files' = files /\ outcome'[v] = outcome[v] /\ tree' = tree
        /\ quiet'[v] = quiet[v]
    BY <1>1, <1>14 DEF SkipFile
  <2> QED BY <1>3, <2>1 DEF Named
<1> QED BY <1>5, <1>6, <1>7, <1>8, <1>9, <1>10, <1>11, <1>12, <1>13, <1>14 DEF Step

LEMMA StepKeepsQuiet ==
  ASSUME Inv, QuietInv, [Next]_vars
  PROVE  QuietInv'
<1>1. CASE UNCHANGED vars
  BY <1>1 DEF QuietInv, Progress, vars, index, local
<1>2. ASSUME NEW v \in Workers, Step(v) PROVE QuietInv'
  <2>1. ASSUME NEW w \in Workers, w # v PROVE Advances(w)
    <3>1. /\ at'[w] = at[w] /\ todo'[w] = todo[w] /\ outcome'[w] = outcome[w]
          /\ tree' = tree
          /\ quiet'[w] => quiet[w] /\ files' = files
      BY <1>2, <2>1, Bystander
    <3> QED BY <3>1 DEF Advances, Progress, QuietInv
  <2>2. Advances(v)
    BY <1>2, OwnStep
  <2> QED BY <2>1, <2>2 DEF Advances, QuietInv
<1> QED BY <1>1, <1>2 DEF Next, Rest

(***************************************************************************)
(* A reindex that nothing disturbed has one row for each file, under the   *)
(* repo id, whatever migrations were abandoned or repeated before it.      *)
(***************************************************************************)
THEOREM QuietReindexNamed == Spec => []QuietReindexNames
<1>1. Init => QuietInv
  BY DEF Init, QuietInv, Progress
<1>2. Spec => [](Inv /\ QuietInv)
  BY <1>1, Initially, StepKeepsInv, StepKeepsQuiet, PTL DEF Spec
<1>3. Inv /\ QuietInv => QuietReindexNames
  BY DEF QuietInv, Progress, QuietReindexNames
<1> QED BY <1>2, <1>3, PTL

------------------------------------------------------------------------------

(***************************************************************************)
(* What gets a reindex stuck is one race and no other: a table recreated   *)
(* while another process is in the engine.  Without it no path ever has    *)
(* two rows, and once a process is past the rewrite there is no            *)
(* placeholder that a row it writes could stand beside.                    *)
(***************************************************************************)
Placed == {p \in Paths : <<Placeholder, p>> \in files}

PastRewrite == {"wipe", "list", "remove", "write"}

KeysFree ==
  /\ \A p \in Placed : <<RepoId, p>> \notin files
  /\ \A w \in Workers : at[w] \in PastRewrite => Placed = {}
  /\ NeverStuck

LEMMA KeysFreeInitially == Init => KeysFree
<1> SUFFICES ASSUME Init PROVE KeysFree
  OBVIOUS
<1>1. \A p \in Placed : <<RepoId, p>> \notin files
  <2>1. \E r, S : files = {r} \X S
    <3>1. CASE files = {}
      <4>1. files = {RepoId} \X {}
        BY <3>1
      <4> QED BY <4>1
    <3>2. CASE files # {}
      BY <3>2 DEF Init
    <3> QED BY <3>1, <3>2
  <2> QED BY <2>1, KeyAssumption DEF Placed
<1> QED BY <1>1 DEF Init, KeysFree, PastRewrite, NeverStuck

(* No key is taken where the placeholders are named or given. *)
LEMMA NoClash ==
  ASSUME TypeOK, KeysFree
  PROVE  Unnamed \intersect Named = {}
<1> SUFFICES ASSUME NEW p, p \in Unnamed, p \in Named PROVE FALSE
  OBVIOUS
<1>1. <<Placeholder, p>> \in files /\ <<RepoId, p>> \in files /\ p \in Paths
  BY Listing DEF Unnamed, Named
<1> QED BY <1>1 DEF KeysFree, Placed

LEMMA StepKeepsKeysFree ==
  ASSUME Inv, NoLateRecreate, KeysFree, [Next]_vars
  PROVE  KeysFree'
<1>1. /\ at \in [Workers -> Migrating \union Engine \union {"idle"}]
      /\ outcome \in [Workers -> Outcomes]
      /\ Unnamed \intersect Named = {}
  BY NoClash DEF Inv, TypeOK
<1>2. ASSUME UNCHANGED <<at, files, outcome>> PROVE KeysFree'
  BY <1>2 DEF KeysFree, Placed, NeverStuck
<1>3. ASSUME NEW w \in Workers, NEW place, Goto(w, place), UNCHANGED <<files, outcome>>,
             place \in PastRewrite => at[w] \in PastRewrite
      PROVE  KeysFree'
  <2>1. \A v \in Workers : at'[v] \in PastRewrite => at[v] \in PastRewrite
    BY <1>1, <1>3 DEF Goto
  <2> QED BY <1>3, <2>1 DEF KeysFree, Placed, NeverStuck
<1>4. ASSUME NEW w \in Workers, NEW how, Leave(w, how), how # "stuck", UNCHANGED files
      PROVE  KeysFree'
  <2>1. /\ \A v \in Workers : at'[v] \in PastRewrite => at[v] \in PastRewrite
        /\ \A v \in Workers : outcome'[v] # "stuck"
    BY <1>1, <1>4 DEF Goto, Leave, PastRewrite, KeysFree, NeverStuck
  <2> QED BY <1>4, <2>1 DEF KeysFree, Placed, NeverStuck
<1>5. ASSUME NEW w \in Workers, Open(w) PROVE KeysFree'
  <2>1. /\ \A v \in Workers : at'[v] \in PastRewrite => at[v] \in PastRewrite
        /\ \A v \in Workers : outcome'[v] # "stuck"
        /\ files' = files
    BY <1>1, <1>5 DEF Open, index, Goto, PastRewrite, KeysFree, NeverStuck
  <2> QED BY <2>1 DEF KeysFree, Placed, NeverStuck
<1>6. ASSUME NEW w \in Workers,
             HasKind(w) \/ AddKind(w) \/ Create(w) \/ Gate(w) \/ HasRepoId(w) \/ KeyColumns(w)
               \/ Stamp(w)
      PROVE  KeysFree'
  <2>1. files' = files
    BY <1>6 DEF HasKind, AddKind, Create, Gate, HasRepoId, KeyColumns, Stamp, index
  <2>2. \/ Leave(w, "failed") \/ Leave(w, "refused")
        \/ /\ outcome' = outcome
           /\ \E place \in {"create", "addKind", "gate", "hasRepoId", "keyColumns", "stamp",
                            "recreate", "rewrite"} : Goto(w, place)
    BY <1>6 DEF HasKind, AddKind, Create, Gate, HasRepoId, KeyColumns, Stamp
  <2> QED BY <2>1, <2>2, <1>3, <1>4 DEF PastRewrite
<1>7. ASSUME NEW w \in Workers, Recreate(w) PROVE KeysFree'
  <2>1. /\ files' = {Placeholder} \X Listed /\ at' = [at EXCEPT ![w] = "rewrite"]
        /\ outcome' = outcome /\ at[w] = "recreate"
    BY <1>1, <1>7 DEF Recreate, Goto
  <2>2. \A v \in Workers : at'[v] \notin PastRewrite
    BY <1>1, <2>1 DEF NoLateRecreate, Engine, PastRewrite
  <2>3. \A p : <<RepoId, p>> \notin files'
    BY <2>1, KeyAssumption
  <2> QED BY <2>1, <2>2, <2>3 DEF KeysFree, NeverStuck
<1>8. ASSUME NEW w \in Workers, Search(w) \/ Finish(w) \/ Abort(w) PROVE KeysFree'
  BY <1>8, <1>4 DEF Search, Finish, Abort, index
<1>9. ASSUME NEW w \in Workers, Rewrite(w) PROVE KeysFree'
  <2>1. files' = {RepoId} \X Listed /\ outcome' = outcome
    BY <1>1, <1>9 DEF Rewrite
  <2>2. Placed' = {}
    BY <2>1, KeyAssumption DEF Placed
  <2> QED BY <2>1, <2>2 DEF KeysFree, NeverStuck
<1>10. ASSUME NEW w \in Workers, Wipe(w) PROVE KeysFree'
  BY <1>10 DEF Wipe, KeysFree, Placed, NeverStuck
<1>11. ASSUME NEW w \in Workers, List(w) \/ RemoveDone(w) PROVE KeysFree'
  <2>1. /\ UNCHANGED <<files, outcome>> /\ at[w] \in PastRewrite
        /\ Goto(w, "remove") \/ Goto(w, "write")
    BY <1>11 DEF List, RemoveDone, index, PastRewrite
  <2> QED BY <2>1, <1>3
<1>12. ASSUME NEW w \in Workers, NEW p \in Paths, Remove(w, p) PROVE KeysFree'
  <2>1. files' \subseteq files /\ UNCHANGED <<at, outcome>>
    BY <1>12 DEF Remove
  <2> QED BY <2>1 DEF KeysFree, Placed, NeverStuck
<1>13. ASSUME NEW w \in Workers, NEW p \in Paths, WriteFile(w, p) PROVE KeysFree'
  <2>1. files' = files \union {<<RepoId, p>>} /\ UNCHANGED <<at, outcome>> /\ at[w] = "write"
    BY <1>13 DEF WriteFile
  <2>2. Placed = {}
    BY <2>1 DEF KeysFree, PastRewrite
  <2>3. Placed' = {}
    BY <2>1, <2>2, KeyAssumption DEF Placed
  <2> QED BY <2>1, <2>3 DEF KeysFree, NeverStuck
<1>14. ASSUME NEW w \in Workers, NEW p \in Paths, SkipFile(w, p) PROVE KeysFree'
  BY <1>14, <1>2 DEF SkipFile, index
<1>15. CASE Rest \/ UNCHANGED vars
  BY <1>15, <1>2 DEF Rest, vars, index, local
<1> QED BY <1>5, <1>6, <1>7, <1>8, <1>9, <1>10, <1>11, <1>12, <1>13, <1>14, <1>15
        DEF Next, Step

(***************************************************************************)
(* As long as nobody recreates the table while another process is in the   *)
(* engine, the rewrite of the placeholders never fails, whatever else      *)
(* races, dies or is left halfway: the violated run migration_stuck needs  *)
(* exactly that race, between a statement that looks at the table and the  *)
(* transaction that goes by what it saw (schema.rs).                       *)
(***************************************************************************)
THEOREM OnlyLateRecreationsStick == Spec /\ []NoLateRecreate => []NeverStuck
<1>1. Inv /\ NoLateRecreate /\ KeysFree /\ [Next]_vars => KeysFree'
  BY StepKeepsKeysFree
<1>2. KeysFree => NeverStuck
  BY DEF KeysFree
<1>3. Inv <=> TypeOK /\ Settled
  BY DEF Inv
<1> QED BY <1>1, <1>2, <1>3, KeysFreeInitially, TypeCorrect, StampTrue, PTL DEF Spec

(* Who finds the new table never recreates it. *)
Migrated ==
  /\ shape = "composite"
  /\ \A w \in Workers : at[w] # "recreate" /\ (at[w] = "keyColumns" => sawRepoId[w])

LEMMA StepKeepsMigrated ==
  ASSUME Inv, Migrated, [Next]_vars
  PROVE  Migrated'
<1>1. /\ at \in [Workers -> Migrating \union Engine \union {"idle"}]
      /\ sawRepoId \in [Workers -> BOOLEAN]
  BY DEF Inv, TypeOK
<1>2. ASSUME UNCHANGED <<shape, at, sawRepoId>> PROVE Migrated'
  BY <1>2 DEF Migrated
<1>3. ASSUME NEW w \in Workers, NEW place, Goto(w, place), UNCHANGED <<shape, sawRepoId>>,
             place \notin {"recreate", "keyColumns"}
      PROVE  Migrated'
  BY <1>1, <1>3 DEF Goto, Migrated
<1>4. ASSUME NEW w \in Workers, NEW how, Leave(w, how), UNCHANGED shape PROVE Migrated'
  BY <1>1, <1>4 DEF Leave, Goto, Migrated
<1>5. ASSUME NEW w \in Workers, HasRepoId(w) PROVE Migrated'
  <2>1. /\ shape' = shape /\ at' = [at EXCEPT ![w] = "keyColumns"]
        /\ sawRepoId' = [sawRepoId EXCEPT ![w] = TRUE]
    BY <1>5 DEF HasRepoId, index, Goto, Migrated
  <2>2. \A v \in Workers : /\ at'[v] = IF v = w THEN "keyColumns" ELSE at[v]
                           /\ v # w => sawRepoId'[v] = sawRepoId[v]
                           /\ sawRepoId'[w]
    BY <1>1, <2>1
  <2>3. \A v \in Workers : at'[v] # "recreate"
    BY <2>2 DEF Migrated
  <2>4. \A v \in Workers : at'[v] = "keyColumns" => sawRepoId'[v]
    <3>1. ASSUME NEW v \in Workers, at'[v] = "keyColumns" PROVE sawRepoId'[v]
      <4>1. CASE v = w
        BY <2>2, <4>1, Zenon
      <4>2. CASE v # w
        <5>1. at[v] = "keyColumns" /\ sawRepoId'[v] = sawRepoId[v]
          BY <2>2, <3>1, <4>2
        <5> QED BY <5>1, Zenon DEF Migrated
      <4> QED BY <4>1, <4>2
    <3> QED BY <3>1
  <2> QED BY <2>1, <2>3, <2>4 DEF Migrated
<1>6. ASSUME NEW w \in Workers, KeyColumns(w) PROVE Migrated'
  BY <1>3, <1>6 DEF KeyColumns, index, Migrated
<1>7. ASSUME NEW w \in Workers, Gate(w) \/ AddKind(w) \/ Rewrite(w) PROVE Migrated'
  <2>1. /\ shape' = shape
        /\ \/ \E how \in {"refused", "failed", "stuck"} : Leave(w, how)
           \/ /\ sawRepoId' = sawRepoId
              /\ \E place \in {"hasRepoId", "create", "wipe", "list"} : Goto(w, place)
    BY <1>7 DEF Gate, AddKind, Rewrite, index
  <2> QED BY <2>1, <1>3, <1>4
<1>8. ASSUME NEW w \in Workers,
             Open(w) \/ HasKind(w) \/ Create(w) \/ Stamp(w) \/ Wipe(w) \/ List(w) \/ RemoveDone(w)
      PROVE  Migrated'
  <2>1. /\ shape' = shape /\ sawRepoId' = sawRepoId
        /\ \E place \in {"hasKind", "create", "addKind", "gate", "rewrite", "remove", "write"} :
             Goto(w, place)
    BY <1>8 DEF Open, HasKind, Create, Stamp, Wipe, List, RemoveDone, index, Migrated
  <2> QED BY <2>1, <1>3
<1>9. ASSUME NEW w \in Workers, Recreate(w) PROVE Migrated'
  BY <1>9 DEF Recreate, Migrated
<1>10. ASSUME NEW w \in Workers, Search(w) \/ Finish(w) \/ Abort(w) PROVE Migrated'
  BY <1>10, <1>4 DEF Search, Finish, Abort, index
<1>11. ASSUME NEW w \in Workers, NEW p \in Paths, Remove(w, p) \/ WriteFile(w, p) \/ SkipFile(w, p)
       PROVE  Migrated'
  BY <1>11, <1>2 DEF Remove, WriteFile, SkipFile, index
<1>12. CASE Rest \/ UNCHANGED vars
  BY <1>12, <1>2 DEF Rest, vars, index, local
<1> QED BY <1>5, <1>6, <1>7, <1>8, <1>9, <1>10, <1>11, <1>12 DEF Next, Step

(***************************************************************************)
(* An index that has the new table at first is never recreated again, and  *)
(* its placeholders can always be rewritten, however many processes open   *)
(* and reindex it at once: what ReindexProofs takes for granted of the     *)
(* rows of such an index.                                                  *)
(***************************************************************************)
THEOREM MigratedNeverStuck == Spec /\ shape = "composite" => []NeverStuck
<1>1. Init /\ shape = "composite" => Migrated
  BY DEF Init, Migrated
<1>2. Inv /\ Migrated /\ [Next]_vars => Migrated'
  BY StepKeepsMigrated
<1>3. Migrated => NoLateRecreate
  BY DEF Migrated, NoLateRecreate
<1>4. Inv <=> TypeOK /\ Settled
  BY DEF Inv
<1>5. Spec /\ shape = "composite" => []Migrated
  BY <1>1, <1>2, <1>4, TypeCorrect, StampTrue, PTL DEF Spec
<1> QED BY <1>3, <1>5, OnlyLateRecreationsStick, PTL
=============================================================================
