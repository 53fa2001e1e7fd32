-------------------------- MODULE EmbeddingProofs --------------------------
(***************************************************************************)
(* Theorems about the embedders: for any number of model directories,      *)
(* checkpoints, configurations and changes of them, and one process at a   *)
(* time, as in StampIsTrue, on which they rest.                            *)
(***************************************************************************)
EXTENDS Embedding, ReindexProofs

------------------------------------------------------------------------------

(* Which embedder a call gets decides nothing but the argument of Start. *)
LEMMA EngineOrStutter == [EmbeddingNext]_allVars => [Next]_vars
BY DEF EmbeddingNext, EngineStep, SearchCode, Configure, SwapCheckpoint, allVars

(***************************************************************************)
(* The engine runs unchanged under every choice of embedders.              *)
(***************************************************************************)
THEOREM EmbedderIsAnArgument == EmbeddingSpec => Spec
<1>1. EmbeddingInit => Init
  BY DEF EmbeddingInit
<1> QED BY <1>1, EngineOrStutter, PTL DEF EmbeddingSpec, Spec

------------------------------------------------------------------------------

(* The models whose vectors may go by an id. *)
Models(e) == IF e = FEATURE_HASH_ID THEN {FEATURE_HASH_ID} ELSE stood[e]

ShelfOK ==
  /\ shelf \in [Dirs -> Checkpoints \union {NoCheckpoint}]
  /\ conf \in [Workers -> Configuration]
  /\ stood \in [Embedders -> SUBSET Weights]
  /\ \A d \in Dirs :
       shelf[d] # NoCheckpoint => shelf[d].weights \in stood[IdIn(d, shelf[d])]

(* What a call works with, and what it has written, goes by its right name.  *)
NamedRight ==
  /\ DOMAIN loaded = Workers
  /\ DOMAIN answer = Workers
  /\ \A w \in Workers : pc[w] # "idle" => loaded[w] \in Models(job[w].emb)
  /\ \A p \in Paths :
       /\ made[p] \subseteq Models(db.embId)
       /\ RowsOf(db, p) = {} => made[p] = {}

EngineOK == TypeInv /\ EmbedderInv /\ RowBinding

(* A step of the engine preserves what is known of it. *)
LEMMA StepKeepsEngine ==
  OneWorker /\ EngineOK /\ [EmbeddingNext]_allVars => EngineOK'
BY EngineOrStutter, StepKeepsType, StepKeepsEmbedder, StepKeepsBinding DEF EngineOK

LEMMA IdsAreEmbedders ==
  ASSUME NEW d \in Dirs, NEW c
  PROVE  IdIn(d, c) \in Embedders /\ IdIn(d, c) # FEATURE_HASH_ID
BY IdAssumption DEF IdIn

(* The embedder a call gets has the id of the model it really runs. *)
LEMMA ActiveIsNamedRight ==
  ASSUME ShelfOK, NEW w \in Workers
  PROVE  ActiveEmbedder(w).model \in Models(ActiveEmbedder(w).id)
<1> DEFINE path == ConfiguredModelPath(conf[w])
<1>1. FeatureHashEmbedder.model \in Models(FeatureHashEmbedder.id)
  BY DEF FeatureHashEmbedder, Embedder, Models
<1>2. path \in Dirs \union {NoPath}
  BY DEF ShelfOK, Configuration, ConfiguredModelPath
<1> HIDE DEF path
<1>3. ASSUME ResolveEmbedderChoice(path) = "Gguf"
      PROVE  path \in Dirs /\ shelf[path] # NoCheckpoint
  BY <1>2, <1>3 DEF ResolveEmbedderChoice
<1>4. ASSUME path \in Dirs, shelf[path] # NoCheckpoint,
             NEW e \in (IF IsGemmaCheckpoint(path) THEN LoadGemma(path) ELSE LoadGguf(path))
      PROVE  e.model \in Models(e.id)
  <2>1. e = Embedder(IdIn(path, shelf[path]), shelf[path].weights)
    BY <1>4 DEF IsGemmaCheckpoint, LoadGemma, LoadGguf, IdIn
  <2>2. shelf[path].weights \in stood[IdIn(path, shelf[path])]
    BY <1>4 DEF ShelfOK
  <2> QED BY <1>4, <2>1, <2>2, IdsAreEmbedders DEF Embedder, Models
<1>5. ASSUME path \in Dirs, shelf[path] # NoCheckpoint
      PROVE  LoadGgufOrFallback(path).model \in Models(LoadGgufOrFallback(path).id)
  BY <1>1, <1>4, <1>5 DEF LoadGgufOrFallback
<1> QED BY <1>1, <1>3, <1>5 DEF ActiveEmbedder, path

------------------------------------------------------------------------------

(* A call keeps its arguments to its end. *)
LEMMA JobStays ==
  ASSUME TypeOK, [Next]_vars, NEW w \in Workers, pc[w] # "idle"
  PROVE  job'[w] = job[w]
<1>1. job \in [Workers -> Job]
  BY DEF TypeOK
<1>2. ASSUME NEW v \in Workers, NEW force \in BOOLEAN, NEW e \in Embedders, Start(v, force, e)
      PROVE  job'[w] = job[w]
  BY <1>1, <1>2 DEF Start
<1>3. ASSUME NEW v \in Workers, Step(v) \/ Abort(v)
      PROVE  job' = job
  BY <1>3 DEF Step, WalkFile, Remove, ForceFile, SkipFile, ChangedFile, Rewrite, ReadMetaId,
       Verify, CheckStamped, StampId, StampDim, Wipe, ListStored, RemoveDone, WriteFile,
       ReprocessFile, Finish, Abort, Leave
<1> QED BY <1>2, <1>3 DEF Next, Edit, MoveRepo, Rest, vars, workerVars

(* The id of the stamp only changes while the vector table is empty. *)
LEMMA StampOfNothing ==
  ASSUME EngineOK, [Next]_vars
  PROVE  db'.embId = db.embId \/ DOMAIN db'.vec = {}
<1>1. DOMAIN db = Tables
  BY DEF EngineOK, TypeInv, TypeOK, DbType
<1>2. ASSUME NEW w \in Workers, NEW force \in BOOLEAN, NEW e \in Embedders, Start(w, force, e)
      PROVE  db'.embId = db.embId
  BY <1>1, <1>2 DEF Start, OpenDb, Tables
<1>3. ASSUME NEW w \in Workers, Step(w)
      PROVE  db'.embId = db.embId \/ DOMAIN db'.vec = {}
  <2>1. CASE StampId(w)
    <3>1. db'.vec = db.vec
      BY <1>1, <2>1 DEF StampId, Commit, Tables
    <3>2. DOMAIN db.vec = {}
      BY <2>1 DEF StampId, EngineOK, EmbedderInv, StampAgrees
    <3> QED BY <3>1, <3>2
  <2>2. CASE StampDim(w) \/ Wipe(w) \/ Rewrite(w)
    BY <1>1, <2>2 DEF StampDim, Wipe, WipeAll, Rewrite, RewritePlaceholder, Commit, Tables
  <2>3. CASE \E p \in Paths : Remove(w, p)
    <3>1. PICK p \in Paths : Remove(w, p)
      BY <2>3
    <3>2. db' = RemoveFile(db, p, job[w].rid)
      BY <3>1 DEF Remove, Commit
    <3>3. DOMAIN DeleteFileRows(db, p) = Tables /\ DeleteFileRows(db, p).embId = db.embId
      BY <1>1, DeletedTables
    <3> QED BY <3>2, <3>3 DEF RemoveFile, Tables
  <2>4. CASE WriteFile(w) \/ \E p \in Paths : ForceFile(w, p)
    <3>1. PICK p : ReprocessFile(w, p)
      BY <2>4 DEF WriteFile, ForceFile
    <3>2. \/ db' = db
          \/ db' = Reprocess(db, p, seen[w][p], job[w].rid, job[w].emb)
      BY <3>1 DEF ReprocessFile, Commit
    <3> QED BY <1>1, <3>2, ReprocessedMeta
  <2>5. CASE \/ ReadMetaId(w) \/ Verify(w) \/ CheckStamped(w) \/ ListStored(w)
             \/ RemoveDone(w) \/ Finish(w)
             \/ \E p \in Paths : WalkFile(w, p) \/ SkipFile(w, p) \/ ChangedFile(w, p)
    BY <2>5 DEF ReadMetaId, Verify, CheckStamped, ListStored, RemoveDone, Finish, WalkFile,
                SkipFile, ChangedFile
  <2> QED BY <1>3, <2>1, <2>2, <2>3, <2>4, <2>5 DEF Step
<1> QED BY <1>2, <1>3 DEF Next, Abort, Edit, MoveRepo, Rest, vars

------------------------------------------------------------------------------

LEMMA InitiallyNamedRight ==
  ASSUME LegacyEmbedders = {}, EmbeddingInit
  PROVE  EngineOK /\ ShelfOK /\ NamedRight
<1>1. db = MissingDb /\ \A p \in Paths : RowsOf(db, p) = {}
  BY DEF EmbeddingInit, Init, MissingDb, NoRows, RowsOf
<1>2. EngineOK
  <2>1. TypeInv /\ RowBinding
    BY Initially, InitiallyBound DEF EmbeddingInit
  <2>2. EmbedderInv
    BY <1>1 DEF EmbeddingInit, Init, EmbedderInv, StampAgrees, MissingDb, NoRows
  <2> QED BY <2>1, <2>2 DEF EngineOK
<1>3. ShelfOK
  <2>1. shelf \in [Dirs -> Checkpoints \union {NoCheckpoint}]
        /\ conf \in [Workers -> Configuration] /\ stood = StoodIn(shelf)
    BY DEF EmbeddingInit
  <2>2. \A d \in Dirs : shelf[d] # NoCheckpoint => shelf[d].weights \in Weights
    BY <2>1, CheckpointAssumption
  <2>3. stood \in [Embedders -> SUBSET Weights]
    BY <2>1, <2>2 DEF StoodIn
  <2>4. \A d \in Dirs :
          shelf[d] # NoCheckpoint => shelf[d].weights \in stood[IdIn(d, shelf[d])]
    BY <2>1, IdsAreEmbedders DEF StoodIn
  <2> QED BY <2>1, <2>3, <2>4 DEF ShelfOK
<1>4. NamedRight
  BY <1>1 DEF NamedRight, EmbeddingInit, Init
<1> QED BY <1>2, <1>3, <1>4

LEMMA StepKeepsShelf ==
  ShelfOK /\ [EmbeddingNext]_allVars => ShelfOK'
<1> SUFFICES ASSUME ShelfOK, [EmbeddingNext]_allVars
             PROVE  ShelfOK'
  OBVIOUS
<1>1. ASSUME UNCHANGED <<shelf, conf, stood>>
      PROVE  ShelfOK'
  BY <1>1 DEF ShelfOK
<1>2. ASSUME NEW w \in Workers, NEW c \in Configuration, Configure(w, c)
      PROVE  ShelfOK'
  BY <1>2 DEF ShelfOK, Configure
<1>3. ASSUME NEW d \in Dirs, NEW c \in Checkpoints \union {NoCheckpoint}, SwapCheckpoint(d, c)
      PROVE  ShelfOK'
  <2>1. /\ shelf' \in [Dirs -> Checkpoints \union {NoCheckpoint}]
        /\ stood' = [e \in Embedders |-> stood[e] \union StoodIn(shelf')[e]]
        /\ conf' = conf
    BY <1>3 DEF ShelfOK, SwapCheckpoint
  <2>2. \A f \in Dirs : shelf'[f] # NoCheckpoint => shelf'[f].weights \in Weights
    BY <2>1, CheckpointAssumption
  <2>3. stood' \in [Embedders -> SUBSET Weights]
    BY <2>1, <2>2 DEF ShelfOK, StoodIn
  <2>4. \A f \in Dirs :
          shelf'[f] # NoCheckpoint => shelf'[f].weights \in stood'[IdIn(f, shelf'[f])]
    BY <2>1, IdsAreEmbedders DEF StoodIn
  <2> QED BY <2>1, <2>3, <2>4 DEF ShelfOK
<1> QED BY <1>1, <1>2, <1>3 DEF EmbeddingNext, EngineStep, SearchCode, allVars, embeddingVars

(* What has once gone by an id may do so for ever. *)
LEMMA ModelsGrow ==
  ASSUME ShelfOK, [EmbeddingNext]_allVars, NEW e \in Embedders
  PROVE  Models(e) \subseteq Models(e)'
BY DEF EmbeddingNext, EngineStep, SearchCode, Configure, SwapCheckpoint, Models, ShelfOK,
       allVars, embeddingVars

(* The engine embeds with the model of the call, under the id in the stamp. *)
LEMMA EngineNamesRight ==
  ASSUME OneWorker, EngineOK, EngineOK', ShelfOK, NamedRight, EngineStep
  PROVE  NamedRight'
<1> USE DEF NamedRight
<1>t. TypeOK
  BY DEF EngineOK, TypeInv
<1>n. [Next]_vars /\ UNCHANGED stood
  BY DEF EngineStep
<1>1. \A e : Models(e)' = Models(e)
  BY <1>n DEF Models
<1>2. ASSUME NEW w \in Workers, pc'[w] # "idle"
      PROVE  loaded'[w] \in Models(job'[w].emb)
  <2>1. CASE Called(w)
    BY <2>1, ActiveIsNamedRight DEF EngineStep
  <2>2. CASE ~ Called(w)
    <3>1. loaded'[w] = loaded[w] /\ pc[w] # "idle"
      BY <1>2, <2>2 DEF EngineStep, Called
    <3> QED BY <1>t, <1>n, <3>1, JobStays
  <2> QED BY <2>1, <2>2
<1>3. ASSUME NEW p \in Paths
      PROVE  /\ made'[p] \subseteq Models(db'.embId)
             /\ RowsOf(db', p) = {} => made'[p] = {}
  <2>1. CASE RowsOf(db', p) = {}
    BY <2>1 DEF EngineStep
  <2>2. CASE RowsOf(db', p) # {}
    <3>1. DOMAIN db'.vec # {}
      BY <2>2 DEF EngineOK, RowBinding, RowsBound, RowsOf
    <3>2. db'.embId = db.embId
      BY <1>n, <3>1, StampOfNothing
    <3>3. CASE \E w \in Workers : p \in Written(w)
      <4>1. PICK w \in Workers : p \in Written(w)
        BY <3>3
      <4>2. (CHOOSE v \in Workers : p \in Written(v)) = w
        BY <4>1 DEF OneWorker
      <4>3. made'[p] = {loaded[w]}
        BY <2>2, <3>3, <4>2 DEF EngineStep
      <4>4. pc[w] \in {"files", "write"}
        BY <4>1 DEF Written
      <4>5. db.embId = job[w].emb
        BY <4>4 DEF EngineOK, EmbedderInv, StampAgrees
      <4>6. loaded[w] \in Models(job[w].emb)
        BY <4>4
      <4> QED BY <2>2, <3>2, <4>3, <4>5, <4>6
    <3>4. CASE ~ \E w \in Workers : p \in Written(w)
      BY <2>2, <3>2, <3>4 DEF EngineStep
    <3> QED BY <3>3, <3>4
  <2> QED BY <2>1, <2>2
<1>4. DOMAIN loaded' = Workers /\ DOMAIN answer' = Workers
  BY DEF EngineStep
<1> QED BY <1>1, <1>2, <1>3, <1>4

LEMMA StepNamesRight ==
  OneWorker /\ EngineOK /\ ShelfOK /\ NamedRight /\ [EmbeddingNext]_allVars => NamedRight'
<1> SUFFICES ASSUME OneWorker, EngineOK, ShelfOK, NamedRight, [EmbeddingNext]_allVars
             PROVE  NamedRight'
  OBVIOUS
<1>e. EngineOK'
  BY StepKeepsEngine
<1>1. CASE EngineStep
  BY <1>1, <1>e, EngineNamesRight
<1>2. ASSUME NEW w \in Workers, SearchCode(w)
      PROVE  NamedRight'
  <2>1. UNCHANGED <<pc, job, db, made, stood>>
    BY <1>2 DEF SearchCode, vars, workerVars
  <2>2. \A e : Models(e)' = Models(e)
    BY <2>1 DEF Models
  <2>3. /\ DOMAIN loaded' = Workers /\ DOMAIN answer' = Workers
        /\ \A v \in Workers : pc[v] # "idle" => loaded'[v] = loaded[v]
    BY <1>2 DEF SearchCode, NamedRight
  <2> QED BY <2>1, <2>2, <2>3 DEF NamedRight
<1>3. ASSUME UNCHANGED <<pc, job, db, made, loaded>>, DOMAIN answer' = Workers
      PROVE  NamedRight'
  <2>1. job \in [Workers -> Job] /\ db.embId \in Embedders \union {NoEmbedder}
    BY DEF EngineOK, TypeInv, TypeOK, DbType
  <2>2. \A w \in Workers : job[w].emb \in Embedders
    BY <2>1 DEF Job
  <2>3. ASSUME NEW p \in Paths
        PROVE  made[p] \subseteq Models(db.embId)'
    <3>1. CASE db.embId \in Embedders
      BY <1>3, <3>1, ModelsGrow DEF NamedRight
    <3>2. CASE db.embId = NoEmbedder
      <4>1. DOMAIN db.vec = {}
        BY <3>2 DEF EngineOK, EmbedderInv, Stamped
      <4>2. made[p] = {}
        BY <4>1 DEF EngineOK, RowBinding, RowsBound, RowsOf, NamedRight
      <4> QED BY <4>2
    <3> QED BY <2>1, <3>1, <3>2
  <2> QED BY <1>3, <2>2, <2>3, ModelsGrow DEF NamedRight
<1>4. ASSUME NEW w \in Workers, NEW c \in Configuration, Configure(w, c)
      PROVE  NamedRight'
  BY <1>3, <1>4 DEF Configure, vars, workerVars, NamedRight
<1>5. ASSUME NEW d \in Dirs, NEW c \in Checkpoints \union {NoCheckpoint}, SwapCheckpoint(d, c)
      PROVE  NamedRight'
  BY <1>3, <1>5 DEF SwapCheckpoint, vars, workerVars, NamedRight
<1>6. CASE UNCHANGED allVars
  BY <1>3, <1>6 DEF allVars, vars, workerVars, embeddingVars, NamedRight
<1> QED BY <1>1, <1>2, <1>4, <1>5, <1>6 DEF EmbeddingNext

------------------------------------------------------------------------------

(* A step that adds to what stood under an id makes no id unambiguous. *)
LEMMA AmbiguityStays ==
  ASSUME ShelfOK, [EmbeddingNext]_allVars, Unambiguous'
  PROVE  Unambiguous
<1>1. \A e \in Embedders : stood[e] \subseteq stood'[e]
  BY DEF EmbeddingNext, EngineStep, SearchCode, Configure, SwapCheckpoint, allVars, embeddingVars
<1> QED BY <1>1 DEF Unambiguous

(* What a search compares its query with, when verify lets it through. *)
LEMMA SearchAnswers ==
  ASSUME EngineOK, ShelfOK, NamedRight, Unambiguous, NEW w \in Workers,
         EmbedderAccepted(db.embId, db.embDim, ActiveEmbedder(w).id),
         NEW p \in Paths
  PROVE  made[p] \subseteq {ActiveEmbedder(w).model}
<1>1. CASE Stamped(db.embId, db.embDim)
  <2>1. db.embId = ActiveEmbedder(w).id
    BY <1>1 DEF EmbedderAccepted
  <2>2. db.embId \in Embedders
    BY <1>1 DEF Stamped, EngineOK, TypeInv, TypeOK, DbType
  <2>3. \A m, n \in Models(db.embId) : m = n
    BY <2>2 DEF Models, Unambiguous
  <2>4. ActiveEmbedder(w).model \in Models(db.embId)
    BY <2>1, ActiveIsNamedRight
  <2>5. made[p] \subseteq Models(db.embId)
    BY DEF NamedRight
  <2> QED BY <2>3, <2>4, <2>5
<1>2. CASE ~ Stamped(db.embId, db.embDim)
  <2>1. DOMAIN db.vec = {}
    BY <1>2 DEF EngineOK, EmbedderInv
  <2> QED BY <2>1 DEF EngineOK, RowBinding, RowsBound, RowsOf, NamedRight
<1> QED BY <1>1, <1>2

LEMMA StepKeepsAnswers ==
  ASSUME EngineOK, ShelfOK, NamedRight, AnswersFromOneModel, [EmbeddingNext]_allVars
  PROVE  AnswersFromOneModel'
<1> SUFFICES ASSUME NEW w \in Workers, Unambiguous', answer'[w].how = "hits"
             PROVE  answer'[w].against \subseteq {answer'[w].query}
  BY DEF AnswersFromOneModel
<1>u. Unambiguous
  BY AmbiguityStays
<1>d. DOMAIN answer = Workers
  BY DEF NamedRight
<1>1. CASE answer'[w] = answer[w]
  BY <1>u, <1>1 DEF AnswersFromOneModel
<1>2. CASE answer'[w] = NoAnswer
  BY <1>2 DEF NoAnswer, Answer
<1>3. CASE SearchCode(w)
  <2> DEFINE e == ActiveEmbedder(w)
             a == UNION {made[p] : p \in Paths}
  <2>1. /\ EmbedderAccepted(db.embId, db.embDim, e.id)
        /\ answer'[w] = Answer("hits", e.model, a)
    BY <1>d, <1>3 DEF SearchCode, Answer
  <2>2. \A p \in Paths : made[p] \subseteq {e.model}
    BY <1>u, <2>1, SearchAnswers
  <2>3. answer'[w].against = a /\ answer'[w].query = e.model
    BY <2>1 DEF Answer
  <2> HIDE DEF e
  <2> QED BY <2>2, <2>3
<1>4. ASSUME NEW v \in Workers, v # w, SearchCode(v)
      PROVE  answer'[w] = answer[w]
  BY <1>d, <1>4 DEF SearchCode
<1>5. ASSUME NEW v \in Workers, NEW c, Configure(v, c)
      PROVE  answer'[w] = answer[w] \/ answer'[w] = NoAnswer
  BY <1>d, <1>5 DEF Configure
<1>6. ASSUME EngineStep
      PROVE  answer'[w] = answer[w] \/ answer'[w] = NoAnswer
  BY <1>6 DEF EngineStep
<1>7. ASSUME NEW d, NEW c, SwapCheckpoint(d, c)
      PROVE  answer' = answer
  BY <1>7 DEF SwapCheckpoint
<1> QED BY <1>1, <1>2, <1>3, <1>4, <1>5, <1>6, <1>7 DEF EmbeddingNext, allVars, embeddingVars

(***************************************************************************)
(* One process at a time never answers from vectors of another model than  *)
(* that of the query, whatever models were missing, broken, replaced or    *)
(* configured anew between its calls, as long as no id has stood for two   *)
(* models: active_embedder falls back under the id of the fallback, and    *)
(* verify_embedder_meta does the rest.                                     *)
(***************************************************************************)
THEOREM OneModelAnswers ==
  ASSUME OneWorker, LegacyEmbedders = {}
  PROVE  EmbeddingSpec => []AnswersFromOneModel
<1>1. EmbeddingInit => EngineOK /\ ShelfOK /\ NamedRight /\ AnswersFromOneModel
  <2>1. EmbeddingInit => AnswersFromOneModel
    BY DEF EmbeddingInit, AnswersFromOneModel, NoAnswer, Answer
  <2> QED BY <2>1, InitiallyNamedRight
<1>2. EngineOK /\ ShelfOK /\ NamedRight /\ AnswersFromOneModel /\ [EmbeddingNext]_allVars
        => EngineOK' /\ ShelfOK' /\ NamedRight' /\ AnswersFromOneModel'
  BY StepKeepsEngine, StepKeepsShelf, StepNamesRight, StepKeepsAnswers
<1> QED BY <1>1, <1>2, PTL DEF EmbeddingSpec
=============================================================================
