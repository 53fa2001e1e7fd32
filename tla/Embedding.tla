----------------------------- MODULE Embedding -----------------------------
(***************************************************************************)
(* Which embedder a process works with (embedder.rs, embedder_gemma.rs),   *)
(* around the reindex engine: every call of the server and of the watcher  *)
(* resolves its embedder anew, from the build's gguf-embed feature, the    *)
(* configured model path and the checkpoint that lies there at that        *)
(* moment, and falls back to feature hashing whenever it cannot load it.   *)
(* The index only knows the embedder's id and width.  What a vector was    *)
(* really made with is the history variable `made`, and the question is    *)
(* what the stamp is worth.                                                *)
(*                                                                         *)
(* A text a loaded model fails on is embedded by feature hashing under the *)
(* model's id (embedder.rs:418, embedder_gemma.rs:510).  That is chosen    *)
(* by the code and not counted here.                                       *)
(***************************************************************************)
EXTENDS Reindex

CONSTANTS
  Dirs,               \* directories in which checkpoints are kept
  Weights,            \* the models that exist
  Checkpoints,        \* what can lie in a directory
  NoCheckpoint,       \* the configured path does not exist
  NoPath,             \* APOHARA_EMBED_MODEL is unset or blank
  FEATURE_HASH_ID,    \* the embedder of every build, and its vectors
  EMBEDDINGGEMMA_ID,
  GgufId,             \* gguf:<dir_stem>, by directory
  EMBED_DIM,          \* width of feature hashing and of BERT checkpoints
  MATRYOSHKA_DIM,
  MaxSwaps            \* bound: changes of a checkpoint or of a configuration

(* loads: every file beside config.json is there and can be parsed. *)
ASSUME CheckpointAssumption ==
  /\ Checkpoints \subseteq
       [model_type : {"gemma3_text", "bert"}, hidden_size : Nat, loads : BOOLEAN,
        weights : Weights]
  /\ NoCheckpoint \notin Checkpoints
  /\ NoPath \notin Dirs
  /\ FEATURE_HASH_ID \notin Weights

ASSUME IdAssumption ==
  /\ GgufId \in [Dirs -> Embedders \ {FEATURE_HASH_ID, EMBEDDINGGEMMA_ID}]
  /\ {FEATURE_HASH_ID, EMBEDDINGGEMMA_ID} \subseteq Embedders
  /\ FEATURE_HASH_ID # EMBEDDINGGEMMA_ID
  /\ \A e \in Embedders : Dim[e] = IF e = EMBEDDINGGEMMA_ID THEN MATRYOSHKA_DIM ELSE EMBED_DIM
  /\ MaxSwaps \in Nat

VARIABLES
  shelf,   \* what lies in each directory
  conf,    \* each process's build and environment
  loaded,  \* the model its current or last call works with
  made,    \* the models whose vectors the index holds of each file
  stood,   \* the models that ever lay where an id is taken from
  answer,  \* a search just answered: how, and what it compared with what
  swaps    \* how many checkpoints and configurations have changed

embeddingVars == <<shelf, conf, loaded, made, stood, answer, swaps>>
allVars == <<vars, embeddingVars>>

Configuration == [gguf_embed : BOOLEAN, path : Dirs \union {NoPath}]

Answer(how, query, against) == [how |-> how, query |-> query, against |-> against]
NoAnswer == Answer("none", FEATURE_HASH_ID, {})

------------------------------------------------------------------------------

Embedder(id, model) == [id |-> id, model |-> model]

FeatureHashEmbedder == Embedder(FEATURE_HASH_ID, FEATURE_HASH_ID)

IsGemmaCheckpoint(d) == shelf[d].model_type = "gemma3_text"

(* Model::load: each weights file maps and holds every tensor of the model. *)
ModelLoads(d) == shelf[d].loads

(* EmbeddingGemmaEmbedder::load: one id for every checkpoint of its type. *)
LoadGemma(d) ==
  IF ModelLoads(d) THEN {Embedder(EMBEDDINGGEMMA_ID, shelf[d].weights)} ELSE {}

(* GgufEmbedder::load: it refuses a width other than the caller's. *)
LoadGguf(d) ==
  IF shelf[d].loads /\ shelf[d].hidden_size = EMBED_DIM
    THEN {Embedder(GgufId[d], shelf[d].weights)}
    ELSE {}

(* A slip: what replaces a checkpoint that does not load goes by its id. *)
FallbackUnderItsId(d) ==
  LET ok == IF IsGemmaCheckpoint(d) THEN LoadGemma(d) ELSE LoadGguf(d)
  IN  IF ok # {} THEN CHOOSE e \in ok : TRUE ELSE Embedder(GgufId[d], FEATURE_HASH_ID)

LoadGgufOrFallback(d) ==
  LET ok == IF IsGemmaCheckpoint(d) THEN LoadGemma(d) ELSE LoadGguf(d)
  IN  IF ok # {} THEN CHOOSE e \in ok : TRUE ELSE FeatureHashEmbedder

(* Without the feature the environment is not even read. *)
ConfiguredModelPath(c) == IF c.gguf_embed THEN c.path ELSE NoPath

(* "FeatureHash", "Gguf" with the path, or the fallback for a missing one. *)
ResolveEmbedderChoice(path) ==
  CASE path = NoPath              -> "FeatureHash"
    [] path # NoPath /\ shelf[path] # NoCheckpoint -> "Gguf"
    [] OTHER                      -> "FallbackToFeatureHash"

ActiveEmbedder(w) ==
  LET path == ConfiguredModelPath(conf[w])
  IN  IF ResolveEmbedderChoice(path) = "Gguf"
        THEN LoadGgufOrFallback(path)
        ELSE FeatureHashEmbedder

------------------------------------------------------------------------------

(* The id a checkpoint would get in directory d. *)
IdIn(d, c) == IF c.model_type = "gemma3_text" THEN EMBEDDINGGEMMA_ID ELSE GgufId[d]

StoodIn(sh) ==
  [e \in Embedders |->
     {sh[d].weights : d \in {f \in Dirs : sh[f] # NoCheckpoint /\ IdIn(f, sh[f]) = e}}]

EmbeddingInit ==
  /\ Init
  /\ shelf \in [Dirs -> Checkpoints \union {NoCheckpoint}]
  /\ conf \in [Workers -> Configuration]
  /\ loaded = [w \in Workers |-> FEATURE_HASH_ID]
  /\ made = [p \in Paths |-> IF RowsOf(db, p) = {} THEN {} ELSE {FEATURE_HASH_ID}]
  /\ stood = StoodIn(shelf)
  /\ answer = [w \in Workers |-> NoAnswer]
  /\ swaps = 0

Called(w) == pc[w] = "idle" /\ pc'[w] # "idle"

(* The files whose chunks worker w has just embedded and committed. *)
Written(w) ==
  IF pc'[w] = "files" /\ (pc[w] = "write" \/ (pc[w] = "files" /\ job[w].force))
    THEN todo[w] \ todo'[w]
    ELSE {}

(***************************************************************************)
(* A step of the engine.  A call works from end to end with the embedder   *)
(* that was active when it began: its width opens the database, its id is  *)
(* verified and stamped, its vectors are written (server.rs:286-294,       *)
(* server.rs:155-165, watch.rs:70-74).                                     *)
(***************************************************************************)
EngineStep ==
  /\ Next
  /\ \A w \in Workers : Called(w) => job'[w].emb = ActiveEmbedder(w).id
  /\ loaded' = [w \in Workers |-> IF Called(w) THEN ActiveEmbedder(w).model ELSE loaded[w]]
  /\ made' = [p \in Paths |->
                IF RowsOf(db', p) = {} THEN {}
                ELSE IF \E w \in Workers : p \in Written(w)
                       THEN {loaded[CHOOSE w \in Workers : p \in Written(w)]}
                       ELSE made[p]]
  /\ answer' = [w \in Workers |-> IF Called(w) THEN NoAnswer ELSE answer[w]]
  /\ UNCHANGED <<shelf, conf, stood, swaps>>

(***************************************************************************)
(* search_code on an index that exists: open_db_with at the embedder's     *)
(* width, verify, and the two queries.  The vector table rejects a query   *)
(* vector of another width.  A process answers one call at a time.         *)
(***************************************************************************)
SearchCode(w) ==
  LET e == ActiveEmbedder(w)
  IN  /\ pc[w] = "idle"
      /\ db.vecDim # 0
      /\ loaded' = [loaded EXCEPT ![w] = e.model]
      /\ answer' = [answer EXCEPT ![w] =
           IF ~ EmbedderAccepted(db.embId, db.embDim, e.id)
             THEN Answer("refused", e.model, {})
           ELSE IF db.vecDim # Dim[e.id]
             THEN Answer("failed", e.model, {})
           ELSE Answer("hits", e.model, UNION {made[p] : p \in Paths})]
      /\ UNCHANGED <<vars, shelf, conf, made, stood, swaps>>

(* A user downloads, replaces, breaks or deletes a checkpoint.  A call that  *)
(* is under way has loaded its model, so nothing is lost by letting it end. *)
SwapCheckpoint(d, c) ==
  /\ \A w \in Workers : pc[w] = "idle"
  /\ swaps < MaxSwaps
  /\ swaps' = swaps + 1
  /\ c # shelf[d]
  /\ shelf' = [shelf EXCEPT ![d] = c]
  /\ stood' = [e \in Embedders |-> stood[e] \union StoodIn(shelf')[e]]
  /\ UNCHANGED <<vars, conf, loaded, made, answer>>

(* Or starts the process again with another build or environment. *)
Configure(w, c) ==
  /\ pc[w] = "idle"
  /\ swaps < MaxSwaps
  /\ swaps' = swaps + 1
  /\ c # conf[w]
  /\ conf' = [conf EXCEPT ![w] = c]
  /\ answer' = [answer EXCEPT ![w] = NoAnswer]
  /\ UNCHANGED <<vars, shelf, loaded, made, stood>>

EmbeddingNext ==
  \/ EngineStep
  \/ \E w \in Workers : SearchCode(w) \/ \E c \in Configuration : Configure(w, c)
  \/ \E d \in Dirs, c \in Checkpoints \union {NoCheckpoint} : SwapCheckpoint(d, c)

EmbeddingSpec == EmbeddingInit /\ [][EmbeddingNext]_allVars

------------------------------------------------------------------------------

(* No id has ever stood for two models: neither was a checkpoint replaced   *)
(* in place, nor do two directories with one last component, or two         *)
(* EmbeddingGemma checkpoints, hold different ones.                         *)
Unambiguous == \A e \in Embedders : \A m, n \in stood[e] : m = n

(***************************************************************************)
(* As long as no id stands for two models, a search that is answered       *)
(* compares its query only with vectors of the query's own model, whatever *)
(* models were missing, broken, of another width or configured anew        *)
(* between the calls, and whichever call fell back: "a clear error beats   *)
(* silently mis-ranking against incompatible vectors" (server.rs:213).     *)
(* The premise is needed: the id is not taken from the weights             *)
(* (embedder.rs:366).                                                      *)
(***************************************************************************)
AnswersFromOneModel ==
  \A w \in Workers :
    Unambiguous /\ answer[w].how = "hits" => answer[w].against \subseteq {answer[w].query}
=============================================================================
