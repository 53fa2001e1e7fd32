------------------------------- MODULE Search -------------------------------
(***************************************************************************)
(* One search_code call of the MCP server, a statement or a loop iteration *)
(* per step, over an index that other processes change in between as       *)
(* FileIndex promises (Reindex implements it): each statement of the       *)
(* search sees a consistent index, but no two of them need see the same.   *)
(*                                                                         *)
(* What matches, and in which order, is left open: a ranking is any        *)
(* sequence of the chunks that are there.  A chunk is named by its file    *)
(* and lines, as its id is; a body stands for its tokens and its vector.   *)
(* Scores and similarities are integers in units of Scale and SimUnit.     *)
(***************************************************************************)
EXTENDS Integers, Sequences, FiniteSets, Functions

CONSTANTS
  Files, Versions,  \* as in FileIndex; a text is [from, to, body]
  IdOrder,          \* the chunk ids <<file, from, to>> in the order of their text
  Boosting,         \* the versions of files whose imports share a word with the query
  Cosine,           \* [bodies \X bodies -> 0..SimUnit]
  Alike,            \* the pairs of bodies with a Jaccard of at least 0.9
  Requests,         \* [k, bm25_weight, vector_weight, adaptive, query, boost, diversify]
  NoWeight,         \* a weight the request leaves out
  NotFinite,        \* NaN, an infinity
  RrfK, Scale, StructuralBoost, SimUnit,
  MaxChanges        \* bound: changes of the index during the search

Id(f, c) == <<f, c.from, c.to>>
Ids == UNION {{Id(f, c) : c \in UNION Versions[f]} : f \in Files}

Contents == (UNION {Versions[f] : f \in Files}) \cup {{}}

ASSUME SpanAssumption ==
  \A f \in Files : \A v \in Versions[f] : \A c \in v : c.from \in Nat /\ c.to \in Nat

ASSUME RequestAssumption ==
  /\ \A r \in Requests :
       /\ r.k \in Nat /\ r.adaptive \in BOOLEAN /\ r.boost \in BOOLEAN /\ r.diversify \in BOOLEAN
       /\ {r.bm25_weight, r.vector_weight} \subseteq Int \cup {NoWeight, NotFinite}
  /\ RrfK \in Nat \ {0} /\ SimUnit \in Nat \ {0} /\ MaxChanges \in Nat
  /\ Scale \in Nat /\ StructuralBoost \in Nat

VARIABLES
  index,       \* what a statement finds: the texts of each file
  changes,     \* changes of it so far
  changed,     \* the files changed since the search began
  at,          \* the stage the search is in
  request, weights,
  bm25, vector,  \* the two rankings: ids, best first
  fused,       \* the candidates, [id, score]
  kept,        \* those left by dedup_overlapping
  vectors,     \* the body whose vector load_embeddings found, by id
  remaining, selected,  \* mmr_rerank: positions in kept
  next,        \* the loop index of the stage
  hit,         \* the hit being hydrated
  hydrated,    \* the hits with what each statement read for them
  hits         \* the answer

ranking == <<bm25, vector>>
answer  == <<hit, hydrated, hits>>
vars == <<index, changes, changed, at, request, weights, ranking, fused, kept, vectors,
          remaining, selected, next, answer>>

Index == INSTANCE FileIndex WITH idx <- index

Stages == {"idle", "bm25", "vector", "fuse", "boost", "dedup", "vectors", "mmr",
           "hydrate", "imports", "exports", "content", "done"}

BodyIn(texts, i) == (CHOOSE c \in texts : Id(i[1], c) = i).body

IdsNow     == UNION {{Id(f, c) : c \in index[f]} : f \in Files}
BodyNow(i) == BodyIn(index[i[1]], i)

NoHit == [id |-> <<>>]

Init ==
  /\ index \in [Files -> Contents]
  /\ \A f \in Files : index[f] \in Versions[f] \cup {{}}
  /\ changes = 0 /\ changed = {}
  /\ at = "idle"
  /\ request \in Requests
  /\ weights = <<0, 0>>
  /\ bm25 = <<>> /\ vector = <<>> /\ fused = <<>> /\ kept = <<>>
  /\ vectors = <<>>
  /\ remaining = {} /\ selected = <<>> /\ next = 1
  /\ hit = NoHit /\ hydrated = <<>> /\ hits = <<>>

------------------------------------------------------------------------------
(* The index changes.                                                        *)

Change ==
  /\ at \notin {"idle", "done"}
  /\ changes < MaxChanges
  /\ Index!Next
  /\ index' # index
  /\ changes' = changes + 1
  /\ changed' = changed \cup {f \in Files : index'[f] # index[f]}
  /\ UNCHANGED <<at, request, weights, ranking, fused, kept, vectors, remaining, selected,
                 next, answer>>

------------------------------------------------------------------------------
(* The request.                                                              *)

\* The shape of the query: no word, one word, one word that looks like an
\* identifier, several words.
ClassifyQueryWeights(query) ==
  CASE query = "identifier" -> <<2, 1>>
    [] query = "words"      -> <<1, 2>>
    [] OTHER                -> <<1, 1>>

(* A slip: a negative weight is taken as it is. *)
WeightAsGiven(w) == IF w = NotFinite THEN 1 ELSE w

SanitizeWeight(w) ==
  CASE w = NotFinite -> 1
    [] w # NotFinite -> IF w < 0 THEN 0 ELSE w

ResolveWeights(r) ==
  LET adaptive == IF r.adaptive THEN ClassifyQueryWeights(r.query) ELSE <<1, 1>>
      Given(w, otherwise) == SanitizeWeight(IF w = NoWeight THEN otherwise ELSE w)
  IN  <<Given(r.bm25_weight, adaptive[1]), Given(r.vector_weight, adaptive[2])>>

SearchCode ==
  /\ at = "idle"
  /\ weights' = ResolveWeights(request)
  /\ at' = "bm25"
  /\ UNCHANGED <<index, changes, changed, request, ranking, fused, kept, vectors, remaining,
                 selected, next, answer>>

------------------------------------------------------------------------------
(* The two rankings and their fusion.                                        *)

Rankings(S, k) ==
  UNION {Injection(1..n, S) : n \in {n \in 0..k : n <= Cardinality(S)}}

(* Any of the chunks may match; a query without a word matches nothing.      *)
Bm25Query ==
  /\ at = "bm25"
  /\ bm25' \in IF request.query = "blank" THEN {<<>>} ELSE Rankings(IdsNow, request.k)
  /\ at' = "vector"
  /\ UNCHANGED <<index, changes, changed, request, weights, vector, fused, kept, vectors,
                 remaining, selected, next, answer>>

(* The nearest: as many as asked for, if there are.                          *)
VectorQuery ==
  /\ at = "vector"
  /\ vector' \in {s \in Rankings(IdsNow, request.k) :
                    Len(s) = request.k \/ Len(s) = Cardinality(IdsNow)}
  /\ at' = "fuse"
  /\ UNCHANGED <<index, changes, changed, request, weights, bm25, fused, kept, vectors,
                 remaining, selected, next, answer>>

RankIn(s, id) == CHOOSE i \in 1..Len(s) : s[i] = id
IdBefore(a, b) == RankIn(IdOrder, a) < RankIn(IdOrder, b)

(* The share of a ranking in the score, zero if it does not hold the id.     *)
Share(s, weight, id) ==
  IF id \in Range(s) THEN weight * (Scale \div (RrfK + RankIn(s, id))) ELSE 0

(* A slip: the second ranking's share replaces the first's. *)
LastShare(id) ==
  IF id \in Range(vector) THEN Share(vector, weights[2], id) ELSE Share(bm25, weights[1], id)

FusedScore(id) == Share(bm25, weights[1], id) + Share(vector, weights[2], id)

\* Larger than any real rank.
Bm25Rank(id) == IF id \in Range(bm25) THEN RankIn(bm25, id) ELSE Len(bm25) + Len(vector) + 1

FusedBefore(a, b) ==
  \/ a.score > b.score
  \/ /\ a.score = b.score
     /\ \/ Bm25Rank(a.id) < Bm25Rank(b.id)
        \/ (Bm25Rank(a.id) = Bm25Rank(b.id) /\ IdBefore(a.id, b.id))

\* The ways to put the members of a set in a row; an order leaves one of them.
Rows(S) == Injection(1..Cardinality(S), S)

RrfFuseWeighted ==
  {s \in Rows({[id |-> i, score |-> FusedScore(i)] : i \in Range(bm25) \cup Range(vector)}) :
     \A i, j \in DOMAIN s : i < j => FusedBefore(s[i], s[j])}

Fuse ==
  /\ at = "fuse"
  /\ fused' \in RrfFuseWeighted
  /\ at' = IF request.boost THEN "boost" ELSE "dedup"
  /\ UNCHANGED <<index, changes, changed, request, weights, ranking, kept, vectors, remaining,
                 selected, next, answer>>

Boosted(c, files) == IF c.id[1] \in files THEN [c EXCEPT !.score = @ + StructuralBoost] ELSE c

BoostedBefore(a, b) ==
  a.score > b.score \/ (a.score = b.score /\ IdBefore(a.id, b.id))

Reranked(files) ==
  {s \in Rows({Boosted(fused[i], files) : i \in DOMAIN fused}) :
     \A i, j \in DOMAIN s : i < j => BoostedBefore(s[i], s[j])}

(* One scan of file_imports; the order changes only if a file is boosted.    *)
ApplyStructuralBoost ==
  /\ at = "boost"
  /\ LET files == {f \in Files : index[f] \in Boosting} IN
     IF request.query = "blank" \/ fused = <<>> \/ files = {} THEN UNCHANGED fused
     ELSE fused' \in Reranked(files)
  /\ at' = "dedup"
  /\ UNCHANGED <<index, changes, changed, request, weights, ranking, kept, vectors, remaining,
                 selected, next, answer>>

------------------------------------------------------------------------------
(* dedup_overlapping, then mmr_rerank if asked for.                          *)

Smaller(a, b) == IF a < b THEN a ELSE b
Larger(a, b)  == IF a < b THEN b ELSE a

(* The lines both have are more than half of the shorter one's.              *)
Overlaps(a, b) ==
  LET lo == Larger(a[2], b[2])
      hi == Smaller(a[3], b[3])
  IN  /\ a[1] = b[1]
      /\ hi >= lo
      /\ 2 * (hi - lo + 1) > Smaller(a[3] - a[2] + 1, b[3] - b[2] + 1)

EndDedup ==
  /\ next' = 1
  /\ at' = IF request.diversify THEN "vectors" ELSE "hydrate"
  /\ remaining' = IF request.diversify THEN 1..Len(kept) ELSE {}
  /\ selected'  = IF request.diversify THEN <<>> ELSE [i \in 1..Len(kept) |-> i]
  /\ UNCHANGED kept

(* A slip: a candidate is compared with all before it, the dropped ones too. *)
DedupByAnyBefore ==
  /\ at = "dedup"
  /\ \/ /\ next <= Len(fused)
        /\ kept' = IF \E i \in 1..next - 1 : Overlaps(fused[next].id, fused[i].id)
                   THEN kept ELSE Append(kept, fused[next])
        /\ next' = next + 1
        /\ UNCHANGED <<at, remaining, selected>>
     \/ next > Len(fused) /\ EndDedup
  /\ UNCHANGED <<index, changes, changed, request, weights, ranking, fused, vectors, answer>>

(* A slip: a candidate is compared with the last one kept only. *)
DedupByLast ==
  /\ at = "dedup"
  /\ \/ /\ next <= Len(fused)
        /\ kept' = IF kept # <<>> /\ Overlaps(fused[next].id, kept[Len(kept)].id)
                   THEN kept ELSE Append(kept, fused[next])
        /\ next' = next + 1
        /\ UNCHANGED <<at, remaining, selected>>
     \/ next > Len(fused) /\ EndDedup
  /\ UNCHANGED <<index, changes, changed, request, weights, ranking, fused, vectors, answer>>

DedupOverlapping ==
  /\ at = "dedup"
  /\ \/ /\ next <= Len(fused)
        /\ kept' = IF \E i \in 1..Len(kept) : Overlaps(fused[next].id, kept[i].id)
                   THEN kept ELSE Append(kept, fused[next])
        /\ next' = next + 1
        /\ UNCHANGED <<at, remaining, selected>>
     \/ next > Len(fused) /\ EndDedup
  /\ UNCHANGED <<index, changes, changed, request, weights, ranking, fused, vectors, answer>>

(* One lookup per candidate; one whose chunk is gone has no vector.          *)
LoadEmbeddings ==
  /\ at = "vectors"
  /\ \/ /\ next <= Len(kept)
        /\ vectors' = Append(vectors, IF kept[next].id \in IdsNow THEN <<BodyNow(kept[next].id)>>
                                      ELSE <<>>)
        /\ next' = next + 1
        /\ UNCHANGED at
     \/ /\ next > Len(kept)
        /\ at' = "mmr" /\ next' = 1
        /\ UNCHANGED vectors
  /\ UNCHANGED <<index, changes, changed, request, weights, ranking, fused, kept, remaining,
                 selected, answer>>

Similarity(p, q) ==
  IF vectors[p] = <<>> \/ vectors[q] = <<>> THEN 0 ELSE Cosine[vectors[p][1], vectors[q][1]]

MaxSimilarity(p) ==
  LET sims == {Similarity(p, selected[i]) : i \in 1..Len(selected)} \cup {0}
  IN  CHOOSE m \in sims : \A s \in sims : s <= m

(* 0.7 rel - 0.3 similarity, times 10 * SimUnit * the range of the scores;   *)
(* all are relevant alike if there is no range.                              *)
Mmr(p) ==
  LET scores == {kept[i].score : i \in 1..Len(kept)}
      min    == CHOOSE m \in scores : \A s \in scores : m <= s
      max    == CHOOSE m \in scores : \A s \in scores : m >= s
  IN  IF max > min
      THEN 7 * SimUnit * (kept[p].score - min) - 3 * MaxSimilarity(p) * (max - min)
      ELSE 7 * SimUnit - 3 * MaxSimilarity(p)

(* A slip: of two alike the later one is taken. *)
MmrLastBest(p) ==
  \A q \in remaining : Mmr(q) < Mmr(p) \/ (Mmr(q) = Mmr(p) /\ q <= p)

\* Of two alike the one that ranked first.
MmrBest(p) ==
  \A q \in remaining : Mmr(q) < Mmr(p) \/ (Mmr(q) = Mmr(p) /\ p <= q)

MmrRerank ==
  /\ at = "mmr"
  /\ \/ \E p \in remaining :
          /\ MmrBest(p)
          /\ selected' = Append(selected, p)
          /\ remaining' = remaining \ {p}
          /\ UNCHANGED at
     \/ /\ remaining = {}
        /\ at' = "hydrate"
        /\ UNCHANGED <<selected, remaining>>
  /\ UNCHANGED <<index, changes, changed, request, weights, ranking, fused, kept, vectors,
                 next, answer>>

------------------------------------------------------------------------------
(* The answer.                                                               *)

Ordered(i) == kept[selected[i]]
TopK       == Smaller(request.k, Len(selected))

(* A slip: the first candidate whose chunk is gone ends the loop. *)
HydrateUntilGone ==
  /\ at = "hydrate"
  /\ \/ /\ next <= TopK
        /\ Ordered(next).id \in IdsNow
        /\ hit' = [id |-> Ordered(next).id, score |-> Ordered(next).score,
                   body |-> BodyNow(Ordered(next).id), chunk |-> index[Ordered(next).id[1]]]
        /\ at' = "imports"
        /\ next' = next + 1
     \/ /\ ~ (next <= TopK /\ Ordered(next).id \in IdsNow)
        /\ at' = "content" /\ next' = 1
        /\ UNCHANGED hit
  /\ UNCHANGED <<index, changes, changed, request, weights, ranking, fused, kept, vectors,
                 remaining, selected, hydrated, hits>>

(* The chunk's row; a candidate whose chunk is gone is passed over.          *)
Hydrate ==
  /\ at = "hydrate"
  /\ \/ /\ next <= TopK
        /\ Ordered(next).id \in IdsNow
        /\ hit' = [id |-> Ordered(next).id, score |-> Ordered(next).score,
                   body |-> BodyNow(Ordered(next).id), chunk |-> index[Ordered(next).id[1]]]
        /\ at' = "imports"
        /\ next' = next + 1
     \/ /\ next <= TopK
        /\ Ordered(next).id \notin IdsNow
        /\ next' = next + 1
        /\ UNCHANGED <<at, hit>>
     \/ /\ next > TopK
        /\ at' = "content" /\ next' = 1
        /\ UNCHANGED hit
  /\ UNCHANGED <<index, changes, changed, request, weights, ranking, fused, kept, vectors,
                 remaining, selected, hydrated, hits>>

(* The rows of its file: what they are, for the version they are read from.  *)
LoadImports ==
  /\ at = "imports"
  /\ hit' = [id |-> hit.id, score |-> hit.score, body |-> hit.body, chunk |-> hit.chunk,
             imports |-> index[hit.id[1]]]
  /\ at' = "exports"
  /\ UNCHANGED <<index, changes, changed, request, weights, ranking, fused, kept, vectors,
                 remaining, selected, next, hydrated, hits>>

LoadExports ==
  /\ at = "exports"
  /\ hydrated' = Append(hydrated,
       [id |-> hit.id, score |-> hit.score, body |-> hit.body, chunk |-> hit.chunk,
        imports |-> hit.imports, exports |-> index[hit.id[1]]])
  /\ hit' = NoHit
  /\ at' = "hydrate"
  /\ UNCHANGED <<index, changes, changed, request, weights, ranking, fused, kept, vectors,
                 remaining, selected, next, hits>>

DedupContent ==
  /\ at = "content"
  /\ \/ /\ next <= Len(hydrated)
        /\ hits' = IF \E i \in 1..Len(hits) : <<hydrated[next].body, hits[i].body>> \in Alike
                   THEN hits ELSE Append(hits, hydrated[next])
        /\ next' = next + 1
        /\ UNCHANGED at
     \/ /\ next > Len(hydrated)
        /\ at' = "done"
        /\ UNCHANGED <<hits, next>>
  /\ UNCHANGED <<index, changes, changed, request, weights, ranking, fused, kept, vectors,
                 remaining, selected, hit, hydrated>>

Next ==
  \/ Change \/ SearchCode \/ Bm25Query \/ VectorQuery \/ Fuse \/ ApplyStructuralBoost
  \/ DedupOverlapping \/ LoadEmbeddings \/ MmrRerank
  \/ Hydrate \/ LoadImports \/ LoadExports \/ DedupContent

Spec == Init /\ [][Next]_vars

------------------------------------------------------------------------------
(* Properties.                                                               *)

Candidate == [id : Ids, score : Nat]
Bodies    == {c.body : c \in UNION Contents}
Hit == [id : Ids, score : Nat, body : Bodies, chunk : Contents, imports : Contents,
        exports : Contents]

TypeOK ==
  /\ index = [f \in Files |-> index[f]]
  /\ \A f \in Files : index[f] \in Versions[f] \cup {{}}
  /\ changes \in 0..MaxChanges /\ changed \subseteq Files
  /\ at \in Stages /\ request \in Requests
  /\ weights \in Nat \X Nat
  /\ bm25 \in Seq(Ids) /\ vector \in Seq(Ids)
  /\ fused \in Seq(Candidate) /\ kept \in Seq(Candidate)
  /\ remaining \subseteq 1..Len(kept) /\ selected \in Seq(1..Len(kept))
  /\ next \in Nat \ {0}
  /\ at = "imports" => hit \in [id : Ids, score : Nat, body : Bodies, chunk : Contents]
  /\ at = "exports" =>
       hit \in [id : Ids, score : Nat, body : Bodies, chunk : Contents, imports : Contents]
  /\ hydrated \in Seq(Hit) /\ hits \in Seq(Hit)

Disjoint(s) == \A i, j \in 1..Len(s) : i # j => ~ Overlaps(s[i].id, s[j].id)

(* However the index changes between the statements, no two hits of an        *)
(* answer are of one file and mostly of the same lines, and there are no     *)
(* more than were asked for.                                                 *)
HitsDisjoint == Disjoint(hits) /\ Len(hits) <= request.k

(* dedup_overlapping drops a candidate only for one that it keeps and that    *)
(* ranks higher: a chain of overlaps does not drop what its survivor does    *)
(* not cover.                                                                *)
DroppedForAKeptOne ==
  at \notin {"idle", "bm25", "vector", "fuse", "boost", "dedup"} =>
    \A i \in 1..Len(fused) :
      \E j \in 1..i : fused[j] \in Range(kept)
                      /\ (j = i \/ Overlaps(fused[i].id, fused[j].id))

Ahead(s, a, b) == a \in Range(s) /\ (b \notin Range(s) \/ RankIn(s, a) < RankIn(s, b))

(* What both rankings put ahead is ahead after fusion, whatever weights the   *)
(* request gives them.                                                       *)
FusionRespectsRankings ==
  at = "dedup" /\ next = 1 /\ ~ request.boost =>
    \A i, j \in 1..Len(fused) :
      Ahead(bm25, fused[i].id, fused[j].id) /\ Ahead(vector, fused[i].id, fused[j].id) => i < j

(* Diversity reorders the candidates, loses and doubles none, and leaves the  *)
(* best one first.                                                           *)
DiversityKeepsBest ==
  /\ selected # <<>> => selected[1] = 1
  /\ at \in {"hydrate", "imports", "exports", "content", "done"} =>
       Range(selected) = 1..Len(kept) /\ Len(selected) = Len(kept)

(* Whatever happens to other files: a candidate of a file that does not       *)
(* change while the search runs is in the answer, or one like it is, unless  *)
(* it was not among the first k; and all parts of its hit are of one         *)
(* version.                                                                  *)
UnchangedFilesAnswered ==
  at = "done" =>
    /\ \A i \in 1..TopK : Ordered(i).id[1] \notin changed =>
         \E h \in Range(hits) :
           h.id = Ordered(i).id \/ <<BodyNow(Ordered(i).id), h.body>> \in Alike
    /\ \A h \in Range(hits) : h.id[1] \notin changed =>
         h.chunk = h.imports /\ h.imports = h.exports /\ h.body = BodyNow(h.id)
=============================================================================
