---------------------------- MODULE SearchProofs ----------------------------
(***************************************************************************)
(* The safety properties of Search, for any files and versions, any        *)
(* request and any number of changes of the index between the statements.  *)
(* One invariant per stage says what the stage has done so far (IInv); the *)
(* properties are what is left of it at the end of the stage.              *)
(***************************************************************************)
EXTENDS Search, FiniteSetTheorems, TLAPS

------------------------------------------------------------------------------
(* Facts about the operators of the stages.                                  *)

LEMMA IdsTyped ==
  ASSUME NEW i \in Ids PROVE i[1] \in Files /\ i[2] \in Nat /\ i[3] \in Nat
  BY SpanAssumption DEF Ids, Id

LEMMA NowAreIds == ASSUME TypeOK PROVE IdsNow \subseteq Ids
  <1>1. SUFFICES ASSUME NEW f \in Files, NEW c \in index[f] PROVE Id(f, c) \in Ids
    BY DEF IdsNow
  <1>2. index[f] \in Versions[f]
    BY DEF TypeOK
  <1>3. c \in UNION Versions[f]
    BY <1>2
  <1>. QED
    BY <1>3 DEF Ids

(* Two spans overlap or not, whichever is asked about first. *)
LEMMA OverlapsSymmetric ==
  ASSUME NEW a \in Ids, NEW b \in Ids, Overlaps(a, b) PROVE Overlaps(b, a)
  <1>1. /\ a[2] \in Nat /\ a[3] \in Nat
        /\ b[2] \in Nat /\ b[3] \in Nat
    BY IdsTyped
  <1>. QED
    BY <1>1 DEF Overlaps, Larger, Smaller

LEMMA RankOfMember ==
  ASSUME NEW S, NEW s \in Seq(S), NEW id \in Range(s)
  PROVE  RankIn(s, id) \in 1..Len(s) /\ s[RankIn(s, id)] = id
  BY DEF Range, RankIn

LEMMA SequenceOverMore ==
  ASSUME NEW S, NEW T, S \subseteq T, NEW s \in Seq(S) PROVE s \in Seq(T)
  OBVIOUS

LEMMA Appended ==
  ASSUME NEW S, NEW s \in Seq(S), NEW e \in S
  PROVE  /\ Append(s, e) \in Seq(S)
         /\ Len(s) \in Nat /\ Len(Append(s, e)) = Len(s) + 1
         /\ \A i \in 1..Len(s) : Append(s, e)[i] = s[i]
         /\ Append(s, e)[Len(s) + 1] = e
  OBVIOUS

LEMMA ShareTyped ==
  ASSUME NEW S, NEW s \in Seq(S), NEW w \in Nat, NEW id
  PROVE  Share(s, w, id) \in Nat
  <1>1. CASE id \in Range(s)
    <2>1. RankIn(s, id) \in Nat /\ RrfK + RankIn(s, id) \in Nat \ {0}
      BY <1>1, RankOfMember, RequestAssumption
    <2>2. Scale \div (RrfK + RankIn(s, id)) \in Nat
      BY SMTT(30), <2>1, RequestAssumption
    <2>. QED
      BY <1>1, <2>2 DEF Share
  <1>2. CASE id \notin Range(s)
    BY <1>2 DEF Share
  <1>. QED
    BY <1>1, <1>2

LEMMA ScoreTyped == ASSUME TypeOK, NEW id PROVE FusedScore(id) \in Nat
  <1>1. Share(bm25, weights[1], id) \in Nat /\ Share(vector, weights[2], id) \in Nat
    BY ShareTyped DEF TypeOK
  <1>. QED
    BY <1>1 DEF FusedScore

LEMMA RangeFinite == ASSUME NEW S, NEW s \in Seq(S) PROVE IsFiniteSet(Range(s))
  <1>1. s \in Surjection(1..Len(s), Range(s))
    BY DEF Surjection, Range
  <1>2. IsFiniteSet(1..Len(s))
    BY FS_Interval
  <1>. QED
    BY <1>1, <1>2, FS_Surjection

(* A row of a finite set is a sequence over it. *)
LEMMA RowsAreSequences ==
  ASSUME NEW S, IsFiniteSet(S), NEW s \in Rows(S)
  PROVE  s \in Seq(S) /\ DOMAIN s = 1..Len(s)
  <1>1. Cardinality(S) \in Nat
    BY FS_CardinalityType
  <1>. QED
    BY <1>1 DEF Rows, Injection

LEMMA RankingsAreSequences ==
  ASSUME NEW S, NEW k \in Nat, NEW s \in Rankings(S, k) PROVE s \in Seq(S)
  BY DEF Rankings, Injection

LEMMA FusedTyped == ASSUME TypeOK, NEW s \in RrfFuseWeighted PROVE s \in Seq(Candidate)
  <1>. DEFINE R == Range(bm25) \cup Range(vector)
              C == {[id |-> i, score |-> FusedScore(i)] : i \in R}
              make == [i \in R |-> [id |-> i, score |-> FusedScore(i)]]
  <1>1. R \subseteq Ids
    BY SMTT(30) DEF TypeOK, Range
  <1>2. IsFiniteSet(R)
    BY RangeFinite, FS_Union DEF TypeOK
  <1>3. make \in Surjection(R, C)
    BY DEF Surjection
  <1>4. IsFiniteSet(C)
    BY <1>2, <1>3, FS_Surjection
  <1>5. C \subseteq Candidate
    BY <1>1, ScoreTyped DEF Candidate
  <1>6. s \in Rows(C)
    BY DEF RrfFuseWeighted
  <1>7. s \in Seq(C)
    BY <1>4, <1>6, RowsAreSequences
  <1>. QED
    BY <1>5, <1>7

LEMMA RerankedTyped ==
  ASSUME TypeOK, NEW files, NEW s \in Reranked(files) PROVE s \in Seq(Candidate)
  <1>. DEFINE C == {Boosted(fused[i], files) : i \in DOMAIN fused}
              make == [i \in DOMAIN fused |-> Boosted(fused[i], files)]
  <1>1. /\ DOMAIN fused = 1..Len(fused) /\ Len(fused) \in Nat
        /\ \A i \in 1..Len(fused) : fused[i] \in Candidate
    BY SMTT(30) DEF TypeOK
  <1>2. IsFiniteSet(DOMAIN fused)
    BY <1>1, FS_Interval
  <1>3. make \in Surjection(DOMAIN fused, C)
    BY DEF Surjection
  <1>4. IsFiniteSet(C)
    BY <1>2, <1>3, FS_Surjection
  <1>5. C \subseteq Candidate
    BY <1>1, RequestAssumption DEF Boosted, Candidate
  <1>6. s \in Rows(C)
    BY DEF Reranked
  <1>7. s \in Seq(C)
    BY <1>4, <1>6, RowsAreSequences
  <1>. QED
    BY <1>5, <1>7

------------------------------------------------------------------------------
(* Types.                                                                    *)

LEMMA IndexInContents == ASSUME TypeOK, NEW f \in Files PROVE index[f] \in Contents
  <1>1. Versions[f] \in {Versions[g] : g \in Files}
    OBVIOUS
  <1>2. index[f] \in Versions[f] \/ index[f] = {}
    BY DEF TypeOK
  <1>3. \A v \in Versions[f] : v \in Contents
    BY <1>1, Zenon DEF Contents
  <1>4. {} \in Contents
    BY DEF Contents
  <1>. QED
    BY <1>2, <1>3, <1>4

LEMMA BodyTyped ==
  ASSUME TypeOK, NEW i \in IdsNow
  PROVE  /\ i \in Ids /\ BodyNow(i) \in Bodies
         /\ index[i[1]] \in Contents /\ i[1] \in Files
  <1>1. PICK f \in Files : \E c \in index[f] : i = Id(f, c)
    BY DEF IdsNow
  <1>2. index[f] \in Contents
    BY IndexInContents
  <1>3. i[1] = f
    BY <1>1 DEF Id
  <1>4. \E d \in index[f] : Id(f, d) = i
    BY <1>1
  <1>5. BodyNow(i) \in Bodies
    BY <1>2, <1>3, <1>4 DEF BodyNow, BodyIn, Bodies
  <1>. QED
    BY <1>2, <1>3, <1>5, NowAreIds

LEMMA InitTyped == Init => TypeOK
  BY RequestAssumption DEF Init, TypeOK, Stages, Contents

LEMMA IndexTyped ==
  ASSUME TypeOK, Index!Next
  PROVE  /\ index' = [f \in Files |-> index'[f]]
         /\ \A f \in Files : index'[f] \in Versions[f] \cup {{}}
  BY DEF TypeOK, Index!Next, Index!Clear, Index!Publish, Index!Drop, Index!Nothing

LEMMA ChangeTyped == ASSUME TypeOK, Change PROVE TypeOK'
  <1>1. /\ index' = [f \in Files |-> index'[f]]
        /\ \A f \in Files : index'[f] \in Versions[f] \cup {{}}
    BY IndexTyped DEF Change
  <1>2. changes' \in 0..MaxChanges
    <2>1. changes \in 0..MaxChanges
      BY DEF TypeOK
    <2>2. changes < MaxChanges /\ changes' = changes + 1 /\ MaxChanges \in Nat
      BY RequestAssumption DEF Change
    <2>. QED
      BY <2>1, <2>2
  <1>4. changed' \subseteq Files
    BY DEF Change, TypeOK
  <1>3. UNCHANGED <<at, request, weights, bm25, vector, fused, kept, remaining, selected, next,
                    hit, hydrated, hits>>
    BY DEF Change, ranking, answer
  <1>. QED
    BY <1>1, <1>2, <1>3, <1>4 DEF TypeOK

LEMMA WeightsTyped == ASSUME NEW r \in Requests PROVE ResolveWeights(r) \in Nat \X Nat
  <1>1. \A w \in Int \cup {NotFinite} : SanitizeWeight(w) \in Nat
    BY DEF SanitizeWeight
  <1>2. ClassifyQueryWeights(r.query) \in Nat \X Nat
    BY DEF ClassifyQueryWeights
  <1>3. /\ r.bm25_weight \in Int \cup {NoWeight, NotFinite}
        /\ r.vector_weight \in Int \cup {NoWeight, NotFinite}
    BY RequestAssumption
  <1>. DEFINE adaptive == IF r.adaptive THEN ClassifyQueryWeights(r.query) ELSE <<1, 1>>
              bm == IF r.bm25_weight = NoWeight THEN adaptive[1] ELSE r.bm25_weight
              ve == IF r.vector_weight = NoWeight THEN adaptive[2] ELSE r.vector_weight
  <1>4. adaptive \in Nat \X Nat
    BY <1>2
  <1>5. bm \in Int \cup {NotFinite} /\ ve \in Int \cup {NotFinite}
    BY <1>3, <1>4
  <1>6. ResolveWeights(r) = <<SanitizeWeight(bm), SanitizeWeight(ve)>>
    BY DEF ResolveWeights
  <1>7. SanitizeWeight(bm) \in Nat /\ SanitizeWeight(ve) \in Nat
    BY <1>1, <1>5
  <1>. QED
    BY <1>6, <1>7

LEMMA RankingTyped ==
  ASSUME TypeOK, SearchCode \/ Bm25Query \/ VectorQuery PROVE TypeOK'
  <1>. USE DEF TypeOK, Stages, ranking, answer
  <1>1. CASE SearchCode
    <2>1. weights' \in Nat \X Nat
      BY <1>1, WeightsTyped DEF SearchCode
    <2>. QED
      BY <1>1, <2>1 DEF SearchCode
  <1>2. CASE Bm25Query
    <2>1. request.k \in Nat
      BY RequestAssumption
    <2>2. bm25' = <<>> \/ bm25' \in Rankings(IdsNow, request.k)
      BY <1>2 DEF Bm25Query
    <2>3. bm25' = <<>> \/ bm25' \in Seq(IdsNow)
      BY <2>1, <2>2, RankingsAreSequences
    <2>4. bm25' \in Seq(Ids)
      <3>1. CASE bm25' = <<>>
        BY <3>1
      <3>2. CASE bm25' \in Seq(IdsNow)
        BY <3>2, NowAreIds, SequenceOverMore
      <3>. QED
        BY <2>3, <3>1, <3>2
    <2>. QED
      BY <1>2, <2>4 DEF Bm25Query
  <1>3. CASE VectorQuery
    <2>1. request.k \in Nat
      BY RequestAssumption
    <2>2. vector' \in Rankings(IdsNow, request.k)
      BY <1>3 DEF VectorQuery
    <2>3. vector' \in Seq(IdsNow)
      BY <2>1, <2>2, RankingsAreSequences
    <2>4. vector' \in Seq(Ids)
      BY <2>3, NowAreIds, SequenceOverMore
    <2>. QED
      BY <1>3, <2>4 DEF VectorQuery
  <1>. QED
    BY <1>1, <1>2, <1>3

LEMMA FusionTyped ==
  ASSUME TypeOK, Fuse \/ ApplyStructuralBoost PROVE TypeOK'
  <1>1. fused' \in Seq(Candidate)
    BY FusedTyped, RerankedTyped DEF Fuse, ApplyStructuralBoost, TypeOK
  <1>. QED
    BY <1>1 DEF Fuse, ApplyStructuralBoost, TypeOK, Stages, ranking, answer

(* What dedup_overlapping does with one candidate. *)
LEMMA DedupStep ==
  ASSUME TypeOK, DedupOverlapping, next <= Len(fused)
  PROVE  /\ fused[next] \in Candidate
         /\ kept' \in Seq(Candidate) /\ Len(kept') >= Len(kept)
         /\ UNCHANGED <<index, changes, changed, request, weights, bm25, vector, fused, vectors,
                        hit, hydrated, hits, at, remaining, selected>>
         /\ next' = next + 1
  <1>1. next \in Nat \ {0} /\ fused \in Seq(Candidate) /\ kept \in Seq(Candidate)
    BY DEF TypeOK
  <1>2. fused[next] \in Candidate
    BY <1>1
  <1>3. ~ (next > Len(fused))
    BY <1>1
  <1>4. kept' = kept \/ kept' = Append(kept, fused[next])
    BY <1>3 DEF DedupOverlapping
  <1>5. kept' \in Seq(Candidate) /\ Len(kept') >= Len(kept)
    BY <1>1, <1>2, <1>4
  <1>. QED
    BY <1>2, <1>3, <1>5 DEF DedupOverlapping, ranking, answer

LEMMA DedupEnd ==
  ASSUME TypeOK, DedupOverlapping, ~ (next <= Len(fused))
  PROVE  /\ EndDedup /\ next > Len(fused)
         /\ UNCHANGED <<index, changes, changed, request, weights, bm25, vector, fused, vectors,
                        hit, hydrated, hits>>
  BY DEF DedupOverlapping, ranking, answer

LEMMA PickingTyped ==
  ASSUME TypeOK, DedupOverlapping \/ LoadEmbeddings \/ MmrRerank PROVE TypeOK'
  <1>1. CASE DedupOverlapping /\ next <= Len(fused)
    <2>1. Len(kept) \in Nat /\ Len(kept') \in Nat
      BY SMTT(30), <1>1, DedupStep DEF TypeOK
    <2>2. 1..Len(kept) \subseteq 1..Len(kept')
      BY <1>1, <2>1, DedupStep
    <2>3. remaining' \subseteq 1..Len(kept')
      BY <1>1, <2>2, DedupStep DEF TypeOK
    <2>4. selected' \in Seq(1..Len(kept'))
      <3>1. selected \in Seq(1..Len(kept))
        BY DEF TypeOK
      <3>2. selected' = selected
        BY <1>1, DedupStep
      <3>. QED
        BY <2>2, <3>1, <3>2, SequenceOverMore
    <2>5. kept' \in Seq(Candidate) /\ next' \in Nat \ {0}
      <3>1. next \in Nat \ {0}
        BY DEF TypeOK
      <3>2. next' = next + 1 /\ kept' \in Seq(Candidate)
        BY <1>1, DedupStep
      <3>. QED
        BY <3>1, <3>2
    <2>6. UNCHANGED <<index, changes, changed, request, weights, bm25, vector, fused, hit,
                      hydrated, hits, at>>
      BY <1>1, DedupStep
    <2>. QED
      BY <2>3, <2>4, <2>5, <2>6 DEF TypeOK
  <1>2. CASE DedupOverlapping /\ ~ (next <= Len(fused))
    <2>1. Len(kept) \in Nat
      BY DEF TypeOK
    <2>2. [i \in 1..Len(kept) |-> i] \in Seq(1..Len(kept)) /\ <<>> \in Seq(1..Len(kept))
      BY <2>1
    <2>3. /\ kept' = kept /\ next' = 1 /\ at' \in {"vectors", "hydrate"}
          /\ remaining' \in {{}, 1..Len(kept)}
          /\ selected' \in {<<>>, [i \in 1..Len(kept) |-> i]}
      BY <1>2, DedupEnd DEF EndDedup
    <2>4. remaining' \subseteq 1..Len(kept') /\ selected' \in Seq(1..Len(kept'))
      BY <2>2, <2>3
    <2>. QED
      BY SMTT(30), <1>2, <2>3, <2>4, DedupEnd DEF TypeOK, Stages
  <1>4. CASE LoadEmbeddings
    BY SMTT(30), <1>4 DEF LoadEmbeddings, TypeOK, Stages, ranking, answer
  <1>3. CASE MmrRerank
    <2>1. CASE remaining = {} /\ at' = "hydrate" /\ UNCHANGED <<selected, remaining>>
      BY <1>3, <2>1 DEF MmrRerank, TypeOK, Stages, ranking, answer
    <2>2. ASSUME NEW p \in remaining, selected' = Append(selected, p),
                 remaining' = remaining \ {p}, UNCHANGED at
          PROVE  TypeOK'
      <3>1. p \in 1..Len(kept)
        BY DEF TypeOK
      <3>2. selected' \in Seq(1..Len(kept)) /\ remaining' \subseteq 1..Len(kept)
        BY <2>2, <3>1 DEF TypeOK
      <3>. QED
        BY <1>3, <2>2, <3>2 DEF MmrRerank, TypeOK, Stages, ranking, answer
    <2>. QED
      BY <1>3, <2>1, <2>2 DEF MmrRerank
  <1>. QED
    BY <1>1, <1>2, <1>4, <1>3

LEMMA OrderedTyped ==
  ASSUME TypeOK, NEW p \in 1..Len(selected)
  PROVE  /\ selected[p] \in 1..Len(kept) /\ Ordered(p) \in Candidate
         /\ Ordered(p).id \in Ids /\ Ordered(p).score \in Nat
  <1>1. selected \in Seq(1..Len(kept)) /\ kept \in Seq(Candidate)
    BY DEF TypeOK
  <1>2. selected[p] \in 1..Len(kept)
    BY <1>1
  <1>3. kept[selected[p]] \in Candidate
    BY <1>1, <1>2
  <1>. QED
    BY <1>2, <1>3 DEF Ordered, Candidate

LEMMA TopKTyped ==
  ASSUME TypeOK PROVE TopK \in Nat /\ TopK <= Len(selected) /\ TopK <= request.k
  <1>1. request.k \in Nat /\ Len(selected) \in Nat
    BY RequestAssumption DEF TypeOK
  <1>. QED
    BY <1>1 DEF TopK, Smaller

LEMMA NextIsSelected ==
  ASSUME TypeOK, next <= TopK PROVE next \in 1..Len(selected)
  <1>1. next \in Nat \ {0} /\ Len(selected) \in Nat
    BY DEF TypeOK
  <1>2. TopK \in Nat /\ TopK <= Len(selected)
    BY TopKTyped
  <1>. QED
    BY <1>1, <1>2

LEMMA ContentTyped == ASSUME TypeOK, DedupContent PROVE hits' \in Seq(Hit)
  <1>1. hydrated \in Seq(Hit) /\ hits \in Seq(Hit) /\ next \in Nat \ {0}
    BY DEF TypeOK
  <1>2. CASE UNCHANGED hits
    BY <1>1, <1>2
  <1>3. CASE next <= Len(hydrated) /\ hits' = Append(hits, hydrated[next])
    <2>1. hydrated[next] \in Hit
      BY <1>1, <1>3
    <2>. QED
      BY <1>1, <1>3, <2>1, Appended
  <1>. QED
    BY <1>2, <1>3 DEF DedupContent

LEMMA AnswerTyped ==
  ASSUME TypeOK, Hydrate \/ LoadImports \/ LoadExports \/ DedupContent PROVE TypeOK'
  <1>. USE DEF TypeOK, Stages, ranking, answer
  <1>1. CASE Hydrate
    <2>1. CASE /\ next <= TopK /\ Ordered(next).id \in IdsNow /\ at' = "imports"
               /\ hit' = [id |-> Ordered(next).id, score |-> Ordered(next).score,
                          body |-> BodyNow(Ordered(next).id),
                          chunk |-> index[Ordered(next).id[1]]]
               /\ next' = next + 1
      <3>1. next \in 1..Len(selected)
        BY <2>1, NextIsSelected
      <3>2. hit' \in [id : Ids, score : Nat, body : Bodies, chunk : Contents]
        BY <2>1, <3>1, OrderedTyped, BodyTyped
      <3>. QED
        BY SMTT(30), <1>1, <2>1, <3>2 DEF Hydrate
    <2>2. CASE at' \in {"hydrate", "content"} /\ UNCHANGED hit /\ next' \in Nat \ {0}
      BY <1>1, <2>2 DEF Hydrate
    <2>. QED
      BY SMTT(30), <1>1, <2>1, <2>2 DEF Hydrate
  <1>2. CASE LoadImports
    <2>1. hit.id \in Ids
      BY <1>2 DEF LoadImports
    <2>2. index[hit.id[1]] \in Contents
      BY <2>1, IdsTyped, IndexInContents
    <2>. QED
      BY <1>2, <2>2 DEF LoadImports
  <1>3. CASE LoadExports
    <2>1. hit.id \in Ids
      BY <1>3 DEF LoadExports
    <2>2. index[hit.id[1]] \in Contents
      BY <2>1, IdsTyped, IndexInContents
    <2>3. hydrated' \in Seq(Hit)
      BY <1>3, <2>2 DEF LoadExports, Hit
    <2>. QED
      BY <1>3, <2>3 DEF LoadExports
  <1>4. CASE DedupContent
    <2>1. hits' \in Seq(Hit)
      BY <1>4, ContentTyped
    <2>. QED
      BY SMTT(30), <1>4, <2>1 DEF DedupContent
  <1>. QED
    BY <1>1, <1>2, <1>3, <1>4

LEMMA StepTyped == ASSUME TypeOK, [Next]_vars PROVE TypeOK'
  <1>1. CASE Next
    BY <1>1, ChangeTyped, RankingTyped, FusionTyped, PickingTyped, AnswerTyped DEF Next
  <1>2. CASE UNCHANGED vars
    BY <1>2 DEF vars, ranking, answer, TypeOK
  <1>. QED
    BY <1>1, <1>2

(* The type invariant (the weights of the request made usable included), for  *)
(* any request a caller may send.                                            *)
THEOREM TypeCorrect == Spec => []TypeOK
  BY InitTyped, StepTyped, PTL DEF Spec
------------------------------------------------------------------------------
(* The invariant, stage by stage.                                            *)

Asking    == {"idle", "bm25", "vector", "fuse", "boost"}
Picking   == {"vectors", "mmr"}
Hydrating == {"hydrate", "imports", "exports"}
Answering == {"content", "done"}

\* What a later stage fills is empty.
NotYet ==
  /\ at \in Asking => kept = <<>> /\ next = 1
  /\ at \in Asking \cup {"dedup"} => selected = <<>> /\ remaining = {}
  /\ at = "vectors" => selected = <<>>
  /\ at = "mmr" => next = 1
  /\ at \in Asking \cup {"dedup"} \cup Picking => hydrated = <<>>
  /\ at \notin Answering => hits = <<>>

Descending(s) == \A i, j \in 1..Len(s) : i < j => s[i].score >= s[j].score

\* The candidates in the order of their scores, as they were fused.
Fusion ==
  /\ at \notin Asking \/ at = "boost" => Descending(fused)
  /\ at = "boost" => request.boost
  /\ at = "dedup" /\ ~ request.boost => fused \in RrfFuseWeighted

CoveredBy(i, j) == fused[j] \in Range(kept) /\ (j = i \/ Overlaps(fused[i].id, fused[j].id))

\* Where dedup_overlapping is in the candidates.
Seen == IF at = "dedup" THEN next - 1 ELSE Len(fused)

Survivors ==
  /\ Disjoint(kept)
  /\ Descending(kept)
  /\ \A m \in 1..Len(kept) : \E j \in 1..Len(fused) : j <= Seen /\ kept[m] = fused[j]

Coverage ==
  at \notin Asking =>
    Seen \in 0..Len(fused) /\ \A i \in 1..Seen : \E j \in 1..i : CoveredBy(i, j)

\* Each survivor is selected or waits for it.
Selection ==
  at \notin Asking \cup {"dedup"} =>
    /\ IsInjective(selected)
    /\ \A i \in 1..Len(selected) : selected[i] \notin remaining
    /\ \A p \in 1..Len(kept) : p \in remaining \/ \E i \in 1..Len(selected) : selected[i] = p
    /\ selected # <<>> => selected[1] = 1
    /\ at \notin Picking => remaining = {}

\* The places of the order whose hits are complete.
Done ==
  CASE at = "hydrate" -> next - 1
    [] at \in {"imports", "exports"} -> next - 2
    [] OTHER -> TopK

Hydration ==
  /\ at \in Hydrating => Done \in 0..TopK /\ next - 1 \in 0..TopK
  /\ at \in {"imports", "exports"} => hit.id = Ordered(next - 1).id
  /\ at \in Hydrating \cup Answering =>
       /\ Len(hydrated) <= Done
       /\ \A i \in 1..Len(hydrated) : \E p \in 1..Done : hydrated[i].id = Ordered(p).id
  /\ Disjoint(hydrated)

Answer ==
  at \in Answering =>
    /\ next - 1 \in 0..Len(hydrated)
    /\ at = "done" => next - 1 = Len(hydrated)
    /\ Disjoint(hits)
    /\ Len(hits) < next
    /\ \A i \in 1..Len(hits) : \E j \in 1..next - 1 : hits[i] = hydrated[j]
    /\ \A j \in 1..next - 1 : \E i \in 1..Len(hits) :
         hits[i] = hydrated[j] \/ <<hydrated[j].body, hits[i].body>> \in Alike

There(i) == i[1] \notin changed => i \in IdsNow

\* What was read of the files that have not changed is still so.
Unchanged ==
  /\ \A i \in Range(bm25) \cup Range(vector) : There(i)
  /\ \A j \in 1..Len(fused) : There(fused[j].id)

Current(h) == h.body = BodyNow(h.id) /\ h.chunk = index[h.id[1]]

UnchangedHits ==
  /\ at \in {"imports", "exports"} /\ hit.id[1] \notin changed => Current(hit)
  /\ at = "exports" /\ hit.id[1] \notin changed => hit.imports = hit.chunk
  /\ \A i \in 1..Len(hydrated) : hydrated[i].id[1] \notin changed =>
       /\ Current(hydrated[i])
       /\ hydrated[i].imports = hydrated[i].chunk /\ hydrated[i].exports = hydrated[i].chunk
  /\ at \in Hydrating \cup Answering =>
       \A p \in 1..Done : Ordered(p).id[1] \notin changed =>
         \E i \in 1..Len(hydrated) : hydrated[i].id = Ordered(p).id

------------------------------------------------------------------------------
(* Each part is preserved.                                                   *)

LEMMA ChangeFrame ==
  ASSUME Change
  PROVE  UNCHANGED <<at, request, weights, bm25, vector, fused, kept, vectors, remaining,
                     selected, next, hit, hydrated, hits>>
  BY DEF Change, ranking, answer

LEMMA StutterFrame ==
  ASSUME UNCHANGED vars
  PROVE  UNCHANGED <<index, changes, changed, at, request, weights, bm25, vector, fused, kept,
                     vectors, remaining, selected, next, hit, hydrated, hits>>
  BY DEF vars, ranking, answer

LEMMA NotYetKept == ASSUME TypeOK, NotYet, [Next]_vars PROVE NotYet'
  <1>. USE DEF NotYet, Asking, Picking, Hydrating, Answering, ranking, answer
  <1>1. CASE Change \/ UNCHANGED vars
    BY <1>1, ChangeFrame, StutterFrame
  <1>2. CASE SearchCode \/ Bm25Query \/ VectorQuery \/ Fuse \/ ApplyStructuralBoost
    BY <1>2 DEF SearchCode, Bm25Query, VectorQuery, Fuse, ApplyStructuralBoost
  <1>3. CASE DedupOverlapping
    <2>1. CASE next <= Len(fused)
      BY <1>3, <2>1, DedupStep DEF DedupOverlapping
    <2>2. CASE ~ (next <= Len(fused))
      BY <1>3, <2>2, DedupEnd DEF DedupOverlapping, EndDedup
    <2>. QED
      BY <2>1, <2>2
  <1>4. CASE LoadEmbeddings \/ MmrRerank
    BY <1>4 DEF LoadEmbeddings, MmrRerank
  <1>5. CASE Hydrate \/ LoadImports \/ LoadExports \/ DedupContent
    BY <1>5 DEF Hydrate, LoadImports, LoadExports, DedupContent
  <1>. QED
    BY <1>1, <1>2, <1>3, <1>4, <1>5 DEF Next

LEMMA CandidatesTyped ==
  ASSUME NEW s \in Seq(Candidate)
  PROVE  /\ DOMAIN s = 1..Len(s)
         /\ \A i \in 1..Len(s) : s[i] \in Candidate /\ s[i].score \in Nat /\ s[i].id \in Ids
  <1>1. \A i \in 1..Len(s) : s[i] \in Candidate
    OBVIOUS
  <1>. QED
    BY <1>1 DEF Candidate

LEMMA FusedDescending ==
  ASSUME TypeOK, NEW s \in RrfFuseWeighted PROVE Descending(s)
  <1>1. s \in Seq(Candidate)
    BY FusedTyped
  <1>2. DOMAIN s = 1..Len(s) /\ \A i \in 1..Len(s) : s[i].score \in Nat
    BY <1>1, CandidatesTyped
  <1>3. \A i, j \in DOMAIN s : i < j => FusedBefore(s[i], s[j])
    BY DEF RrfFuseWeighted
  <1>. QED
    BY <1>2, <1>3 DEF FusedBefore, Descending

LEMMA RerankedDescending ==
  ASSUME TypeOK, NEW files, NEW s \in Reranked(files) PROVE Descending(s)
  <1>1. s \in Seq(Candidate)
    BY RerankedTyped
  <1>2. DOMAIN s = 1..Len(s) /\ \A i \in 1..Len(s) : s[i].score \in Nat
    BY <1>1, CandidatesTyped
  <1>3. \A i, j \in DOMAIN s : i < j => BoostedBefore(s[i], s[j])
    BY DEF Reranked
  <1>. QED
    BY <1>2, <1>3 DEF BoostedBefore, Descending

LEMMA SameFusion ==
  ASSUME UNCHANGED <<bm25, vector, weights>> PROVE RrfFuseWeighted' = RrfFuseWeighted
  BY DEF RrfFuseWeighted, Rows, FusedScore, FusedBefore, Bm25Rank, Share, RankIn, IdBefore

LEMMA FusionKept == ASSUME TypeOK, Fusion, [Next]_vars PROVE Fusion'
  <1>1. CASE Fuse
    <2>1. /\ fused' \in RrfFuseWeighted /\ UNCHANGED <<bm25, vector, weights, request>>
          /\ at' = IF request.boost THEN "boost" ELSE "dedup"
      BY <1>1 DEF Fuse, ranking
    <2>2. Descending(fused')
      BY <2>1, FusedDescending
    <2>3. fused' \in RrfFuseWeighted'
      BY <2>1, SameFusion
    <2>. QED
      BY <2>1, <2>2, <2>3 DEF Fusion, Descending
  <1>2. CASE ApplyStructuralBoost
    <2>1. Descending(fused) /\ at' = "dedup"
      BY <1>2 DEF ApplyStructuralBoost, Fusion, Asking
    <2>2. fused' = fused \/ \E files : fused' \in Reranked(files)
      BY <1>2 DEF ApplyStructuralBoost
    <2>3. Descending(fused)'
      BY <2>1, <2>2, RerankedDescending DEF Descending
    <2>4. request.boost /\ UNCHANGED request /\ at' = "dedup"
      BY <1>2 DEF ApplyStructuralBoost, Fusion
    <2>. QED
      BY <2>3, <2>4 DEF Fusion
  <1>3. CASE SearchCode \/ Bm25Query \/ VectorQuery
    BY <1>3 DEF SearchCode, Bm25Query, VectorQuery, Fusion, Asking
  <1>4. CASE ~ (Fuse \/ ApplyStructuralBoost \/ SearchCode \/ Bm25Query \/ VectorQuery)
    <2>1. UNCHANGED <<bm25, vector, weights, fused, request>>
      BY <1>4, ChangeFrame, StutterFrame
         DEF Next, DedupOverlapping, LoadEmbeddings, MmrRerank, Hydrate, LoadImports, LoadExports,
             DedupContent, ranking
    <2>2. at' = at \/ (at \notin Asking /\ at' \notin Asking \cup {"dedup"})
      BY <1>4, ChangeFrame, StutterFrame
         DEF Next, DedupOverlapping, EndDedup, LoadEmbeddings, MmrRerank, Hydrate, LoadImports,
             LoadExports, DedupContent, Asking
    <2>3. RrfFuseWeighted' = RrfFuseWeighted
      BY <2>1, SameFusion
    <2>4. CASE at' = at
      BY <2>1, <2>3, <2>4 DEF Fusion, Descending
    <2>5. CASE at \notin Asking /\ at' \notin Asking \cup {"dedup"}
      BY <2>1, <2>5 DEF Fusion, Descending, Asking
    <2>. QED
      BY <2>2, <2>4, <2>5
  <1>. QED
    BY <1>1, <1>2, <1>3, <1>4

\* The steps before dedup_overlapping, those after it, and those of others.
Early == SearchCode \/ Bm25Query \/ VectorQuery \/ Fuse \/ ApplyStructuralBoost
Later == LoadEmbeddings \/ MmrRerank \/ Hydrate \/ LoadImports \/ LoadExports \/ DedupContent
Aside == Change \/ UNCHANGED vars

LEMMA StepCases == ASSUME [Next]_vars PROVE Early \/ DedupOverlapping \/ Later \/ Aside
  BY DEF Next, Early, Later, Aside

LEMMA EarlyFrame ==
  ASSUME NotYet, Early
  PROVE  /\ at \in Asking /\ at' \in Asking \cup {"dedup"}
         /\ kept = <<>> /\ kept' = <<>> /\ next' = 1
         /\ selected' = <<>> /\ remaining' = {} /\ hydrated' = <<>> /\ hits' = <<>>
         /\ UNCHANGED <<index, changed, request>>
  BY DEF Early, NotYet, Asking, Picking, Answering, SearchCode, Bm25Query, VectorQuery, Fuse,
         ApplyStructuralBoost, answer

LEMMA LaterFrame ==
  ASSUME Later
  PROVE  /\ at \notin Asking \cup {"dedup"} /\ at' \notin Asking \cup {"dedup"}
         /\ UNCHANGED <<index, changed, request, bm25, vector, fused, kept>>
  BY DEF Later, Asking, LoadEmbeddings, MmrRerank, Hydrate, LoadImports, LoadExports,
         DedupContent, ranking

LEMMA AsideFrame ==
  ASSUME Aside
  PROVE  UNCHANGED <<at, request, weights, bm25, vector, fused, kept, vectors, remaining,
                     selected, next, hit, hydrated, hits>>
  BY ChangeFrame, StutterFrame DEF Aside

LEMMA DedupPlace ==
  ASSUME TypeOK, DedupOverlapping, next <= Len(fused)
  PROVE  /\ at = "dedup" /\ at' = "dedup" /\ fused' = fused /\ next' = next + 1
        /\ next \in Nat \ {0} /\ Seen = next - 1 /\ Seen' = next
        /\ fused[next] \in Candidate /\ kept \in Seq(Candidate) /\ fused \in Seq(Candidate)
  <1>1. /\ at = "dedup" /\ at' = at /\ fused' = fused /\ next' = next + 1
        /\ next \in Nat \ {0} /\ fused[next] \in Candidate
        /\ kept \in Seq(Candidate) /\ fused \in Seq(Candidate)
    BY DedupStep DEF DedupOverlapping, TypeOK
  <1>2. Seen = next - 1 /\ Seen' = next' - 1
    BY <1>1 DEF Seen
  <1>. QED
    BY <1>1, <1>2

LEMMA DedupTakes ==
  ASSUME TypeOK, DedupOverlapping, next <= Len(fused)
  PROVE  \/ /\ kept' = kept
            /\ \E m \in 1..Len(kept) : Overlaps(fused[next].id, kept[m].id)
         \/ /\ kept' = Append(kept, fused[next])
            /\ \A m \in 1..Len(kept) : ~ Overlaps(fused[next].id, kept[m].id)
  <1>1. ~ (next > Len(fused))
    BY DEF TypeOK
  <1>. QED
    BY <1>1 DEF DedupOverlapping

LEMMA AppendDisjoint ==
  ASSUME NEW s, s \in Seq(Candidate) \/ s \in Seq(Hit), Disjoint(s),
         NEW e, e.id \in Ids, \A m \in 1..Len(s) : s[m].id \in Ids /\ ~ Overlaps(e.id, s[m].id)
  PROVE  Disjoint(Append(s, e))
  <1>1. SUFFICES ASSUME NEW i \in 1..Len(Append(s, e)), NEW j \in 1..Len(Append(s, e)), i # j
                 PROVE  ~ Overlaps(Append(s, e)[i].id, Append(s, e)[j].id)
    BY DEF Disjoint
  <1>2. /\ Len(s) \in Nat /\ Len(Append(s, e)) = Len(s) + 1
        /\ \A k \in 1..Len(s) : Append(s, e)[k] = s[k]
        /\ Append(s, e)[Len(s) + 1] = e
    OBVIOUS
  <1>3. CASE i \in 1..Len(s) /\ j \in 1..Len(s)
    BY <1>1, <1>2, <1>3 DEF Disjoint
  <1>4. CASE i = Len(s) + 1 /\ j \in 1..Len(s)
    BY <1>2, <1>4
  <1>5. CASE i \in 1..Len(s) /\ j = Len(s) + 1
    BY <1>2, <1>5, OverlapsSymmetric
  <1>. QED
    BY <1>1, <1>2, <1>3, <1>4, <1>5

LEMMA SurvivorsOfOne ==
  ASSUME TypeOK, Fusion, Survivors, Coverage, DedupOverlapping, next <= Len(fused)
  PROVE  Survivors'
  <1>1. /\ at = "dedup" /\ at' = "dedup" /\ fused' = fused /\ next' = next + 1
        /\ next \in Nat \ {0} /\ Seen = next - 1 /\ Seen' = next
        /\ fused[next] \in Candidate /\ kept \in Seq(Candidate) /\ fused \in Seq(Candidate)
    BY DedupPlace
  <1>2. \A m \in 1..Len(kept) : kept[m].id \in Ids /\ kept[m].score \in Nat
    BY <1>1, CandidatesTyped
  <1>3. CASE kept' = kept
    BY <1>1, <1>3 DEF Survivors, Disjoint, Descending
  <1>4. CASE /\ kept' = Append(kept, fused[next])
             /\ \A m \in 1..Len(kept) : ~ Overlaps(fused[next].id, kept[m].id)
    <2>1. Disjoint(kept')
      BY <1>1, <1>2, <1>4, AppendDisjoint DEF Survivors, Candidate
    <2>2. /\ Len(kept) \in Nat /\ Len(kept') = Len(kept) + 1
          /\ \A i \in 1..Len(kept) : kept'[i] = kept[i]
          /\ kept'[Len(kept) + 1] = fused[next]
      BY <1>1, <1>4, Appended
    <2>3. \A m \in 1..Len(kept) : kept[m].score >= fused[next].score
      <3>1. SUFFICES ASSUME NEW m \in 1..Len(kept) PROVE kept[m].score >= fused[next].score
        OBVIOUS
      <3>2. PICK j \in 1..Len(fused) : j <= Seen /\ kept[m] = fused[j]
        BY DEF Survivors
      <3>3. j < next /\ next \in 1..Len(fused)
        BY <1>1, <3>2
      <3>. QED
        BY <1>1, <3>2, <3>3 DEF Fusion, Descending, Asking
    <2>4. Descending(kept')
      <3>1. SUFFICES ASSUME NEW i \in 1..Len(kept'), NEW j \in 1..Len(kept'), i < j
                     PROVE  kept'[i].score >= kept'[j].score
        BY DEF Descending
      <3>2. i \in 1..Len(kept)
        BY <2>2, <3>1
      <3>3. CASE j \in 1..Len(kept)
        BY <2>2, <3>1, <3>2, <3>3 DEF Survivors, Descending
      <3>4. CASE j = Len(kept) + 1
        BY <2>2, <2>3, <3>2, <3>4
      <3>. QED
        BY <2>2, <3>3, <3>4
    <2>5. \A m \in 1..Len(kept') : \E j \in 1..Len(fused) : j <= next /\ kept'[m] = fused[j]
      <3>1. SUFFICES ASSUME NEW m \in 1..Len(kept')
                     PROVE  \E j \in 1..Len(fused) : j <= next /\ kept'[m] = fused[j]
        OBVIOUS
      <3>2. CASE m \in 1..Len(kept)
        <4>1. PICK j \in 1..Len(fused) : j <= Seen /\ kept[m] = fused[j]
          BY <3>2 DEF Survivors
        <4>. QED
          BY <1>1, <2>2, <3>2, <4>1
      <3>3. CASE m = Len(kept) + 1
        <4>1. next \in 1..Len(fused)
          BY <1>1
        <4>. QED
          BY <1>1, <2>2, <3>3, <4>1
      <3>. QED
        BY <2>2, <3>2, <3>3
    <2>. QED
      BY <1>1, <2>1, <2>4, <2>5 DEF Survivors, Disjoint, Descending
  <1>. QED
    BY <1>3, <1>4, DedupTakes

(* At the end of the candidates all have been seen. *)
LEMMA SeenAll ==
  ASSUME TypeOK, Coverage, DedupOverlapping, ~ (next <= Len(fused))
  PROVE  /\ Seen = Len(fused) /\ Seen' = Seen
         /\ at = "dedup" /\ at' \in {"vectors", "hydrate"}
         /\ UNCHANGED <<index, changed, fused, kept, request, bm25, vector>>
  <1>1. /\ at = "dedup" /\ at' \in {"vectors", "hydrate"} /\ next \in Nat
        /\ UNCHANGED <<index, changed, fused, kept, request, bm25, vector>>
    BY DedupEnd DEF DedupOverlapping, EndDedup, TypeOK
  <1>2. Seen = next - 1 /\ Seen \in 0..Len(fused) /\ Seen' = Len(fused)
    BY <1>1 DEF Seen, Coverage, Asking
  <1>3. Len(fused) \in Nat
    BY DEF TypeOK
  <1>. QED
    BY <1>1, <1>2, <1>3

LEMMA SurvivorsKept ==
  ASSUME TypeOK, NotYet, Fusion, Survivors, Coverage, [Next]_vars PROVE Survivors'
  <1>. USE DEF Survivors, Disjoint, Descending
  <1>1. CASE Early
    BY <1>1, EarlyFrame
  <1>2. CASE DedupOverlapping /\ next <= Len(fused)
    BY <1>2, SurvivorsOfOne
  <1>3. CASE DedupOverlapping /\ ~ (next <= Len(fused))
    BY <1>3, SeenAll
  <1>4. CASE Later
    BY <1>4, LaterFrame DEF Seen, Asking
  <1>5. CASE Aside
    BY <1>5, AsideFrame DEF Seen
  <1>. QED
    BY <1>1, <1>2, <1>3, <1>4, <1>5, StepCases

LEMMA CoverageOfOne ==
  ASSUME TypeOK, Survivors, Coverage, DedupOverlapping, next <= Len(fused) PROVE Coverage'
  <1>1. /\ at = "dedup" /\ at' = "dedup" /\ fused' = fused /\ next' = next + 1
        /\ next \in Nat \ {0} /\ Seen = next - 1 /\ Seen' = next
        /\ fused[next] \in Candidate /\ kept \in Seq(Candidate) /\ fused \in Seq(Candidate)
    BY DedupPlace
  <1>2. next \in 1..Len(fused)
    BY <1>1
  <1>3. ASSUME NEW m \in 1..Len(kept) PROVE kept[m] \in Range(kept')
    <2>1. CASE kept' = kept
      BY <1>1, <1>3, <2>1 DEF Range
    <2>2. CASE kept' = Append(kept, fused[next])
      <3>1. m \in 1..Len(kept') /\ kept'[m] = kept[m] /\ DOMAIN kept' = 1..Len(kept')
        BY <1>1, <1>3, <2>2, Appended
      <3>. QED
        BY <3>1 DEF Range
    <2>. QED
      BY <2>1, <2>2, DedupTakes
  <1>4. Range(kept) \subseteq Range(kept')
    BY <1>1, <1>3 DEF Range
  <1>5. SUFFICES ASSUME NEW i \in 1..next PROVE \E j \in 1..i : CoveredBy(i, j)'
    BY <1>1, <1>2 DEF Coverage
  <1>6. CASE i < next
    <2>1. PICK j \in 1..i : CoveredBy(i, j)
      BY <1>1, <1>6 DEF Coverage, Asking
    <2>2. CoveredBy(i, j)'
      BY <1>1, <1>4, <2>1 DEF CoveredBy, Overlaps, Larger, Smaller
    <2>. QED
      BY <2>2
  <1>7. CASE i = next /\ kept' = Append(kept, fused[next])
    <2>1. fused[next] \in Range(kept')
      BY SMTT(30), <1>1, <1>7, Appended DEF Range
    <2>. QED
      BY <1>1, <1>7, <2>1 DEF CoveredBy
  <1>8. ASSUME i = next, NEW m \in 1..Len(kept), Overlaps(fused[next].id, kept[m].id)
        PROVE  \E j \in 1..i : CoveredBy(i, j)'
    <2>1. PICK j \in 1..Len(fused) : j <= Seen /\ kept[m] = fused[j]
      BY DEF Survivors
    <2>2. fused[j] \in Range(kept')
      BY <1>3, <2>1
    <2>3. j \in 1..i
      BY <1>1, <1>8, <2>1
    <2>4. CoveredBy(i, j)'
      BY <1>1, <1>8, <2>1, <2>2 DEF CoveredBy, Overlaps, Larger, Smaller
    <2>. QED
      BY <2>3, <2>4
  <1>. QED
    BY <1>1, <1>6, <1>7, <1>8, DedupTakes

LEMMA CoverageKept ==
  ASSUME TypeOK, NotYet, Survivors, Coverage, [Next]_vars PROVE Coverage'
  <1>1. CASE Early
    <2>1. next' = 1 /\ at' \in Asking \cup {"dedup"}
      BY <1>1, EarlyFrame
    <2>2. Len(fused') \in Nat
      BY StepTyped DEF TypeOK
    <2>3. CASE at' = "dedup"
      <3>1. Seen' = 0
        BY <2>1, <2>3 DEF Seen
      <3>. QED
        BY <2>2, <3>1 DEF Coverage
    <2>. QED
      BY <2>1, <2>3 DEF Coverage
  <1>2. CASE DedupOverlapping /\ next <= Len(fused)
    BY <1>2, CoverageOfOne
  <1>3. CASE DedupOverlapping /\ ~ (next <= Len(fused))
    BY <1>3, SeenAll DEF Coverage, CoveredBy, Overlaps, Asking
  <1>4. CASE Later
    BY <1>4, LaterFrame DEF Coverage, CoveredBy, Overlaps, Seen, Asking
  <1>5. CASE Aside
    BY <1>5, AsideFrame DEF Coverage, CoveredBy, Overlaps, Seen
  <1>. QED
    BY <1>1, <1>2, <1>3, <1>4, <1>5, StepCases

LEMMA TimesMonotone ==
  ASSUME NEW k \in Nat, NEW a \in Int, NEW b \in Int, a >= b PROVE k * a >= k * b
  OBVIOUS

LEMMA NothingSimilar == ASSUME selected = <<>>, NEW p PROVE MaxSimilarity(p) = 0
  <1>. DEFINE sims == {Similarity(p, selected[i]) : i \in 1..Len(selected)} \cup {0}
  <1>1. sims = {0}
    OBVIOUS
  <1>. QED
    BY <1>1 DEF MaxSimilarity

(* With nothing selected the first candidate has the best value. *)
LEMMA FirstIsBest ==
  ASSUME TypeOK, Survivors, selected = <<>>, NEW p \in 1..Len(kept)
  PROVE  Mmr(1) \in Int /\ Mmr(p) \in Int /\ Mmr(1) >= Mmr(p)
  <1>. DEFINE scores == {kept[i].score : i \in 1..Len(kept)}
              n      == Len(kept)
              min    == CHOOSE m \in scores : \A s \in scores : m <= s
              max    == CHOOSE m \in scores : \A s \in scores : m >= s
  <1>1. n \in Nat /\ 1 \in 1..n /\ n \in 1..n /\ \A i \in 1..n : kept[i].score \in Nat
    BY CandidatesTyped DEF TypeOK
  <1>2. \A i \in 1..n : kept[1].score >= kept[i].score /\ kept[i].score >= kept[n].score
    <2>1. SUFFICES ASSUME NEW i \in 1..n
                   PROVE  kept[1].score >= kept[i].score /\ kept[i].score >= kept[n].score
      OBVIOUS
    <2>2. i = 1 \/ 1 < i
      BY <1>1
    <2>3. i = n \/ i < n
      BY <1>1
    <2>. QED
      BY <1>1, <2>2, <2>3 DEF Survivors, Descending
  <1>3. max = kept[1].score
    <2>1. kept[1].score \in scores /\ \A s \in scores : kept[1].score >= s
      BY <1>1, <1>2
    <2>2. max \in scores /\ \A s \in scores : max >= s
      BY <2>1
    <2>3. \A s \in scores : s \in Nat
      BY <1>1
    <2>. QED
      BY SMTT(30), <2>1, <2>2, <2>3
  <1>4. min = kept[n].score
    <2>1. kept[n].score \in scores /\ \A s \in scores : kept[n].score <= s
      BY <1>1, <1>2
    <2>2. min \in scores /\ \A s \in scores : min <= s
      BY <2>1
    <2>3. \A s \in scores : s \in Nat
      BY <1>1
    <2>. QED
      BY <2>1, <2>2, <2>3
  <1>5. \A q \in 1..n : Mmr(q) = IF max > min
                                 THEN 7 * SimUnit * (kept[q].score - min)
                                        - 3 * MaxSimilarity(q) * (max - min)
                                 ELSE 7 * SimUnit - 3 * MaxSimilarity(q)
    BY DEF Mmr
  <1>. HIDE DEF scores, min, max
  <1>6. \A q \in 1..n : MaxSimilarity(q) = 0
    BY NothingSimilar
  <1>7. SimUnit \in Nat /\ 7 * SimUnit \in Nat
    BY RequestAssumption
  <1>8. min \in Nat /\ max \in Nat
    BY <1>1, <1>3, <1>4
  <1>9. \A q \in 1..n : 3 * MaxSimilarity(q) * (max - min) = 0 /\ 3 * MaxSimilarity(q) = 0
    BY <1>6, <1>8
  <1>10. CASE max > min
    <2>1. \A q \in 1..n : Mmr(q) = (7 * SimUnit) * (kept[q].score - min)
      <3>1. SUFFICES ASSUME NEW q \in 1..n
                     PROVE  Mmr(q) = (7 * SimUnit) * (kept[q].score - min)
        OBVIOUS
      <3>2. (7 * SimUnit) * (kept[q].score - min) \in Int
        BY <1>1, <1>7, <1>8
      <3>. QED
        BY <1>5, <1>9, <1>10, <3>2
    <2>2. /\ kept[1].score - min \in Int /\ kept[p].score - min \in Int
          /\ kept[1].score - min >= kept[p].score - min
      BY <1>1, <1>2, <1>8
    <2>3. (7 * SimUnit) * (kept[1].score - min) >= (7 * SimUnit) * (kept[p].score - min)
      BY <1>7, <2>2, TimesMonotone
    <2>. QED
      BY <1>1, <1>7, <2>1, <2>2, <2>3
  <1>11. CASE ~ (max > min)
    <2>1. \A q \in 1..n : Mmr(q) = 7 * SimUnit
      BY <1>5, <1>7, <1>9, <1>11
    <2>. QED
      BY <1>1, <1>7, <2>1
  <1>. QED
    BY <1>10, <1>11

LEMMA SelectionOfOne ==
  ASSUME TypeOK, Survivors, Selection, at = "mmr", NEW p \in remaining, MmrBest(p),
         selected' = Append(selected, p), remaining' = remaining \ {p}, UNCHANGED <<at, kept>>
  PROVE  Selection'
  <1>. DEFINE n == Len(selected)
  <1>1. /\ selected \in Seq(1..Len(kept)) /\ remaining \subseteq 1..Len(kept)
        /\ n \in Nat /\ p \in 1..Len(kept)
    BY SMTT(30) DEF TypeOK
  <1>2. /\ Len(selected') = n + 1 /\ DOMAIN selected' = 1..n + 1 /\ DOMAIN selected = 1..n
        /\ \A i \in 1..n : selected'[i] = selected[i]
        /\ selected'[n + 1] = p
    BY <1>1, Appended
  <1>3. /\ \A i, j \in 1..n : selected[i] = selected[j] => i = j
        /\ \A i \in 1..n : selected[i] \notin remaining
        /\ \A q \in 1..Len(kept) : q \in remaining \/ \E i \in 1..n : selected[i] = q
        /\ selected # <<>> => selected[1] = 1
    BY <1>2 DEF Selection, Asking, IsInjective
  <1>4. IsInjective(selected')
    <2>1. SUFFICES ASSUME NEW i \in 1..n + 1, NEW j \in 1..n + 1, selected'[i] = selected'[j]
                   PROVE  i = j
      BY <1>2 DEF IsInjective
    <2>2. CASE i \in 1..n /\ j \in 1..n
      BY <1>2, <1>3, <2>1, <2>2
    <2>3. CASE i = n + 1 /\ j \in 1..n
      BY <1>2, <1>3, <2>1, <2>3
    <2>4. CASE i \in 1..n /\ j = n + 1
      BY <1>2, <1>3, <2>1, <2>4
    <2>. QED
      BY <1>1, <2>1, <2>2, <2>3, <2>4
  <1>5. \A i \in 1..n + 1 : selected'[i] \notin remaining'
    <2>1. SUFFICES ASSUME NEW i \in 1..n + 1 PROVE selected'[i] \notin remaining \ {p}
      OBVIOUS
    <2>2. CASE i \in 1..n
      BY <1>2, <1>3, <2>2
    <2>3. CASE i = n + 1
      BY <1>2, <2>3
    <2>. QED
      BY <1>1, <2>2, <2>3
  <1>6. \A q \in 1..Len(kept) : q \in remaining' \/ \E i \in 1..n + 1 : selected'[i] = q
    <2>1. SUFFICES ASSUME NEW q \in 1..Len(kept), q \notin remaining \ {p}
                   PROVE  \E i \in 1..n + 1 : selected'[i] = q
      OBVIOUS
    <2>2. CASE q = p
      BY <1>1, <1>2, <2>2
    <2>3. CASE q # p
      <3>1. PICK i \in 1..n : selected[i] = q
        BY <1>3, <2>1, <2>3
      <3>. QED
        BY <1>1, <1>2, <3>1
    <2>. QED
      BY <2>2, <2>3
  <1>7. selected'[1] = 1
    <2>1. CASE selected = <<>>
      <3>1. n = 0 /\ 1 \in remaining
        BY <1>1, <1>3, <2>1
      <3>2. Mmr(1) < Mmr(p) \/ (Mmr(1) = Mmr(p) /\ p <= 1)
        BY <3>1 DEF MmrBest
      <3>3. Mmr(1) \in Int /\ Mmr(p) \in Int /\ Mmr(1) >= Mmr(p)
        BY <1>1, <2>1, FirstIsBest
      <3>4. p = 1
        BY <1>1, <3>2, <3>3
      <3>. QED
        BY <1>2, <3>1, <3>4
    <2>2. CASE selected # <<>>
      <3>1. 1 \in 1..n
        BY <1>1, <2>2
      <3>. QED
        BY <1>2, <1>3, <2>2, <3>1
    <2>. QED
      BY <2>1, <2>2
  <1>. QED
    BY <1>2, <1>4, <1>5, <1>6, <1>7 DEF Selection, Picking

LEMMA SelectionKept ==
  ASSUME TypeOK, NotYet, Survivors, Selection, [Next]_vars PROVE Selection'
  <1>1. CASE Early
    BY <1>1, EarlyFrame DEF Selection
  <1>2. CASE DedupOverlapping /\ next <= Len(fused)
    BY <1>2, DedupPlace DEF Selection
  <1>3. CASE DedupOverlapping /\ ~ (next <= Len(fused))
    <2>1. EndDedup /\ Len(kept) \in Nat
      BY <1>3, DedupEnd DEF TypeOK
    <2>2. CASE request.diversify
      <3>1. selected' = <<>> /\ remaining' = 1..Len(kept) /\ kept' = kept /\ at' = "vectors"
        BY <2>1, <2>2 DEF EndDedup
      <3>. QED
        BY <3>1 DEF Selection, IsInjective, Picking
    <2>3. CASE ~ request.diversify
      <3>1. /\ selected' = [i \in 1..Len(kept) |-> i] /\ remaining' = {} /\ kept' = kept
            /\ Len(selected') = Len(kept)
        BY <2>1, <2>3 DEF EndDedup
      <3>2. IsInjective(selected')
        BY <3>1 DEF IsInjective
      <3>3. \A p \in 1..Len(kept) : \E i \in 1..Len(selected') : selected'[i] = p
        BY <3>1
      <3>4. selected' # <<>> => selected'[1] = 1
        BY <2>1, <3>1
      <3>. QED
        BY <3>1, <3>2, <3>3, <3>4 DEF Selection
    <2>. QED
      BY <2>2, <2>3
  <1>4. CASE MmrRerank
    <2>1. at = "mmr" /\ UNCHANGED kept
      BY <1>4 DEF MmrRerank
    <2>2. CASE remaining = {} /\ at' = "hydrate" /\ UNCHANGED <<selected, remaining>>
      BY <2>1, <2>2 DEF Selection, Asking
    <2>. QED
      BY <1>4, <2>1, <2>2, SelectionOfOne DEF MmrRerank
  <1>5. CASE Later /\ ~ MmrRerank
    <2>1. /\ at \notin Asking \cup {"dedup"} /\ UNCHANGED <<kept, selected, remaining>>
          /\ at' \in Picking => at \in Picking
      BY <1>5, LaterFrame
         DEF Later, Picking, LoadEmbeddings, Hydrate, LoadImports, LoadExports, DedupContent
    <2>2. at' \notin Picking => remaining = {}
      BY <1>5 DEF Later, Picking, LoadEmbeddings, Hydrate, LoadImports, LoadExports, DedupContent,
                  Selection, Asking
    <2>. QED
      BY <2>1, <2>2 DEF Selection
  <1>6. CASE Aside
    BY <1>6, AsideFrame DEF Selection
  <1>. QED
    BY <1>1, <1>2, <1>3, <1>4, <1>5, <1>6, StepCases

LEMMA OrderedApart ==
  ASSUME TypeOK, Survivors, Selection, at \notin Asking \cup {"dedup"},
         NEW p \in 1..Len(selected), NEW q \in 1..Len(selected), p # q
  PROVE  ~ Overlaps(Ordered(p).id, Ordered(q).id)
  <1>1. selected[p] \in 1..Len(kept) /\ selected[q] \in 1..Len(kept)
    BY OrderedTyped
  <1>2. DOMAIN selected = 1..Len(selected)
    BY DEF TypeOK
  <1>3. selected[p] # selected[q]
    BY <1>2 DEF Selection, IsInjective
  <1>. QED
    BY <1>1, <1>3 DEF Survivors, Disjoint, Ordered

(* The three ways the loop over the first k goes on. *)
LEMMA HydrateCases ==
  ASSUME TypeOK, Hydrate
  PROVE  /\ at = "hydrate" /\ next \in Nat \ {0}
         /\ UNCHANGED <<index, changed, request, bm25, vector, fused, kept, selected, remaining,
                        hydrated, hits>>
         /\ \/ /\ next \in 1..TopK /\ Ordered(next).id \in IdsNow
               /\ hit' = [id |-> Ordered(next).id, score |-> Ordered(next).score,
                          body |-> BodyNow(Ordered(next).id),
                          chunk |-> index[Ordered(next).id[1]]]
               /\ at' = "imports" /\ next' = next + 1
            \/ /\ next \in 1..TopK /\ Ordered(next).id \notin IdsNow
               /\ next' = next + 1 /\ at' = "hydrate"
            \/ next > TopK /\ at' = "content" /\ next' = 1
  <1>1. next \in Nat \ {0} /\ TopK \in Nat
    BY TopKTyped DEF TypeOK
  <1>2. next <= TopK => next \in 1..TopK
    BY <1>1
  <1>. QED
    BY <1>1, <1>2 DEF Hydrate, ranking

LEMMA SameOrder ==
  ASSUME UNCHANGED <<request, selected, kept>>
  PROVE  TopK' = TopK /\ \A p : Ordered(p)' = Ordered(p)
  BY DEF TopK, Ordered, Smaller

LEMMA HydrationOfOne ==
  ASSUME TypeOK, Survivors, Selection, Hydration, LoadExports PROVE Hydration'
  <1>. DEFINE n == Len(hydrated)
  <1>1. /\ at = "exports" /\ at' = "hydrate" /\ next' = next
        /\ UNCHANGED <<request, selected, kept>>
    BY DEF LoadExports
  <1>2. /\ next \in Nat /\ TopK \in Nat /\ TopK <= Len(selected) /\ Len(selected) \in Nat
        /\ hydrated \in Seq(Hit) /\ n \in Nat
    BY SMTT(30), TopKTyped DEF TypeOK
  <1>3. TopK' = TopK /\ \A p : Ordered(p)' = Ordered(p)
    BY <1>1, SameOrder
  <1>4. Done = next - 2 /\ Done' = next - 1
    BY <1>1 DEF Done
  <1>5. /\ next - 2 \in 0..TopK /\ next - 1 \in 0..TopK
        /\ hit.id = Ordered(next - 1).id
        /\ n <= next - 2
        /\ \A i \in 1..n : \E p \in 1..next - 2 : hydrated[i].id = Ordered(p).id
        /\ Disjoint(hydrated)
    BY <1>1, <1>4 DEF Hydration, Hydrating
  <1>6. PICK e : e.id = hit.id /\ hydrated' = Append(hydrated, e) /\ e \in Hit
    <2>1. PICK e : e = [id |-> hit.id, score |-> hit.score, body |-> hit.body,
                        chunk |-> hit.chunk, imports |-> hit.imports,
                        exports |-> index[hit.id[1]]]
      OBVIOUS
    <2>2. hit.id \in Ids
      BY <1>1 DEF TypeOK
    <2>3. index[hit.id[1]] \in Contents
      BY <2>2, IdsTyped, IndexInContents
    <2>4. e \in Hit
      BY <1>1, <2>1, <2>3 DEF TypeOK, Hit
    <2>. QED
      BY <2>1, <2>4 DEF LoadExports
  <1>7. /\ Len(hydrated') = n + 1
        /\ \A i \in 1..n : hydrated'[i] = hydrated[i]
        /\ hydrated'[n + 1] = e
    BY <1>2, <1>6, Appended
  <1>8. next - 1 \in 1..Len(selected)
    BY <1>2, <1>5
  <1>9. Disjoint(hydrated')
    <2>1. ASSUME NEW m \in 1..n
          PROVE  hydrated[m].id \in Ids /\ ~ Overlaps(e.id, hydrated[m].id)
      <3>1. PICK p \in 1..next - 2 : hydrated[m].id = Ordered(p).id
        BY <1>5
      <3>2. p \in 1..Len(selected) /\ p # next - 1
        BY <1>2, <1>5
      <3>. QED
        BY <1>1, <1>5, <1>6, <1>8, <3>1, <3>2, OrderedApart, OrderedTyped DEF Asking
    <2>2. e.id \in Ids
      BY <1>6 DEF Hit
    <2>. QED
      BY <1>2, <1>5, <1>6, <2>1, <2>2, AppendDisjoint
  <1>10. \A i \in 1..n + 1 : \E p \in 1..next - 1 : hydrated'[i].id = Ordered(p).id
    <2>1. SUFFICES ASSUME NEW i \in 1..n + 1
                   PROVE  \E p \in 1..next - 1 : hydrated'[i].id = Ordered(p).id
      OBVIOUS
    <2>2. CASE i \in 1..n
      <3>1. PICK p \in 1..next - 2 : hydrated[i].id = Ordered(p).id
        BY <1>5, <2>2
      <3>2. p \in 1..next - 1
        BY <1>2
      <3>. QED
        BY <1>7, <2>2, <3>1, <3>2
    <2>3. CASE i = n + 1
      <3>1. next - 1 \in 1..next - 1
        BY <1>2, <1>5, <1>8
      <3>. QED
        BY <1>5, <1>6, <1>7, <2>3, <3>1
    <2>. QED
      BY <1>2, <2>2, <2>3
  <1>. QED
    BY <1>1, <1>2, <1>3, <1>4, <1>5, <1>7, <1>9, <1>10 DEF Hydration, Disjoint

LEMMA HydrationOfHydrate ==
  ASSUME TypeOK, Hydration, Hydrate PROVE Hydration'
  <1>1. /\ at = "hydrate" /\ next \in Nat \ {0} /\ TopK \in Nat
        /\ UNCHANGED <<request, kept, selected, hydrated>>
    BY HydrateCases, TopKTyped
  <1>2. TopK' = TopK /\ \A p : Ordered(p)' = Ordered(p)
    BY <1>1, SameOrder
  <1>3. /\ Done = next - 1 /\ next - 1 \in 0..TopK
        /\ Len(hydrated) <= next - 1
        /\ \A i \in 1..Len(hydrated) : \E p \in 1..next - 1 : hydrated[i].id = Ordered(p).id
        /\ Disjoint(hydrated)
    BY <1>1 DEF Hydration, Hydrating, Done
  <1>4. Len(hydrated) \in Nat
    BY DEF TypeOK
  <1>5. CASE /\ next \in 1..TopK /\ hit'.id = Ordered(next).id
             /\ at' = "imports" /\ next' = next + 1
    <2>1. Done' = next - 1 /\ next' - 1 = next
      BY <1>1, <1>5 DEF Done
    <2>. QED
      BY <1>1, <1>2, <1>3, <1>5, <2>1 DEF Hydration, Disjoint, Hydrating
  <1>6. CASE next \in 1..TopK /\ next' = next + 1 /\ at' = "hydrate"
    <2>1. Done' = next /\ next' - 1 = next
      BY <1>1, <1>6 DEF Done
    <2>2. \A i \in 1..Len(hydrated) : \E p \in 1..next : hydrated[i].id = Ordered(p).id
      <3>1. 1..next - 1 \subseteq 1..next
        BY <1>1
      <3>. QED
        BY <1>3, <3>1
    <2>3. Len(hydrated) <= next
      BY <1>1, <1>3, <1>4
    <2>. QED
      BY <1>1, <1>2, <1>3, <1>6, <2>1, <2>2, <2>3 DEF Hydration, Disjoint
  <1>7. CASE next > TopK /\ at' = "content" /\ next' = 1
    <2>1. Done' = TopK /\ next - 1 = TopK
      BY <1>1, <1>2, <1>3, <1>7 DEF Done
    <2>. QED
      BY <1>1, <1>2, <1>3, <1>7, <2>1 DEF Hydration, Disjoint, Hydrating
  <1>. QED
    BY <1>5, <1>6, <1>7, HydrateCases

(* When the hydration begins, nothing is done of it. *)
LEMMA BeforeHydration ==
  ASSUME TypeOK, NotYet, [Next]_vars, DedupOverlapping \/ LoadEmbeddings \/ MmrRerank
  PROVE  /\ hydrated = <<>> /\ hydrated' = <<>>
         /\ at' \notin {"imports", "exports"} \cup Answering
         /\ at' = "hydrate" => next' = 1 /\ TopK' \in Nat /\ Done' = 0
  <1>. USE DEF Answering
  <1>1. hydrated = <<>> /\ hydrated' = <<>> /\ at' \notin {"imports", "exports"} \cup Answering
    <2>1. CASE DedupOverlapping /\ next <= Len(fused)
      BY <2>1, DedupStep, DedupPlace DEF NotYet
    <2>2. CASE DedupOverlapping /\ ~ (next <= Len(fused))
      BY <2>2, DedupEnd, SeenAll DEF NotYet, DedupOverlapping, EndDedup
    <2>3. CASE LoadEmbeddings \/ MmrRerank
      BY <2>3 DEF LoadEmbeddings, MmrRerank, NotYet, Picking, answer
    <2>. QED
      BY <2>1, <2>2, <2>3
  <1>2. CASE at' = "hydrate"
    <2>1. next' = 1
      <3>1. CASE DedupOverlapping /\ next <= Len(fused)
        BY <1>2, <3>1, DedupPlace
      <3>2. CASE DedupOverlapping /\ ~ (next <= Len(fused))
        BY <3>2, DedupEnd DEF EndDedup
      <3>3. CASE LoadEmbeddings \/ MmrRerank
        BY <1>2, <3>3 DEF LoadEmbeddings, MmrRerank, NotYet
      <3>. QED
        BY <3>1, <3>2, <3>3
    <2>2. TopK' \in Nat
      <3>1. TypeOK'
        BY StepTyped
      <3>2. request' \in Requests /\ Len(selected') \in Nat
        BY <3>1 DEF TypeOK
      <3>. QED
        BY <3>2, RequestAssumption DEF TopK, Smaller
    <2>3. Done' = 0
      BY <1>2, <2>1 DEF Done
    <2>. QED
      BY <1>1, <2>1, <2>2, <2>3
  <1>. QED
    BY <1>1, <1>2

LEMMA HydrationKept ==
  ASSUME TypeOK, NotYet, Survivors, Selection, Hydration, [Next]_vars PROVE Hydration'
  <1>. USE DEF Hydrating, Answering
  <1>1. CASE Early
    BY <1>1, EarlyFrame DEF Hydration, Disjoint, Asking
  <1>2. CASE DedupOverlapping \/ LoadEmbeddings \/ MmrRerank
    <2>1. CASE at' = "hydrate"
      BY <1>2, <2>1, BeforeHydration DEF Hydration, Disjoint
    <2>2. CASE at' # "hydrate"
      BY <1>2, <2>2, BeforeHydration DEF Hydration, Disjoint
    <2>. QED
      BY <2>1, <2>2
  <1>3. CASE Hydrate
    BY <1>3, HydrationOfHydrate
  <1>4. CASE LoadImports
    <2>1. /\ at = "imports" /\ at' = "exports" /\ hit'.id = hit.id
          /\ UNCHANGED <<request, kept, selected, hydrated, next>>
      BY <1>4 DEF LoadImports
    <2>2. Done' = Done
      BY <2>1 DEF Done
    <2>. QED
      BY <2>1, <2>2, SameOrder DEF Hydration, Disjoint
  <1>5. CASE LoadExports
    BY <1>5, HydrationOfOne
  <1>6. CASE DedupContent
    <2>1. /\ at = "content" /\ at' \in Answering
          /\ UNCHANGED <<request, kept, selected, hydrated>>
      BY <1>6 DEF DedupContent
    <2>2. Done = TopK /\ Done' = TopK /\ TopK' = TopK
      BY <2>1, SameOrder DEF Done
    <2>. QED
      BY <2>1, <2>2, SameOrder DEF Hydration, Disjoint
  <1>7. CASE Aside
    <2>1. UNCHANGED <<at, request, kept, selected, hydrated, next, hit>>
      BY <1>7, AsideFrame
    <2>2. Done' = Done
      BY <2>1, SameOrder DEF Done
    <2>. QED
      BY <2>1, <2>2, SameOrder DEF Hydration, Disjoint
  <1>. QED
    BY <1>1, <1>2, <1>3, <1>4, <1>5, <1>6, <1>7, StepCases DEF Later

LEMMA AnswerOfOne ==
  ASSUME TypeOK, Hydration, Answer, DedupContent, next <= Len(hydrated) PROVE Answer'
  <1>. DEFINE n == Len(hits)
              e == hydrated[next]
  <1>1. /\ at = "content" /\ at' = "content" /\ next' = next + 1 /\ hydrated' = hydrated
        /\ \/ hits' = hits /\ \E i \in 1..n : <<e.body, hits[i].body>> \in Alike
           \/ hits' = Append(hits, e)
    <2>1. ~ (next > Len(hydrated))
      BY DEF TypeOK
    <2>. QED
      BY <2>1 DEF DedupContent
  <1>2. /\ next \in Nat \ {0} /\ n \in Nat /\ Len(hydrated) \in Nat
        /\ hits \in Seq(Hit) /\ hydrated \in Seq(Hit)
    BY DEF TypeOK
  <1>3. next \in 1..Len(hydrated) /\ e \in Hit /\ e.id \in Ids
    <2>1. next \in 1..Len(hydrated)
      BY <1>2
    <2>2. e \in Hit
      BY <1>2, <2>1
    <2>. QED
      BY <2>1, <2>2 DEF Hit
  <1>4. \A j \in 1..next : j = next \/ j \in 1..next - 1
    BY <1>2
  <1>5. /\ Disjoint(hits) /\ n < next
        /\ \A i \in 1..n : \E j \in 1..next - 1 : hits[i] = hydrated[j]
        /\ \A j \in 1..next - 1 : \E i \in 1..n :
             hits[i] = hydrated[j] \/ <<hydrated[j].body, hits[i].body>> \in Alike
    BY <1>1 DEF Answer, Answering
  <1>6. CASE hits' = hits /\ \E i \in 1..n : <<e.body, hits[i].body>> \in Alike
    <2>1. \A i \in 1..n : \E j \in 1..next : hits[i] = hydrated[j]
      <3>1. 1..next - 1 \subseteq 1..next
        BY <1>2
      <3>. QED
        BY <1>5, <3>1
    <2>2. \A j \in 1..next : \E i \in 1..n :
            hits[i] = hydrated[j] \/ <<hydrated[j].body, hits[i].body>> \in Alike
      <3>1. SUFFICES ASSUME NEW j \in 1..next
                     PROVE \E i \in 1..n :
                             hits[i] = hydrated[j] \/ <<hydrated[j].body, hits[i].body>> \in Alike
        OBVIOUS
      <3>2. CASE j = next
        BY <1>6, <3>2
      <3>3. CASE j \in 1..next - 1
        BY <1>5, <3>3
      <3>. QED
        BY <1>4, <3>2, <3>3
    <2>3. at' = "content" /\ next' - 1 = next /\ Len(hits') < next'
      BY <1>1, <1>2, <1>5, <1>6
    <2>4. next' - 1 \in 0..Len(hydrated')
      BY <1>1, <1>2, <1>3, <2>3
    <2>. QED
      BY <1>1, <1>5, <1>6, <2>1, <2>2, <2>3, <2>4 DEF Answer, Disjoint
  <1>7. CASE hits' = Append(hits, e)
    <2>1. /\ Len(hits') = n + 1
          /\ \A i \in 1..n : hits'[i] = hits[i]
          /\ hits'[n + 1] = e
      BY <1>2, <1>3, <1>7, Appended
    <2>2. ASSUME NEW m \in 1..n PROVE hits[m].id \in Ids /\ ~ Overlaps(e.id, hits[m].id)
      <3>1. PICK j \in 1..next - 1 : hits[m] = hydrated[j]
        BY <1>5
      <3>2. j \in 1..Len(hydrated) /\ j # next
        BY <1>2, <1>3
      <3>3. hydrated[j] \in Hit
        BY <1>2, <3>2
      <3>. QED
        BY <1>3, <3>1, <3>2, <3>3 DEF Hydration, Disjoint, Hit
    <2>3. Disjoint(hits')
      BY <1>2, <1>3, <1>5, <1>7, <2>2, AppendDisjoint
    <2>4. \A i \in 1..n + 1 : \E j \in 1..next : hits'[i] = hydrated[j]
      <3>1. SUFFICES ASSUME NEW i \in 1..n + 1 PROVE \E j \in 1..next : hits'[i] = hydrated[j]
        OBVIOUS
      <3>2. CASE i \in 1..n
        <4>1. PICK j \in 1..next - 1 : hits[i] = hydrated[j]
          BY <1>5, <3>2
        <4>. QED
          BY <1>2, <2>1, <3>2, <4>1
      <3>3. CASE i = n + 1
        BY <1>2, <2>1, <3>3
      <3>. QED
        BY <1>2, <3>2, <3>3
    <2>5. \A j \in 1..next : \E i \in 1..n + 1 :
            hits'[i] = hydrated[j] \/ <<hydrated[j].body, hits'[i].body>> \in Alike
      <3>1. SUFFICES ASSUME NEW j \in 1..next
                     PROVE \E i \in 1..n + 1 :
                             hits'[i] = hydrated[j] \/ <<hydrated[j].body, hits'[i].body>> \in Alike
        OBVIOUS
      <3>2. CASE j = next
        BY <1>2, <2>1, <3>2
      <3>3. CASE j \in 1..next - 1
        <4>1. PICK i \in 1..n :
                hits[i] = hydrated[j] \/ <<hydrated[j].body, hits[i].body>> \in Alike
          BY <1>5, <3>3
        <4>2. i \in 1..n + 1 /\ hits'[i] = hits[i]
          BY <1>2, <2>1
        <4>. QED
          BY <4>1, <4>2
      <3>. QED
        BY <1>4, <3>2, <3>3
    <2>6. at' = "content" /\ next' - 1 = next /\ Len(hits') < next'
      BY <1>1, <1>2, <1>5, <2>1
    <2>7. next' - 1 \in 0..Len(hydrated')
      BY <1>1, <1>2, <1>3, <2>6
    <2>. QED
      BY ZenonT(60), <1>1, <2>1, <2>3, <2>4, <2>5, <2>6, <2>7 DEF Answer, Disjoint
  <1>. QED
    BY <1>1, <1>6, <1>7

LEMMA AnswerKept ==
  ASSUME TypeOK, NotYet, Hydration, Answer, [Next]_vars PROVE Answer'
  <1>. USE DEF Answering
  <1>1. CASE Early
    BY <1>1, EarlyFrame DEF Answer, Asking
  <1>2. CASE DedupOverlapping
    BY <1>2, DedupPlace, SeenAll, DedupEnd DEF Answer, EndDedup
  <1>3. CASE LoadEmbeddings \/ MmrRerank \/ LoadImports \/ LoadExports
    BY <1>3 DEF LoadEmbeddings, MmrRerank, LoadImports, LoadExports, Answer
  <1>4. CASE Hydrate
    <2>1. CASE at' = "content" /\ next' = 1
      <3>1. hits' = <<>> /\ Len(hydrated') \in Nat
        BY SMTT(30), <1>4, HydrateCases DEF NotYet, TypeOK
      <3>. QED
        BY <2>1, <3>1 DEF Answer, Disjoint
    <2>. QED
      BY <1>4, <2>1, HydrateCases DEF Answer
  <1>5. CASE DedupContent /\ next <= Len(hydrated)
    BY <1>5, AnswerOfOne
  <1>6. CASE DedupContent /\ ~ (next <= Len(hydrated))
    <2>1. at = "content" /\ at' = "done" /\ UNCHANGED <<hits, next, hydrated>>
      BY <1>6 DEF DedupContent
    <2>2. next \in Nat /\ Len(hydrated) \in Nat
      BY DEF TypeOK
    <2>3. next - 1 = Len(hydrated)
      BY <1>6, <2>1, <2>2 DEF Answer
    <2>. QED
      BY <2>1, <2>3 DEF Answer, Disjoint
  <1>7. CASE Aside
    <2>1. UNCHANGED <<at, next, hydrated, hits>>
      BY <1>7, AsideFrame
    <2>. QED
      BY <2>1 DEF Answer, Disjoint
  <1>. QED
    BY <1>1, <1>2, <1>3, <1>4, <1>5, <1>6, <1>7, StepCases DEF Later

------------------------------------------------------------------------------
(* What does not change.                                                     *)

LEMMA ChangedOnly ==
  ASSUME TypeOK, Change, NEW i \in Ids, i[1] \notin changed'
  PROVE  i[1] \notin changed /\ index'[i[1]] = index[i[1]]
  BY IdsTyped DEF Change

LEMMA IdsOfFile ==
  ASSUME NEW i \in Ids PROVE i \in IdsNow <=> \E c \in index[i[1]] : Id(i[1], c) = i
  <1>1. i[1] \in Files
    BY IdsTyped
  <1>2. \A f \in Files : \A c \in index[f] : Id(f, c) = i => f = i[1]
    BY DEF Id
  <1>. QED
    BY <1>1, <1>2 DEF IdsNow

LEMMA IdsOfFileNext ==
  ASSUME NEW i \in Ids PROVE (i \in IdsNow)' <=> \E c \in index'[i[1]] : Id(i[1], c) = i
  <1>1. i[1] \in Files
    BY IdsTyped
  <1>2. \A f \in Files : \A c \in index'[f] : Id(f, c) = i => f = i[1]
    BY DEF Id
  <1>. QED
    BY <1>1, <1>2 DEF IdsNow, Id

LEMMA ThereKept ==
  ASSUME TypeOK, NEW i \in Ids, There(i), Change \/ UNCHANGED <<index, changed>>
  PROVE  There(i)'
  <1>1. CASE UNCHANGED <<index, changed>>
    BY <1>1 DEF There, IdsNow
  <1>2. CASE Change
    BY <1>2, ChangedOnly, IdsOfFile, IdsOfFileNext DEF There
  <1>. QED
    BY <1>1, <1>2

LEMMA RankingsThere ==
  ASSUME TypeOK PROVE Range(bm25) \subseteq Ids /\ Range(vector) \subseteq Ids
  BY SMTT(30) DEF TypeOK, Range

LEMMA UnchangedKept == ASSUME TypeOK, Unchanged, [Next]_vars PROVE Unchanged'
  <1>1. CASE Bm25Query
    <2>1. /\ UNCHANGED <<index, changed, vector, fused>>
          /\ bm25' = <<>> \/ bm25' \in Rankings(IdsNow, request.k)
      BY <1>1 DEF Bm25Query
    <2>2. Range(bm25') \subseteq IdsNow
      <3>1. CASE bm25' = <<>>
        BY <3>1 DEF Range
      <3>2. CASE bm25' \in Rankings(IdsNow, request.k)
        BY <3>2 DEF Rankings, Injection, Range
      <3>. QED
        BY <2>1, <3>1, <3>2
    <2>. QED
      BY <2>1, <2>2 DEF Unchanged, There, IdsNow, Range
  <1>2. CASE VectorQuery
    <2>1. /\ UNCHANGED <<index, changed, bm25, fused>>
          /\ vector' \in Rankings(IdsNow, request.k)
      BY <1>2 DEF VectorQuery
    <2>2. Range(vector') \subseteq IdsNow
      BY <2>1 DEF Rankings, Injection, Range
    <2>. QED
      BY <2>1, <2>2 DEF Unchanged, There, IdsNow, Range
  <1>3. CASE Fuse
    <2>1. UNCHANGED <<index, changed, bm25, vector>> /\ fused' \in RrfFuseWeighted
      BY <1>3 DEF Fuse, ranking
    <2>2. \A j \in 1..Len(fused') : fused'[j].id \in Range(bm25) \cup Range(vector)
      <3>1. fused' \in Seq(Candidate)
        BY <2>1, FusedTyped
      <3>2. \A j \in DOMAIN fused' :
              fused'[j] \in {[id |-> i, score |-> FusedScore(i)] :
                              i \in Range(bm25) \cup Range(vector)}
        BY <2>1 DEF RrfFuseWeighted, Rows, Injection
      <3>. QED
        BY <3>1, <3>2
    <2>. QED
      BY <2>1, <2>2 DEF Unchanged, There, IdsNow, Range
  <1>4. CASE ApplyStructuralBoost
    <2>1. UNCHANGED <<index, changed, bm25, vector>>
      BY <1>4 DEF ApplyStructuralBoost, ranking
    <2>2. CASE fused' = fused
      BY <2>1, <2>2 DEF Unchanged, There, IdsNow, Range
    <2>3. ASSUME NEW files, fused' \in Reranked(files) PROVE Unchanged'
      <3>1. fused' \in Seq(Candidate) /\ fused \in Seq(Candidate)
        BY <2>3, RerankedTyped DEF TypeOK
      <3>2. \A j \in DOMAIN fused' : fused'[j] \in {Boosted(fused[i], files) : i \in DOMAIN fused}
        BY <2>3 DEF Reranked, Rows, Injection
      <3>3. \A i \in 1..Len(fused) : Boosted(fused[i], files).id = fused[i].id
        BY <3>1, CandidatesTyped DEF Boosted, Candidate
      <3>4. \A j \in 1..Len(fused') : \E i \in 1..Len(fused) : fused'[j].id = fused[i].id
        BY <3>1, <3>2, <3>3, CandidatesTyped
      <3>. QED
        BY <2>1, <3>4 DEF Unchanged, There, IdsNow, Range
    <2>. QED
      BY <1>4, <2>2, <2>3 DEF ApplyStructuralBoost
  <1>5. CASE ~ (Bm25Query \/ VectorQuery \/ Fuse \/ ApplyStructuralBoost)
    <2>1. /\ UNCHANGED <<bm25, vector, fused>>
          /\ Change \/ UNCHANGED <<index, changed>>
      <3>1. CASE SearchCode \/ DedupOverlapping
        BY <3>1 DEF SearchCode, DedupOverlapping, ranking
      <3>2. CASE Later
        BY <3>2, LaterFrame
      <3>3. CASE Aside
        BY <3>3, AsideFrame DEF Aside, vars
      <3>. QED
        BY <1>5, <3>1, <3>2, <3>3, StepCases DEF Early
    <2>2. \A i \in Ids : There(i) => There(i)'
      BY <2>1, ThereKept
    <2>3. \A i \in Range(bm25) \cup Range(vector) : There(i) /\ i \in Ids
      BY RankingsThere DEF Unchanged
    <2>4. \A i \in Range(bm25) \cup Range(vector) : There(i)'
      BY <2>2, <2>3
    <2>5. \A j \in 1..Len(fused) : There(fused[j].id) /\ fused[j].id \in Ids
      BY CandidatesTyped DEF Unchanged, TypeOK
    <2>6. \A j \in 1..Len(fused) : fused[j].id[1] \notin changed' => fused[j].id \in IdsNow'
      BY <2>2, <2>5 DEF There
    <2>. QED
      BY <2>1, <2>4, <2>6 DEF Unchanged, There, Range
  <1>. QED
    BY <1>1, <1>2, <1>3, <1>4, <1>5

LEMMA OrderedThere ==
  ASSUME TypeOK, Survivors, Unchanged, NEW p \in 1..Len(selected)
  PROVE  There(Ordered(p).id)
  <1>1. selected[p] \in 1..Len(kept)
    BY OrderedTyped
  <1>2. PICK j \in 1..Len(fused) : kept[selected[p]] = fused[j]
    BY <1>1 DEF Survivors
  <1>. QED
    BY <1>2 DEF Unchanged, Ordered


LEMMA StaysCurrent ==
  ASSUME TypeOK, Change
  PROVE  \A i \in Ids : i[1] \notin changed' =>
           i[1] \notin changed /\ index'[i[1]] = index[i[1]] /\ BodyNow(i)' = BodyNow(i)
  BY ChangedOnly DEF BodyNow

LEMMA UnchangedHitsAside ==
  ASSUME TypeOK, Hydration, UnchangedHits, Aside PROVE UnchangedHits'
  <1>1. /\ UNCHANGED <<at, request, kept, selected, next, hit, hydrated>>
        /\ Change \/ UNCHANGED <<index, changed>>
    BY AsideFrame DEF Aside, vars
  <1>2. \A i \in Ids : i[1] \notin changed' =>
          i[1] \notin changed /\ index'[i[1]] = index[i[1]] /\ BodyNow(i)' = BodyNow(i)
    <2>1. CASE Change
      BY <2>1, StaysCurrent
    <2>2. CASE UNCHANGED <<index, changed>>
      BY <2>2 DEF BodyNow
    <2>. QED
      BY <1>1, <2>1, <2>2
  <1>3. at \in {"imports", "exports"} => hit.id \in Ids
    BY DEF TypeOK
  <1>4. hydrated \in Seq(Hit) /\ \A i \in 1..Len(hydrated) : hydrated[i].id \in Ids
    <2>1. hydrated \in Seq(Hit)
      BY DEF TypeOK
    <2>2. \A i \in 1..Len(hydrated) : hydrated[i] \in Hit
      BY <2>1
    <2>. QED
      BY <2>1, <2>2 DEF Hit
  <1>5. Done' = Done /\ TopK' = TopK /\ \A p : Ordered(p)' = Ordered(p)
    BY <1>1, SameOrder DEF Done
  <1>6. at \in Hydrating \cup Answering => Done \in Nat /\ Done <= Len(selected)
    <2>1. TopK \in Nat /\ TopK <= Len(selected) /\ Len(selected) \in Nat
      BY TopKTyped DEF TypeOK
    <2>. QED
      BY <2>1 DEF Hydration, Done, Hydrating, Answering
  <1>7. at \in Hydrating \cup Answering => \A p \in 1..Done : Ordered(p).id \in Ids
    <2>1. Len(selected) \in Nat
      BY DEF TypeOK
    <2>. QED
      BY <1>6, <2>1, OrderedTyped
  <1>8. (at \in {"imports", "exports"} /\ hit.id[1] \notin changed => Current(hit))'
    BY <1>1, <1>2, <1>3 DEF UnchangedHits, Current, BodyNow
  <1>9. (at = "exports" /\ hit.id[1] \notin changed => hit.imports = hit.chunk)'
    BY <1>1, <1>2, <1>3 DEF UnchangedHits
  <1>10. (\A i \in 1..Len(hydrated) : hydrated[i].id[1] \notin changed =>
            /\ Current(hydrated[i])
            /\ hydrated[i].imports = hydrated[i].chunk
            /\ hydrated[i].exports = hydrated[i].chunk)'
    BY <1>1, <1>2, <1>4 DEF UnchangedHits, Current, BodyNow
  <1>11. (at \in Hydrating \cup Answering =>
            \A p \in 1..Done : Ordered(p).id[1] \notin changed =>
              \E i \in 1..Len(hydrated) : hydrated[i].id = Ordered(p).id)'
    BY <1>1, <1>2, <1>5, <1>7 DEF UnchangedHits
  <1>. QED
    BY <1>8, <1>9, <1>10, <1>11 DEF UnchangedHits

LEMMA UnchangedHitsHydrate ==
  ASSUME TypeOK, Survivors, Selection, Hydration, Unchanged, UnchangedHits, Hydrate
  PROVE  UnchangedHits'
  <1>1. /\ at = "hydrate" /\ next \in Nat \ {0} /\ TopK \in Nat /\ TopK <= Len(selected)
        /\ Len(selected) \in Nat
        /\ UNCHANGED <<index, changed, request, kept, selected, hydrated>>
    BY SMTT(30), HydrateCases, TopKTyped DEF TypeOK
  <1>2. TopK' = TopK /\ \A p : Ordered(p)' = Ordered(p)
    BY <1>1, SameOrder
  <1>3. Done = next - 1 /\ next - 1 \in 0..TopK
    BY <1>1 DEF Hydration, Hydrating, Done
  <1>4. \A p \in 1..next - 1 : Ordered(p).id[1] \notin changed =>
          \E i \in 1..Len(hydrated) : hydrated[i].id = Ordered(p).id
    BY <1>1, <1>3 DEF UnchangedHits, Hydrating
  <1>5. \A i : (BodyNow(i)' = BodyNow(i))
    BY <1>1 DEF BodyNow
  <1>6. (\A i \in 1..Len(hydrated) : hydrated[i].id[1] \notin changed =>
            /\ Current(hydrated[i])
            /\ hydrated[i].imports = hydrated[i].chunk
            /\ hydrated[i].exports = hydrated[i].chunk)'
    BY <1>1 DEF UnchangedHits, Current, BodyNow
  <1>7. CASE /\ next \in 1..TopK /\ Ordered(next).id \in IdsNow
             /\ hit' = [id |-> Ordered(next).id, score |-> Ordered(next).score,
                        body |-> BodyNow(Ordered(next).id),
                        chunk |-> index[Ordered(next).id[1]]]
             /\ at' = "imports" /\ next' = next + 1
    <2>1. Done' = next - 1
      BY <1>1, <1>7 DEF Done
    <2>2. /\ hit'.id = Ordered(next).id /\ hit'.body = BodyNow(Ordered(next).id)
          /\ hit'.chunk = index[Ordered(next).id[1]]
      BY <1>7
    <2>3. (Current(hit))'
      BY <1>1, <2>2 DEF Current, BodyNow
    <2>. QED
      BY <1>1, <1>2, <1>4, <1>6, <1>7, <2>1, <2>3 DEF UnchangedHits
  <1>8. CASE /\ next \in 1..TopK /\ Ordered(next).id \notin IdsNow
             /\ next' = next + 1 /\ at' = "hydrate"
    <2>1. Done' = next
      BY <1>1, <1>8 DEF Done
    <2>2. next \in 1..Len(selected)
      BY <1>1, <1>8
    <2>3. Ordered(next).id[1] \in changed
      BY <1>8, <2>2, OrderedThere DEF There
    <2>4. \A p \in 1..next : p = next \/ p \in 1..next - 1
      BY <1>1
    <2>5. \A p \in 1..next : Ordered(p).id[1] \notin changed =>
            \E i \in 1..Len(hydrated) : hydrated[i].id = Ordered(p).id
      BY <1>4, <2>3, <2>4
    <2>. QED
      BY <1>1, <1>2, <1>6, <1>8, <2>1, <2>5 DEF UnchangedHits
  <1>9. CASE next > TopK /\ at' = "content" /\ next' = 1
    <2>1. Done' = TopK /\ next - 1 = TopK
      BY <1>1, <1>2, <1>3, <1>9 DEF Done
    <2>. QED
      BY <1>1, <1>2, <1>4, <1>6, <1>9, <2>1 DEF UnchangedHits
  <1>. QED
    BY <1>7, <1>8, <1>9, HydrateCases

LEMMA UnchangedHitsOfOne ==
  ASSUME TypeOK, Hydration, UnchangedHits, LoadExports PROVE UnchangedHits'
  <1>. DEFINE n == Len(hydrated)
  <1>1. /\ at = "exports" /\ at' = "hydrate" /\ next' = next
        /\ UNCHANGED <<index, changed, request, selected, kept>>
    BY DEF LoadExports
  <1>2. TopK' = TopK /\ \A p : Ordered(p)' = Ordered(p)
    BY <1>1, SameOrder
  <1>3. /\ next \in Nat /\ n \in Nat /\ hydrated \in Seq(Hit)
        /\ hit.id \in Ids /\ index[hit.id[1]] \in Contents
    <2>1. hit.id \in Ids
      BY <1>1 DEF TypeOK
    <2>. QED
      BY SMTT(30), <2>1, IdsTyped, IndexInContents DEF TypeOK
  <1>4. /\ Done = next - 2 /\ Done' = next - 1 /\ next - 1 \in Nat
        /\ hit.id = Ordered(next - 1).id
    BY <1>1, <1>3 DEF Done, Hydration, Hydrating
  <1>5. PICK e : /\ hydrated' = Append(hydrated, e) /\ e \in Hit
                 /\ e.id = hit.id /\ e.body = hit.body /\ e.chunk = hit.chunk
                 /\ e.imports = hit.imports /\ e.exports = index[hit.id[1]]
    <2>1. PICK e : e = [id |-> hit.id, score |-> hit.score, body |-> hit.body,
                        chunk |-> hit.chunk, imports |-> hit.imports,
                        exports |-> index[hit.id[1]]]
      OBVIOUS
    <2>2. e \in Hit
      BY <1>1, <1>3, <2>1 DEF TypeOK, Hit
    <2>. QED
      BY <2>1, <2>2 DEF LoadExports
  <1>6. /\ Len(hydrated') = n + 1
        /\ \A i \in 1..n : hydrated'[i] = hydrated[i]
        /\ hydrated'[n + 1] = e
    BY <1>3, <1>5, Appended
  <1>7. \A i : BodyNow(i)' = BodyNow(i)
    BY <1>1 DEF BodyNow
  <1>8. e.id[1] \notin changed =>
          /\ e.body = BodyNow(e.id) /\ e.chunk = index[e.id[1]]
          /\ e.imports = e.chunk /\ e.exports = e.chunk
    BY <1>1, <1>5 DEF UnchangedHits, Current
  <1>9. \A i \in 1..n + 1 : hydrated'[i].id[1] \notin changed =>
          /\ hydrated'[i].body = BodyNow(hydrated'[i].id)
          /\ hydrated'[i].chunk = index[hydrated'[i].id[1]]
          /\ hydrated'[i].imports = hydrated'[i].chunk
          /\ hydrated'[i].exports = hydrated'[i].chunk
    <2>1. SUFFICES ASSUME NEW i \in 1..n + 1, hydrated'[i].id[1] \notin changed
                   PROVE  /\ hydrated'[i].body = BodyNow(hydrated'[i].id)
                          /\ hydrated'[i].chunk = index[hydrated'[i].id[1]]
                          /\ hydrated'[i].imports = hydrated'[i].chunk
                          /\ hydrated'[i].exports = hydrated'[i].chunk
      OBVIOUS
    <2>2. CASE i \in 1..n
      <3>1. hydrated'[i] = hydrated[i]
        BY <1>6, <2>2
      <3>. QED
        BY <2>1, <2>2, <3>1 DEF UnchangedHits, Current
    <2>3. CASE i = n + 1
      <3>1. hydrated'[i] = e
        BY <1>6, <2>3
      <3>. QED
        BY <1>8, <2>1, <3>1
    <2>. QED
      BY <1>3, <2>2, <2>3
  <1>10. \A p \in 1..next - 1 : Ordered(p).id[1] \notin changed =>
           \E i \in 1..n + 1 : hydrated'[i].id = Ordered(p).id
    <2>1. SUFFICES ASSUME NEW p \in 1..next - 1, Ordered(p).id[1] \notin changed
                   PROVE  \E i \in 1..n + 1 : hydrated'[i].id = Ordered(p).id
      OBVIOUS
    <2>2. CASE p \in 1..next - 2
      <3>1. PICK i \in 1..n : hydrated[i].id = Ordered(p).id
        BY <1>1, <1>4, <2>1, <2>2 DEF UnchangedHits, Hydrating
      <3>. QED
        BY <1>3, <1>6, <3>1
    <2>3. CASE p = next - 1
      BY <1>3, <1>4, <1>5, <1>6, <2>3
    <2>. QED
      BY <1>3, <2>2, <2>3
  <1>11. (\A i \in 1..Len(hydrated) : hydrated[i].id[1] \notin changed =>
            /\ Current(hydrated[i])
            /\ hydrated[i].imports = hydrated[i].chunk
            /\ hydrated[i].exports = hydrated[i].chunk)'
    BY <1>1, <1>6, <1>7, <1>9 DEF Current, BodyNow
  <1>12. (\A p \in 1..Done : Ordered(p).id[1] \notin changed =>
            \E i \in 1..Len(hydrated) : hydrated[i].id = Ordered(p).id)'
    BY <1>1, <1>2, <1>4, <1>6, <1>10
  <1>. QED
    BY <1>1, <1>11, <1>12 DEF UnchangedHits

LEMMA UnchangedHitsKept ==
  ASSUME TypeOK, NotYet, Survivors, Selection, Hydration, Unchanged, UnchangedHits, [Next]_vars
  PROVE  UnchangedHits'
  <1>. USE DEF Hydrating, Answering
  <1>1. CASE Early
    BY <1>1, EarlyFrame DEF UnchangedHits, Asking
  <1>2. CASE DedupOverlapping \/ LoadEmbeddings \/ MmrRerank
    <2>1. CASE at' = "hydrate"
      BY <1>2, <2>1, BeforeHydration DEF UnchangedHits
    <2>2. CASE at' # "hydrate"
      BY <1>2, <2>2, BeforeHydration DEF UnchangedHits
    <2>. QED
      BY <2>1, <2>2
  <1>3. CASE Hydrate
    BY <1>3, UnchangedHitsHydrate
  <1>4. CASE LoadImports
    <2>1. /\ at = "imports" /\ at' = "exports"
          /\ hit'.id = hit.id /\ hit'.body = hit.body /\ hit'.chunk = hit.chunk
          /\ hit'.imports = index[hit.id[1]]
          /\ UNCHANGED <<index, changed, request, kept, selected, hydrated, next>>
      BY <1>4 DEF LoadImports
    <2>2. Done' = Done /\ TopK' = TopK /\ \A p : Ordered(p)' = Ordered(p)
      BY <2>1, SameOrder DEF Done
    <2>3. (hit.id[1] \notin changed => Current(hit) /\ hit.imports = hit.chunk)'
      BY <2>1 DEF UnchangedHits, Current, BodyNow
    <2>4. (\A i \in 1..Len(hydrated) : hydrated[i].id[1] \notin changed =>
            /\ Current(hydrated[i])
            /\ hydrated[i].imports = hydrated[i].chunk
            /\ hydrated[i].exports = hydrated[i].chunk)'
      BY <2>1 DEF UnchangedHits, Current, BodyNow
    <2>. QED
      BY <2>1, <2>2, <2>3, <2>4 DEF UnchangedHits
  <1>5. CASE LoadExports
    BY <1>5, UnchangedHitsOfOne
  <1>6. CASE DedupContent
    <2>1. /\ at = "content" /\ at' \in Answering
          /\ UNCHANGED <<index, changed, request, kept, selected, hydrated>>
      BY <1>6 DEF DedupContent
    <2>2. Done = TopK /\ Done' = TopK /\ \A p : Ordered(p)' = Ordered(p)
      BY <2>1, SameOrder DEF Done
    <2>3. (\A i \in 1..Len(hydrated) : hydrated[i].id[1] \notin changed =>
            /\ Current(hydrated[i])
            /\ hydrated[i].imports = hydrated[i].chunk
            /\ hydrated[i].exports = hydrated[i].chunk)'
      BY <2>1 DEF UnchangedHits, Current, BodyNow
    <2>. QED
      BY <2>1, <2>2, <2>3 DEF UnchangedHits
  <1>7. CASE Aside
    BY <1>7, UnchangedHitsAside
  <1>. QED
    BY <1>1, <1>2, <1>3, <1>4, <1>5, <1>6, <1>7, StepCases DEF Later

------------------------------------------------------------------------------
(* The properties.                                                           *)

IInv ==
  /\ TypeOK
  /\ NotYet /\ Fusion /\ Survivors /\ Coverage /\ Selection /\ Hydration /\ Answer
  /\ Unchanged /\ UnchangedHits

LEMMA InitInv == Init => IInv
  <1>1. SUFFICES ASSUME Init PROVE IInv
    OBVIOUS
  <1>2. TypeOK
    BY <1>1, InitTyped
  <1>3. /\ at = "idle" /\ next = 1 /\ remaining = {}
        /\ bm25 = <<>> /\ vector = <<>> /\ fused = <<>> /\ kept = <<>> /\ selected = <<>>
        /\ hydrated = <<>> /\ hits = <<>>
    BY <1>1 DEF Init
  <1>4. NotYet /\ Fusion /\ Coverage /\ Selection /\ Answer
    BY <1>3 DEF NotYet, Fusion, Coverage, Selection, Answer, Asking, Picking, Answering
  <1>5. Survivors /\ Hydration /\ UnchangedHits
    BY <1>3 DEF Survivors, Hydration, UnchangedHits, Disjoint, Descending, Hydrating, Answering
  <1>6. Unchanged
    BY <1>3 DEF Unchanged, Range
  <1>. QED
    BY <1>2, <1>4, <1>5, <1>6 DEF IInv

LEMMA StepInv == ASSUME IInv, [Next]_vars PROVE IInv'
  BY StepTyped, NotYetKept, FusionKept, SurvivorsKept, CoverageKept, SelectionKept, HydrationKept,
     AnswerKept, UnchangedKept, UnchangedHitsKept
     DEF IInv

(* The stages hand on what the next ones rely on, whatever the index does.    *)
THEOREM Inv == Spec => []IInv
  BY InitInv, StepInv, PTL DEF Spec

(* However the index changes meanwhile, the hits of an answer do not overlap  *)
(* and are no more than were asked for.                                      *)
THEOREM HitsAreDisjoint == Spec => []HitsDisjoint
  <1>1. IInv => HitsDisjoint
    <2>1. SUFFICES ASSUME IInv PROVE HitsDisjoint
      OBVIOUS
    <2>2. request.k \in Nat /\ Len(hits) \in Nat /\ Len(hydrated) \in Nat /\ next \in Nat
      BY SMTT(30), <2>1, RequestAssumption DEF IInv, TypeOK
    <2>3. CASE at \notin Answering
      BY <2>1, <2>2, <2>3 DEF IInv, NotYet, HitsDisjoint, Disjoint
    <2>4. CASE at \in Answering
      <3>1. Done = TopK /\ TopK \in Nat /\ TopK <= request.k
        BY <2>1, <2>4, TopKTyped DEF IInv, Done, Answering
      <3>2. Len(hydrated) <= TopK /\ next - 1 \in 0..Len(hydrated) /\ Len(hits) < next
        BY <2>1, <2>4, <3>1 DEF IInv, Hydration, Answer
      <3>3. Len(hits) <= request.k
        BY <2>2, <3>1, <3>2
      <3>. QED
        BY <2>1, <2>4, <3>3 DEF IInv, Answer, HitsDisjoint
    <2>. QED
      BY <2>3, <2>4
  <1>. QED
    BY <1>1, Inv, PTL

(* dedup_overlapping drops a candidate only for one that it keeps.            *)
THEOREM DroppedOnlyForKept == Spec => []DroppedForAKeptOne
  <1>1. IInv => DroppedForAKeptOne
    <2>1. SUFFICES ASSUME IInv, at \notin Asking \cup {"dedup"}, NEW i \in 1..Len(fused)
                   PROVE  \E j \in 1..i : CoveredBy(i, j)
      BY DEF DroppedForAKeptOne, Asking, CoveredBy
    <2>2. Seen = Len(fused)
      BY <2>1 DEF Seen
    <2>. QED
      BY <2>1, <2>2 DEF IInv, Coverage
  <1>. QED
    BY <1>1, Inv, PTL

(* The survivors are reordered, none lost and none doubled, the best first.   *)
THEOREM BestStaysFirst == Spec => []DiversityKeepsBest
  <1>1. IInv => DiversityKeepsBest
    <2>1. SUFFICES ASSUME IInv PROVE DiversityKeepsBest
      OBVIOUS
    <2>2. CASE at \in Asking \cup {"dedup"}
      BY <2>1, <2>2 DEF IInv, NotYet, DiversityKeepsBest, Asking
    <2>3. CASE at \in Picking
      BY <2>1, <2>3 DEF IInv, Selection, DiversityKeepsBest, Asking, Picking
    <2>4. CASE at \notin Asking \cup {"dedup"} \cup Picking
      <3>1. /\ selected \in Seq(1..Len(kept)) /\ Len(kept) \in Nat /\ Len(selected) \in Nat
            /\ DOMAIN selected = 1..Len(selected)
        BY <2>1 DEF IInv, TypeOK
      <3>2. /\ IsInjective(selected) /\ remaining = {}
            /\ \A p \in 1..Len(kept) : \E i \in 1..Len(selected) : selected[i] = p
            /\ selected # <<>> => selected[1] = 1
        BY <2>1, <2>4 DEF IInv, Selection
      <3>3. Range(selected) = 1..Len(kept)
        <4>1. \A i \in 1..Len(selected) : selected[i] \in 1..Len(kept)
          BY <3>1
        <4>. QED
          BY <3>1, <3>2, <4>1 DEF Range
      <3>4. selected \in Bijection(1..Len(selected), 1..Len(kept))
        <4>1. selected \in [1..Len(selected) -> 1..Len(kept)]
          BY <3>1
        <4>. QED
          BY <3>1, <3>2, <4>1 DEF Bijection, Injection, Surjection, IsInjective
      <3>5. Len(selected) = Len(kept)
        <4>1. \A n \in Nat : IsFiniteSet(1..n) /\ Cardinality(1..n) = n
          <5>1. SUFFICES ASSUME NEW n \in Nat PROVE IsFiniteSet(1..n) /\ Cardinality(1..n) = n
            OBVIOUS
          <5>2. IsFiniteSet(1..n) /\ Cardinality(1..n) = IF 1 > n THEN 0 ELSE n - 1 + 1
            BY FS_Interval
          <5>. QED
            BY <5>2
        <4>2. ExistsBijection(1..Len(selected), 1..Len(kept))
          BY <3>4 DEF ExistsBijection
        <4>3. Cardinality(1..Len(kept)) = Cardinality(1..Len(selected))
          BY <3>1, <4>1, <4>2, FS_Bijection
        <4>. QED
          BY <3>1, <4>1, <4>3
      <3>. QED
        BY <3>2, <3>3, <3>5 DEF DiversityKeepsBest
    <2>. QED
      BY <2>2, <2>3, <2>4
  <1>. QED
    BY <1>1, Inv, PTL

(* What changes elsewhere does not take a file's candidates from the answer,  *)
(* and the hits of files that do not change are of one version.              *)
THEOREM UnchangedAnswered == Spec => []UnchangedFilesAnswered
  <1>1. IInv => UnchangedFilesAnswered
    <2>1. SUFFICES ASSUME IInv, at = "done" PROVE UnchangedFilesAnswered
      BY DEF UnchangedFilesAnswered
    <2>2. Done = TopK /\ at \in Answering
      BY <2>1 DEF Done, Answering
    <2>3. /\ Len(hydrated) \in Nat /\ Len(hits) \in Nat
          /\ DOMAIN hits = 1..Len(hits) /\ next - 1 = Len(hydrated)
      BY SMTT(30), <2>1, <2>2 DEF IInv, TypeOK, Answer
    <2>4. \A i \in 1..Len(hydrated) : hydrated[i].id[1] \notin changed =>
            /\ hydrated[i].body = BodyNow(hydrated[i].id)
            /\ hydrated[i].imports = hydrated[i].chunk
            /\ hydrated[i].exports = hydrated[i].chunk
      BY <2>1 DEF IInv, UnchangedHits, Current
    <2>5. ASSUME NEW p \in 1..TopK, Ordered(p).id[1] \notin changed
          PROVE  \E h \in Range(hits) :
                   h.id = Ordered(p).id \/ <<BodyNow(Ordered(p).id), h.body>> \in Alike
      <3>1. PICK i \in 1..Len(hydrated) : hydrated[i].id = Ordered(p).id
        BY <2>1, <2>2, <2>5 DEF IInv, UnchangedHits
      <3>2. PICK m \in 1..Len(hits) :
              hits[m] = hydrated[i] \/ <<hydrated[i].body, hits[m].body>> \in Alike
        BY <2>1, <2>2, <2>3 DEF IInv, Answer
      <3>3. hits[m] \in Range(hits)
        BY <2>3 DEF Range
      <3>. QED
        BY <2>4, <2>5, <3>1, <3>2, <3>3
    <2>6. ASSUME NEW h \in Range(hits), h.id[1] \notin changed
          PROVE  h.chunk = h.imports /\ h.imports = h.exports /\ h.body = BodyNow(h.id)
      <3>1. PICK m \in 1..Len(hits) : h = hits[m]
        BY <2>3 DEF Range
      <3>2. PICK j \in 1..Len(hydrated) : h = hydrated[j]
        BY <2>1, <2>2, <2>3, <3>1 DEF IInv, Answer
      <3>. QED
        BY <2>4, <2>6, <3>2
    <2>. QED
      BY <2>1, <2>5, <2>6 DEF UnchangedFilesAnswered
  <1>. QED
    BY <1>1, Inv, PTL

(* The later a rank, the less it adds. *)
LEMMA DivMonotone ==
  ASSUME NEW x \in Nat, NEW m \in Nat \ {0}, NEW n \in Nat \ {0}, m <= n
  PROVE  x \div n <= x \div m /\ x \div n \in Nat /\ x \div m \in Nat
  <1>. DEFINE q == x \div n
              r == x \div m
  <1>1. q \in Nat /\ n * q <= x
    OBVIOUS
  <1>2. r \in Nat /\ x < m * (r + 1)
    OBVIOUS
  <1>3. m * q <= n * q
    BY <1>1
  <1>4. m * q < m * (r + 1)
    BY <1>1, <1>2, <1>3
  <1>5. q < r + 1
    <2>. HIDE DEF q, r
    <2>. QED
      BY <1>1, <1>2, <1>4
  <1>. QED
    BY <1>1, <1>2, <1>5

LEMMA TimesMonotoneNat ==
  ASSUME NEW w \in Nat, NEW a \in Nat, NEW b \in Nat, a <= b PROVE w * a <= w * b
  OBVIOUS

LEMMA AheadHasMore ==
  ASSUME NEW S, NEW s \in Seq(S), NEW w \in Nat, NEW a, NEW b, Ahead(s, a, b)
  PROVE  Share(s, w, b) <= Share(s, w, a)
  <1>1. a \in Range(s) /\ RankIn(s, a) \in Nat /\ RrfK + RankIn(s, a) \in Nat \ {0}
    BY RankOfMember, RequestAssumption DEF Ahead
  <1>2. CASE b \notin Range(s)
    BY <1>2, ShareTyped DEF Share
  <1>3. CASE b \in Range(s)
    <2>1. RankIn(s, b) \in Nat /\ RrfK + RankIn(s, b) \in Nat \ {0}
      BY <1>3, RankOfMember, RequestAssumption
    <2>2. RrfK + RankIn(s, a) <= RrfK + RankIn(s, b)
      BY <1>1, <1>3, <2>1, RequestAssumption DEF Ahead
    <2>3. /\ Scale \div (RrfK + RankIn(s, b)) <= Scale \div (RrfK + RankIn(s, a))
          /\ Scale \div (RrfK + RankIn(s, b)) \in Nat
          /\ Scale \div (RrfK + RankIn(s, a)) \in Nat
      BY <1>1, <2>1, <2>2, DivMonotone, RequestAssumption
    <2>. QED
      BY <1>1, <1>3, <2>3, TimesMonotoneNat DEF Share
  <1>. QED
    BY <1>2, <1>3

(* Fusion keeps what both rankings agree on, whatever their weights.          *)
THEOREM FusionKeepsRankings == Spec => []FusionRespectsRankings
  <1>1. IInv => FusionRespectsRankings
    <2>1. SUFFICES ASSUME IInv, at = "dedup", ~ request.boost,
                          NEW i \in 1..Len(fused), NEW j \in 1..Len(fused),
                          Ahead(bm25, fused[i].id, fused[j].id),
                          Ahead(vector, fused[i].id, fused[j].id)
                   PROVE  i < j
      BY DEF FusionRespectsRankings
    <2>. DEFINE a == fused[i].id
                b == fused[j].id
    <2>2. /\ fused \in RrfFuseWeighted /\ fused \in Seq(Candidate)
          /\ DOMAIN fused = 1..Len(fused) /\ Len(fused) \in Nat
          /\ bm25 \in Seq(Ids) /\ vector \in Seq(Ids)
          /\ Len(bm25) \in Nat /\ Len(vector) \in Nat
          /\ weights[1] \in Nat /\ weights[2] \in Nat
      BY SMTT(30), <2>1 DEF IInv, TypeOK, Fusion
    <2>3. \A m \in 1..Len(fused) : fused[m].score = FusedScore(fused[m].id)
      <3>1. \A m \in 1..Len(fused) :
              fused[m] \in {[id |-> id, score |-> FusedScore(id)] :
                             id \in Range(bm25) \cup Range(vector)}
        BY <2>2 DEF RrfFuseWeighted, Rows, Injection
      <3>. QED
        BY <3>1
    <2>4. a \in Range(bm25) /\ Bm25Rank(a) = RankIn(bm25, a) /\ RankIn(bm25, a) \in 1..Len(bm25)
      BY <2>1, <2>2, RankOfMember DEF Ahead, Bm25Rank
    <2>5. Bm25Rank(b) \in Nat /\ Bm25Rank(a) < Bm25Rank(b)
      <3>1. CASE b \in Range(bm25)
        BY <2>1, <2>2, <2>4, <3>1, RankOfMember DEF Ahead, Bm25Rank
      <3>2. CASE b \notin Range(bm25)
        BY <2>2, <2>4, <3>2 DEF Bm25Rank
      <3>. QED
        BY <3>1, <3>2
    <2>6. /\ Share(bm25, weights[1], b) <= Share(bm25, weights[1], a)
          /\ Share(vector, weights[2], b) <= Share(vector, weights[2], a)
      BY <2>1, <2>2, AheadHasMore
    <2>7. /\ Share(bm25, weights[1], a) \in Nat /\ Share(bm25, weights[1], b) \in Nat
          /\ Share(vector, weights[2], a) \in Nat /\ Share(vector, weights[2], b) \in Nat
      BY <2>2, ShareTyped
    <2>8. /\ FusedScore(a) \in Nat /\ FusedScore(b) \in Nat /\ FusedScore(b) <= FusedScore(a)
      BY SMTT(30), <2>6, <2>7 DEF FusedScore
    <2>9. ~ FusedBefore(fused[j], fused[i])
      BY <2>3, <2>4, <2>5, <2>8 DEF FusedBefore
    <2>10. ~ (j < i)
      BY <2>2, <2>9 DEF RrfFuseWeighted
    <2>11. i # j
      BY <2>5
    <2>. QED
      BY <2>10, <2>11
  <1>. QED
    BY <1>1, Inv, PTL
=============================================================================
