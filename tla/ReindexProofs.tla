--------------------------- MODULE ReindexProofs ---------------------------
(***************************************************************************)
(* Theorems about the reindex engine, for any number of workers, files,    *)
(* contents and embedders, and without the bounds on starts and edits      *)
(* (which are any two numbers here), on top of lemmas about the            *)
(* transactions of IndexStore.                                             *)
(***************************************************************************)
EXTENDS Reindex, WellFoundedInduction, TLAPS

------------------------------------------------------------------------------
(* The transactions of IndexStore.                                            *)

(* A bounded set of rowids has a largest one: what SQLite's "largest rowid  *)
(* plus one" goes by exists, and no rowid of the table is above it.         *)
LEMMA LargestRowid ==
  ASSUME NEW S, NEW n \in Nat, S \subseteq 1..n, S # {}
  PROVE  /\ Max(S) \in S
         /\ \A x \in S : x <= Max(S)
<1> DEFINE Bounds == {m \in Nat : \A x \in S : x <= m}
<1>1. \E m \in Bounds : \A k \in Bounds : ~ (k < m)
  <2>1. IsWellFoundedOn(OpToRel(<, Nat), Nat)
    BY NatLessThanWellFounded
  <2>2. Bounds \subseteq Nat /\ n \in Bounds
    OBVIOUS
  <2>3. PICK m \in Bounds : \A k \in Bounds : ~ (<<k, m>> \in OpToRel(<, Nat))
    <3> HIDE DEF Bounds
    <3> QED BY <2>1, <2>2, WFMin
  <2>4. \A k \in Bounds : k < m => <<k, m>> \in OpToRel(<, Nat)
    BY <2>2, <2>3 DEF OpToRel
  <2> QED BY <2>3, <2>4
<1>2. PICK m \in Bounds : \A k \in Bounds : ~ (k < m)
  BY <1>1
<1>3. m \in S
  <2> SUFFICES ASSUME m \notin S PROVE FALSE
    OBVIOUS
  <2>1. m \in Nat /\ \A x \in S : x \in Nat /\ x < m
    BY <1>2
  <2>2. PICK x \in S : TRUE
    OBVIOUS
  <2>3. m - 1 \in Nat /\ m - 1 < m
    BY <2>1, <2>2
  <2>4. m - 1 \in Bounds
    BY <2>1, <2>3
  <2> QED BY <1>2, <2>3, <2>4
<1>4. \A x \in S : m >= x
  BY <1>2
<1>5. \E x \in S : \A y \in S : x >= y
  BY <1>3, <1>4
<1>6. Max(S) \in S /\ \A y \in S : Max(S) >= y
  BY <1>5 DEF Max
<1> QED BY <1>6

LEMMA RowidsBounded ==
  ASSUME NEW rows, NEW n \in Nat, DOMAIN rows \subseteq 1..n
  PROVE  /\ MaxRowid(rows) \in Nat
         /\ DOMAIN rows \subseteq 1..MaxRowid(rows)
<1>1. CASE DOMAIN rows = {}
  BY <1>1 DEF MaxRowid
<1>2. CASE DOMAIN rows # {}
  <2>1. /\ Max(DOMAIN rows) \in DOMAIN rows
        /\ \A x \in DOMAIN rows : x <= Max(DOMAIN rows)
    BY <1>2, LargestRowid
  <2> QED BY <1>2, <2>1 DEF MaxRowid
<1> QED BY <1>1, <1>2

------------------------------------------------------------------------------

(* What the deletes leave in each table. *)
LEMMA DeletedTables ==
  ASSUME NEW ix, DOMAIN ix = Tables, NEW p
  PROVE  /\ DOMAIN DeleteFileRows(ix, p) = Tables
         /\ DOMAIN DeleteFileRows(ix, p).chunks = DOMAIN ix.chunks \ RowsOf(ix, p)
         /\ \A r \in DOMAIN DeleteFileRows(ix, p).chunks :
              DeleteFileRows(ix, p).chunks[r] = ix.chunks[r]
         /\ DOMAIN DeleteFileRows(ix, p).vec = DOMAIN ix.vec \ RowsOf(ix, p)
         /\ \A r \in DOMAIN DeleteFileRows(ix, p).vec :
              DeleteFileRows(ix, p).vec[r] = ix.vec[r]
         /\ DOMAIN DeleteFileRows(ix, p).fts = DOMAIN ix.fts \ RowsOf(ix, p)
         /\ \A r \in DOMAIN DeleteFileRows(ix, p).fts :
              DeleteFileRows(ix, p).fts[r] = ix.fts[r]
         /\ DOMAIN DeleteFileRows(ix, p).symbols =
              DOMAIN ix.symbols \ {IdOf(ix.chunks[r]) : r \in RowsOf(ix, p)}
         /\ \A id \in DOMAIN DeleteFileRows(ix, p).symbols :
              DeleteFileRows(ix, p).symbols[id] = ix.symbols[id]
         /\ DeleteFileRows(ix, p).structural = {row \in ix.structural : row[1] # p}
         /\ DeleteFileRows(ix, p).files = ix.files
         /\ DeleteFileRows(ix, p).vecDim = ix.vecDim
         /\ DeleteFileRows(ix, p).embId = ix.embId
         /\ DeleteFileRows(ix, p).embDim = ix.embDim
BY DEF DeleteFileRows, Restrict, Tables

(* What the inserts leave in each table. *)
NewSpan(ix, p, c, r) == ChunkFile[<<p, c>>][r - MaxRowid(ix.chunks)].span

NewSymbols(p, c) ==
  {p} \X {ChunkFile[<<p, c>>][i].span :
            i \in {j \in 1..Len(ChunkFile[<<p, c>>]) : ChunkFile[<<p, c>>][j].symbol}}

LEMMA InsertedTables ==
  ASSUME NEW ix, DOMAIN ix = Tables, NEW p, NEW c, NEW e
  PROVE  /\ DOMAIN InsertChunks(ix, p, c, e) = Tables
         /\ DOMAIN InsertChunks(ix, p, c, e).chunks = DOMAIN ix.chunks \union NewRowids(ix, p, c)
         /\ \A r \in DOMAIN InsertChunks(ix, p, c, e).chunks :
              InsertChunks(ix, p, c, e).chunks[r] =
                IF r \in NewRowids(ix, p, c)
                  THEN [path |-> p, span |-> NewSpan(ix, p, c, r),
                        text |-> <<c, NewSpan(ix, p, c, r)>>]
                  ELSE ix.chunks[r]
         /\ DOMAIN InsertChunks(ix, p, c, e).vec = DOMAIN ix.vec \union NewRowids(ix, p, c)
         /\ \A r \in DOMAIN InsertChunks(ix, p, c, e).vec :
              InsertChunks(ix, p, c, e).vec[r] =
                IF r \in NewRowids(ix, p, c)
                  THEN [text |-> <<c, NewSpan(ix, p, c, r)>>, by |-> e]
                  ELSE ix.vec[r]
         /\ DOMAIN InsertChunks(ix, p, c, e).fts = DOMAIN ix.fts \union NewRowids(ix, p, c)
         /\ \A r \in DOMAIN InsertChunks(ix, p, c, e).fts :
              InsertChunks(ix, p, c, e).fts[r] =
                IF r \in NewRowids(ix, p, c) THEN <<c, NewSpan(ix, p, c, r)>> ELSE ix.fts[r]
         /\ DOMAIN InsertChunks(ix, p, c, e).symbols = DOMAIN ix.symbols \union NewSymbols(p, c)
         /\ \A id \in DOMAIN InsertChunks(ix, p, c, e).symbols :
              InsertChunks(ix, p, c, e).symbols[id] =
                IF id \in NewSymbols(p, c) THEN <<c, id[2]>> ELSE ix.symbols[id]
         /\ InsertChunks(ix, p, c, e).structural = ix.structural
         /\ InsertChunks(ix, p, c, e).files = ix.files
         /\ InsertChunks(ix, p, c, e).vecDim = ix.vecDim
         /\ InsertChunks(ix, p, c, e).embId = ix.embId
         /\ InsertChunks(ix, p, c, e).embDim = ix.embDim
BY DEF InsertChunks, Tables, NewSpan, NewSymbols

(* What the two together, and the upsert of the files row, leave in each. *)
LEMMA ReprocessedRows ==
  ASSUME NEW ix, DOMAIN ix = Tables, NEW p, NEW c, NEW rid, NEW e
  PROVE  /\ DOMAIN Reprocess(ix, p, c, rid, e) = Tables
         /\ Reprocess(ix, p, c, rid, e).chunks =
              InsertChunks(DeleteFileRows(ix, p), p, c, e).chunks
         /\ Reprocess(ix, p, c, rid, e).vec =
              InsertChunks(DeleteFileRows(ix, p), p, c, e).vec
         /\ Reprocess(ix, p, c, rid, e).fts =
              InsertChunks(DeleteFileRows(ix, p), p, c, e).fts
         /\ Reprocess(ix, p, c, rid, e).symbols =
              InsertChunks(DeleteFileRows(ix, p), p, c, e).symbols
BY DeletedTables, InsertedTables DEF Reprocess, Tables

LEMMA ReprocessedFiles ==
  ASSUME NEW ix, DOMAIN ix = Tables, NEW p, NEW c, NEW rid, NEW e
  PROVE  /\ DOMAIN Reprocess(ix, p, c, rid, e).files = DOMAIN ix.files \union {<<rid, p>>}
         /\ \A k \in DOMAIN Reprocess(ix, p, c, rid, e).files :
              Reprocess(ix, p, c, rid, e).files[k] =
                IF k = <<rid, p>> THEN c ELSE ix.files[k]
<1> DEFINE ins == InsertChunks(DeleteFileRows(ix, p), p, c, e)
<1>1. DOMAIN ins = Tables /\ ins.files = ix.files
  BY DeletedTables, InsertedTables
<1>2. Reprocess(ix, p, c, rid, e).files =
        [k \in DOMAIN ins.files \union {<<rid, p>>} |->
           IF k = <<rid, p>> THEN c ELSE ins.files[k]]
  <2> HIDE DEF ins
  <2> QED BY <1>1 DEF Reprocess, Tables, ins
<1> HIDE DEF ins
<1> QED BY <1>1, <1>2

LEMMA ReprocessedStructural ==
  ASSUME NEW ix, DOMAIN ix = Tables, NEW p, NEW c, NEW rid, NEW e
  PROVE  Reprocess(ix, p, c, rid, e).structural =
           IF p \in Parsed THEN DeleteFileRows(ix, p).structural \union {<<p, c>>}
                           ELSE DeleteFileRows(ix, p).structural
<1> DEFINE del == DeleteFileRows(ix, p)
           ins == InsertChunks(del, p, c, e)
<1>1. DOMAIN del = Tables
  BY DeletedTables
<1> HIDE DEF del
<1>2. DOMAIN ins = Tables /\ ins.structural = del.structural
  BY <1>1, InsertedTables
<1> HIDE DEF ins
<1>3. Reprocess(ix, p, c, rid, e).structural =
        IF p \in Parsed THEN ins.structural \union {<<p, c>>} ELSE ins.structural
  BY <1>2 DEF Reprocess, Tables, ins, del
<1> QED BY <1>2, <1>3 DEF del

LEMMA ReprocessedMeta ==
  ASSUME NEW ix, DOMAIN ix = Tables, NEW p, NEW c, NEW rid, NEW e
  PROVE  /\ Reprocess(ix, p, c, rid, e).vecDim = ix.vecDim
         /\ Reprocess(ix, p, c, rid, e).embId = ix.embId
         /\ Reprocess(ix, p, c, rid, e).embDim = ix.embDim
BY DeletedTables, InsertedTables DEF Reprocess, Tables

------------------------------------------------------------------------------

LEMMA ChunkFileType ==
  ASSUME NEW p \in Paths, NEW c \in Contents
  PROVE  /\ Len(ChunkFile[<<p, c>>]) \in Nat
         /\ \A i \in 1..Len(ChunkFile[<<p, c>>]) : ChunkFile[<<p, c>>][i].span \in Spans
<1> DEFINE T == [span : Spans, symbol : BOOLEAN]
           specs == ChunkFile[<<p, c>>]
<1>1. specs \in Seq(T)
  <2>1. ChunkFile \in [Paths \X Contents -> Seq(T)] /\ <<p, c>> \in Paths \X Contents
    BY ChunkFileAssumption
  <2> HIDE DEF T
  <2> QED BY <2>1
<1>2. \A t \in T : t.span \in Spans
  OBVIOUS
<1> HIDE DEF specs, T
<1>3. Len(specs) \in Nat /\ \A i \in 1..Len(specs) : specs[i] \in T
  BY <1>1
<1>4. Len(specs) \in Nat /\ \A i \in 1..Len(specs) : specs[i].span \in Spans
  BY <1>2, <1>3
<1> QED BY <1>4 DEF specs

LEMMA NewSpanType ==
  ASSUME NEW ix, DbType(ix), NEW p \in Paths, NEW c \in Contents
  PROVE  \A r \in NewRowids(ix, p, c) : NewSpan(ix, p, c, r) \in Spans
<1>1. MaxRowid(ix.chunks) \in Nat
  BY DEF DbType
<1> QED BY <1>1, ChunkFileType DEF NewRowids, NewSpan

LEMMA NewSymbolsType ==
  ASSUME NEW p \in Paths, NEW c \in Contents
  PROVE  NewSymbols(p, c) \subseteq ChunkId
BY ChunkFileType DEF NewSymbols, ChunkId

LEMMA OpenType ==
  ASSUME NEW ix, DbType(ix), NEW e \in Embedders
  PROVE  DbType(OpenDb(ix, e))
<1>1. Dim[e] \in Nat
  BY EmbedderAssumption
<1>2. CASE ix.vecDim # 0
  BY <1>2 DEF OpenDb
<1>3. CASE ix.vecDim = 0
  <2> DEFINE d == [ix EXCEPT !.vecDim = Dim[e]]
  <2>1. \A r \in DOMAIN ix.vec : ix.vec[r].by \in Embedders /\ Dim[ix.vec[r].by] = 0
    BY <1>3 DEF DbType, VectorsFit, VecRow
  <2>2. DOMAIN ix.vec = {}
    BY <2>1, EmbedderAssumption
  <2>3. ChunkIdsUnique(d) /\ VectorsFit(d)
    BY <2>2 DEF DbType, ChunkIdsUnique, VectorsFit, Tables
  <2>4. DbType(d)
    BY <1>1, <2>3 DEF DbType, Tables
  <2> QED BY <1>3, <2>4 DEF OpenDb
<1> QED BY <1>2, <1>3

LEMMA DeleteType ==
  ASSUME NEW ix, DbType(ix), NEW p
  PROVE  DbType(DeleteFileRows(ix, p))
<1> DEFINE d == DeleteFileRows(ix, p)
<1>1. DOMAIN ix = Tables
  BY DEF DbType
<1>2. DOMAIN d.chunks \subseteq 1..MaxRowid(ix.chunks)
  BY <1>1, DeletedTables DEF DbType
<1>3. MaxRowid(d.chunks) \in Nat /\ DOMAIN d.chunks \subseteq 1..MaxRowid(d.chunks)
  BY <1>2, RowidsBounded DEF DbType
<1>4. DOMAIN d = Tables
  BY <1>1, DeletedTables
<1>5. /\ \A r \in DOMAIN d.chunks : d.chunks[r] \in ChunkRow
      /\ \A r \in DOMAIN d.vec : d.vec[r] \in VecRow
      /\ \A r \in DOMAIN d.fts : d.fts[r] \in Text
  BY <1>1, DeletedTables DEF DbType
<1>6. /\ DOMAIN d.symbols \subseteq ChunkId
      /\ \A id \in DOMAIN d.symbols : d.symbols[id] \in Text
  BY <1>1, DeletedTables DEF DbType
<1>7. /\ d.structural \subseteq Parsed \X Contents
      /\ d.files = ix.files
      /\ d.vecDim = ix.vecDim /\ d.embId = ix.embId /\ d.embDim = ix.embDim
  BY <1>1, DeletedTables DEF DbType
<1>8. ChunkIdsUnique(d) /\ VectorsFit(d)
  BY <1>1, DeletedTables DEF DbType, ChunkIdsUnique, VectorsFit
<1> HIDE DEF d
<1>9. DbType(d)
  BY <1>3, <1>4, <1>5, <1>6, <1>7, <1>8 DEF DbType
<1> QED BY <1>9 DEF d

(* The chunks of one file get one id each, none of which is taken. *)
LEMMA InsertKeepsIdsUnique ==
  ASSUME NEW ix, DbType(ix), NEW p \in Paths, NEW c \in Contents, NEW e \in Embedders,
         CanInsert(ix, p, c, e)
  PROVE  ChunkIdsUnique(InsertChunks(ix, p, c, e))
<1> DEFINE d == InsertChunks(ix, p, c, e)
           base == MaxRowid(ix.chunks)
           new == NewRowids(ix, p, c)
           specs == ChunkFile[<<p, c>>]
           ids == {<<p, specs[i].span>> : i \in 1..Len(specs)}
<1>1. DOMAIN ix = Tables /\ base \in Nat /\ Len(specs) \in Nat
  BY ChunkFileType DEF DbType
<1>2. \A r \in new : r - base \in 1..Len(specs)
  BY <1>1 DEF NewRowids
<1>3. \A r \in new : IdOf(d.chunks[r]) = <<p, specs[r - base].span>>
  <2> TAKE r \in new
  <2>1. d.chunks[r] = [path |-> p, span |-> NewSpan(ix, p, c, r),
                      text |-> <<c, NewSpan(ix, p, c, r)>>]
    BY <1>1, InsertedTables
  <2> HIDE DEF d
  <2> QED BY <2>1 DEF NewSpan, IdOf
<1>4. /\ DOMAIN d.chunks = DOMAIN ix.chunks \union new
      /\ \A r \in DOMAIN ix.chunks \ new : d.chunks[r] = ix.chunks[r]
  <2>1. DOMAIN d.chunks = DOMAIN ix.chunks \union new
    BY <1>1, InsertedTables
  <2>2. \A r \in DOMAIN d.chunks :
          d.chunks[r] = IF r \in new THEN [path |-> p, span |-> NewSpan(ix, p, c, r),
                                          text |-> <<c, NewSpan(ix, p, c, r)>>]
                        ELSE ix.chunks[r]
    BY <1>1, InsertedTables
  <2> HIDE DEF d
  <2> QED BY <2>1, <2>2
<1>5. \A i, j \in 1..Len(specs) : specs[i].span = specs[j].span => i = j
  BY ChunkFileAssumption
<1>6. ids \intersect {IdOf(ix.chunks[r]) : r \in DOMAIN ix.chunks} = {}
  BY DEF CanInsert
<1>7. \A r, s \in DOMAIN ix.chunks : IdOf(ix.chunks[r]) = IdOf(ix.chunks[s]) => r = s
  BY DEF DbType, ChunkIdsUnique
<1> HIDE DEF d, specs
<1>8. ASSUME NEW r \in DOMAIN d.chunks, NEW s \in DOMAIN d.chunks,
             IdOf(d.chunks[r]) = IdOf(d.chunks[s])
      PROVE  r = s
  <2>1. CASE r \in new /\ s \in new
    <3>1. r - base = s - base
      BY <1>2, <1>3, <1>5, <1>8, <2>1
    <3>2. r \in Int /\ s \in Int
      BY <1>1, <2>1 DEF NewRowids
    <3> QED BY <1>1, <3>1, <3>2
  <2>2. CASE r \notin new /\ s \notin new
    BY <1>4, <1>7, <1>8, <2>2
  <2>3. CASE r \in new /\ s \notin new
    BY <1>2, <1>3, <1>4, <1>6, <1>8, <2>3
  <2>4. CASE r \notin new /\ s \in new
    BY <1>2, <1>3, <1>4, <1>6, <1>8, <2>4
  <2> QED BY <2>1, <2>2, <2>3, <2>4
<1> QED BY <1>8 DEF ChunkIdsUnique, d

LEMMA InsertFits ==
  ASSUME NEW ix, DbType(ix), NEW p \in Paths, NEW c \in Contents, NEW e \in Embedders,
         CanInsert(ix, p, c, e)
  PROVE  VectorsFit(InsertChunks(ix, p, c, e))
<1> DEFINE d == InsertChunks(ix, p, c, e)
           new == NewRowids(ix, p, c)
<1>1. /\ DOMAIN d.vec = DOMAIN ix.vec \union new
      /\ d.vecDim = ix.vecDim
      /\ \A r \in DOMAIN ix.vec \ new : d.vec[r] = ix.vec[r]
      /\ \A r \in new : d.vec[r].by = e
  <2>1. DOMAIN ix = Tables
    BY DEF DbType
  <2>2. DOMAIN d.vec = DOMAIN ix.vec \union new /\ d.vecDim = ix.vecDim
    BY <2>1, InsertedTables
  <2>3. \A r \in DOMAIN d.vec :
          d.vec[r] = IF r \in new THEN [text |-> <<c, NewSpan(ix, p, c, r)>>, by |-> e]
                     ELSE ix.vec[r]
    BY <2>1, InsertedTables
  <2> HIDE DEF d
  <2>4. \A r \in DOMAIN ix.vec \ new : d.vec[r] = ix.vec[r]
    BY <2>2, <2>3
  <2>5. \A r \in new : d.vec[r].by = e
    <3> TAKE r \in new
    <3>1. d.vec[r] = [text |-> <<c, NewSpan(ix, p, c, r)>>, by |-> e]
      BY <2>2, <2>3
    <3> QED BY <3>1
  <2> QED BY <2>2, <2>4, <2>5
<1>2. new # {} => Dim[e] = ix.vecDim
  <2>1. MaxRowid(ix.chunks) \in Nat
    BY DEF DbType
  <2>2. ChunkFile[<<p, c>>] = <<>> => new = {}
    BY <2>1 DEF NewRowids
  <2> QED BY <2>2 DEF CanInsert
<1>3. \A r \in DOMAIN ix.vec : Dim[ix.vec[r].by] = ix.vecDim
  BY DEF DbType, VectorsFit
<1> HIDE DEF d
<1>4. \A r \in DOMAIN d.vec : Dim[d.vec[r].by] = d.vecDim
  BY <1>1, <1>2, <1>3
<1> QED BY <1>4 DEF VectorsFit, d

LEMMA InsertType ==
  ASSUME NEW ix, DbType(ix), NEW p \in Paths, NEW c \in Contents, NEW e \in Embedders,
         CanInsert(ix, p, c, e)
  PROVE  DbType(InsertChunks(ix, p, c, e))
<1> DEFINE d == InsertChunks(ix, p, c, e)
           base == MaxRowid(ix.chunks)
           new == NewRowids(ix, p, c)
           len == Len(ChunkFile[<<p, c>>])
<1>1. DOMAIN ix = Tables /\ base \in Nat
  BY DEF DbType
<1>2. \A r \in new : NewSpan(ix, p, c, r) \in Spans
  BY NewSpanType
<1>3. DOMAIN d.chunks \subseteq 1..(base + len) /\ base + len \in Nat
  <2>1. DOMAIN d.chunks = DOMAIN ix.chunks \union new
    BY <1>1, InsertedTables
  <2>2. DOMAIN ix.chunks \subseteq 1..base
    BY DEF DbType
  <2> QED BY <1>1, <2>1, <2>2, ChunkFileType DEF NewRowids
<1>4. MaxRowid(d.chunks) \in Nat /\ DOMAIN d.chunks \subseteq 1..MaxRowid(d.chunks)
  BY <1>3, RowidsBounded
<1>5. \A r \in new : /\ <<c, NewSpan(ix, p, c, r)>> \in Text
                     /\ [path |-> p, span |-> NewSpan(ix, p, c, r),
                         text |-> <<c, NewSpan(ix, p, c, r)>>] \in ChunkRow
                     /\ [text |-> <<c, NewSpan(ix, p, c, r)>>, by |-> e] \in VecRow
  BY <1>2 DEF Text, ChunkRow, VecRow
<1>6. \A r \in DOMAIN d.chunks : d.chunks[r] \in ChunkRow
  <2> TAKE r \in DOMAIN d.chunks
  <2>1. r \in new \/ (r \in DOMAIN ix.chunks /\ ix.chunks[r] \in ChunkRow)
    BY <1>1, InsertedTables DEF DbType
  <2>2. d.chunks[r] = IF r \in new THEN [path |-> p, span |-> NewSpan(ix, p, c, r),
                                        text |-> <<c, NewSpan(ix, p, c, r)>>]
                      ELSE ix.chunks[r]
    BY <1>1, InsertedTables
  <2> QED BY <1>5, <2>1, <2>2
<1>7. \A r \in DOMAIN d.vec : d.vec[r] \in VecRow
  <2> TAKE r \in DOMAIN d.vec
  <2>1. r \in new \/ (r \in DOMAIN ix.vec /\ ix.vec[r] \in VecRow)
    BY <1>1, InsertedTables DEF DbType
  <2>2. d.vec[r] = IF r \in new THEN [text |-> <<c, NewSpan(ix, p, c, r)>>, by |-> e]
                   ELSE ix.vec[r]
    BY <1>1, InsertedTables
  <2> QED BY <1>5, <2>1, <2>2
<1>8. \A r \in DOMAIN d.fts : d.fts[r] \in Text
  <2> TAKE r \in DOMAIN d.fts
  <2>1. r \in new \/ (r \in DOMAIN ix.fts /\ ix.fts[r] \in Text)
    BY <1>1, InsertedTables DEF DbType
  <2>2. d.fts[r] = IF r \in new THEN <<c, NewSpan(ix, p, c, r)>> ELSE ix.fts[r]
    BY <1>1, InsertedTables
  <2> QED BY <1>5, <2>1, <2>2
<1>9. /\ DOMAIN d.symbols \subseteq ChunkId
      /\ \A id \in DOMAIN d.symbols : d.symbols[id] \in Text
  <2>1. DOMAIN d.symbols = DOMAIN ix.symbols \union NewSymbols(p, c)
    BY <1>1, InsertedTables
  <2>2. \A id \in DOMAIN d.symbols :
          d.symbols[id] = IF id \in NewSymbols(p, c) THEN <<c, id[2]>> ELSE ix.symbols[id]
    BY <1>1, InsertedTables
  <2>3. NewSymbols(p, c) \subseteq ChunkId
    BY NewSymbolsType
  <2>4. \A id \in ChunkId : <<c, id[2]>> \in Text
    BY DEF ChunkId, Text
  <2>5. /\ DOMAIN ix.symbols \subseteq ChunkId
        /\ \A id \in DOMAIN ix.symbols : ix.symbols[id] \in Text
    BY DEF DbType
  <2> HIDE DEF d
  <2> QED BY <2>1, <2>2, <2>3, <2>4, <2>5
<1>10. /\ DOMAIN d = Tables
       /\ d.structural = ix.structural
       /\ d.files = ix.files
       /\ d.vecDim = ix.vecDim /\ d.embId = ix.embId /\ d.embDim = ix.embDim
  BY <1>1, InsertedTables
<1>11. ChunkIdsUnique(d) /\ VectorsFit(d)
  BY InsertKeepsIdsUnique, InsertFits
<1> HIDE DEF d
<1>12. DbType(d)
  BY <1>4, <1>6, <1>7, <1>8, <1>9, <1>10, <1>11 DEF DbType
<1> QED BY <1>12 DEF d

LEMMA ReprocessType ==
  ASSUME NEW ix, DbType(ix), NEW p \in Paths, NEW c \in Contents,
         NEW rid \in RepoIds \union {Placeholder}, NEW e \in Embedders,
         CanReprocess(ix, p, c, e)
  PROVE  DbType(Reprocess(ix, p, c, rid, e))
<1> DEFINE del == DeleteFileRows(ix, p)
           ins == InsertChunks(del, p, c, e)
           d == Reprocess(ix, p, c, rid, e)
<1>1. DOMAIN ix = Tables
  BY DEF DbType
<1>2. DbType(del) /\ DbType(ins)
  BY DeleteType, InsertType DEF CanReprocess
<1>3. /\ DOMAIN d = Tables
      /\ d.chunks = ins.chunks /\ d.vec = ins.vec /\ d.fts = ins.fts
      /\ d.symbols = ins.symbols
      /\ d.structural = IF p \in Parsed THEN del.structural \union {<<p, c>>}
                        ELSE del.structural
      /\ DOMAIN d.files = DOMAIN ix.files \union {<<rid, p>>}
      /\ \A k \in DOMAIN d.files : d.files[k] = IF k = <<rid, p>> THEN c ELSE ix.files[k]
      /\ d.vecDim = ix.vecDim /\ d.embId = ix.embId /\ d.embDim = ix.embDim
  <2>1. /\ DOMAIN d = Tables
        /\ d.chunks = ins.chunks /\ d.vec = ins.vec /\ d.fts = ins.fts
        /\ d.symbols = ins.symbols
    BY <1>1, ReprocessedRows
  <2>2. d.structural = IF p \in Parsed THEN del.structural \union {<<p, c>>}
                       ELSE del.structural
    BY <1>1, ReprocessedStructural
  <2>3. /\ DOMAIN d.files = DOMAIN ix.files \union {<<rid, p>>}
        /\ \A k \in DOMAIN d.files : d.files[k] = IF k = <<rid, p>> THEN c ELSE ix.files[k]
    BY <1>1, ReprocessedFiles
  <2>4. d.vecDim = ix.vecDim /\ d.embId = ix.embId /\ d.embDim = ix.embDim
    BY <1>1, ReprocessedMeta
  <2> QED BY <2>1, <2>2, <2>3, <2>4
<1> HIDE DEF del, ins, d
<1>4. /\ DOMAIN d.files \subseteq RepoKey
      /\ \A k \in DOMAIN d.files : d.files[k] \in Contents
  BY <1>3 DEF DbType, RepoKey
<1>5. d.structural \subseteq Parsed \X Contents
  BY <1>2, <1>3 DEF DbType
<1>6. ChunkIdsUnique(d) /\ VectorsFit(d)
  <2>1. ins.vecDim = ix.vecDim
    BY <1>1, DeletedTables, InsertedTables DEF ins, del
  <2> QED BY <1>2, <1>3, <2>1 DEF DbType, ChunkIdsUnique, VectorsFit
<1>7. DbType(d)
  BY <1>2, <1>3, <1>4, <1>5, <1>6 DEF DbType
<1> QED BY <1>7 DEF d

LEMMA RemoveType ==
  ASSUME NEW ix, DbType(ix), NEW p, NEW rid
  PROVE  DbType(RemoveFile(ix, p, rid))
<1> DEFINE del == DeleteFileRows(ix, p)
<1>1. DbType(del)
  BY DeleteType
<1> HIDE DEF del
<1>2. DbType([del EXCEPT !.files = Restrict(@, DOMAIN @ \ {<<rid, p>>})])
  BY <1>1 DEF DbType, ChunkIdsUnique, VectorsFit, Restrict, Tables
<1> QED BY <1>2 DEF RemoveFile, del

LEMMA WipeType ==
  ASSUME NEW ix, DbType(ix)
  PROVE  DbType(WipeAll(ix))
<1>1. DOMAIN NoRows = {}
  BY DEF NoRows
<1>2. MaxRowid(NoRows) = 0
  BY <1>1 DEF MaxRowid
<1> QED BY <1>1, <1>2 DEF DbType, ChunkIdsUnique, VectorsFit, WipeAll, Tables

LEMMA RewriteType ==
  ASSUME NEW ix, DbType(ix), NEW rid \in RepoIds
  PROVE  DbType(RewritePlaceholder(ix, rid))
<1> DEFINE renamed == {<<rid, p>> : p \in {q \in Paths : <<Placeholder, q>> \in DOMAIN ix.files}}
           kept == {k \in DOMAIN ix.files : k[1] # Placeholder}
           new == [k \in kept \union renamed |->
                     IF k \in renamed THEN ix.files[<<Placeholder, k[2]>>] ELSE ix.files[k]]
<1>1. renamed \subseteq RepoKey /\ kept \subseteq RepoKey
  <2>1. \A p \in Paths : <<rid, p>> \in RepoKey
    BY DEF RepoKey
  <2>2. kept \subseteq RepoKey
    <3>1. DOMAIN ix.files \subseteq RepoKey
      BY DEF DbType
    <3> QED BY <3>1
  <2>3. renamed \subseteq RepoKey
    BY <2>1
  <2> QED BY <2>2, <2>3
<1>2. ASSUME NEW k \in kept \union renamed
      PROVE  new[k] \in Contents
  <2>1. CASE k \in renamed
    <3>1. PICK p \in Paths : k = <<rid, p>> /\ <<Placeholder, p>> \in DOMAIN ix.files
      BY <2>1
    <3>2. new[k] = ix.files[<<Placeholder, p>>]
      BY <2>1, <3>1
    <3> QED BY <3>1, <3>2 DEF DbType
  <2>2. CASE k \notin renamed
    BY <2>2 DEF DbType
  <2> QED BY <2>1, <2>2
<1>3. RewritePlaceholder(ix, rid) = [ix EXCEPT !.files = new]
  BY DEF RewritePlaceholder
<1>4. DOMAIN new = kept \union renamed
  OBVIOUS
<1> HIDE DEF new, kept, renamed
<1>5. DOMAIN new \subseteq RepoKey /\ \A k \in DOMAIN new : new[k] \in Contents
  BY <1>1, <1>2, <1>4
<1> QED BY <1>3, <1>5 DEF DbType, ChunkIdsUnique, VectorsFit, Tables

LEMMA StampType ==
  ASSUME NEW ix, DbType(ix), NEW e \in Embedders
  PROVE  /\ DbType([ix EXCEPT !.embId = e])
         /\ DbType([ix EXCEPT !.embDim = Dim[e]])
<1>1. Dim[e] \in Nat
  BY EmbedderAssumption
<1> QED BY <1>1 DEF DbType, ChunkIdsUnique, VectorsFit, Tables

LEMMA MissingType == DbType(MissingDb)
<1>1. DOMAIN NoRows = {}
  BY DEF NoRows
<1>2. MaxRowid(NoRows) = 0
  BY <1>1 DEF MaxRowid
<1> QED BY <1>1, <1>2 DEF DbType, ChunkIdsUnique, VectorsFit, MissingDb, Tables

(* The first file indexed in a new database meets no rows. *)
LEMMA CanReprocessFirst ==
  ASSUME NEW p \in Paths, NEW c \in Contents, NEW e \in Embedders
  PROVE  CanReprocess(OpenDb(MissingDb, e), p, c, e)
<1> DEFINE open == OpenDb(MissingDb, e)
           del == DeleteFileRows(open, p)
<1>1. /\ DOMAIN open = Tables /\ open.vecDim = Dim[e]
      /\ open.chunks = NoRows /\ open.vec = NoRows
      /\ open.fts = NoRows /\ open.symbols = NoRows
  BY DEF OpenDb, MissingDb, Tables
<1> HIDE DEF open
<1>2. DOMAIN NoRows = {}
  BY DEF NoRows
<1>3. /\ DOMAIN del.chunks = {} /\ DOMAIN del.vec = {} /\ DOMAIN del.fts = {}
      /\ DOMAIN del.symbols = {} /\ del.vecDim = Dim[e]
  BY <1>1, <1>2, DeletedTables
<1> HIDE DEF del
<1>4. CanInsert(del, p, c, e)
  BY <1>3 DEF CanInsert
<1> QED BY <1>4 DEF CanReprocess, del, open

------------------------------------------------------------------------------

(***************************************************************************)
(* RowsBound is kept by every transaction that writes the row tables: the  *)
(* deletes take the same rowids from the three of them, the inserts put    *)
(* the same text under the same rowid in each.                             *)
(***************************************************************************)
LEMMA DeleteBound ==
  ASSUME NEW ix, DOMAIN ix = Tables, RowsBound(ix), NEW p
  PROVE  RowsBound(DeleteFileRows(ix, p))
<1> DEFINE d == DeleteFileRows(ix, p)
<1>1. /\ DOMAIN d.chunks = DOMAIN ix.chunks \ RowsOf(ix, p)
      /\ DOMAIN d.vec = DOMAIN d.chunks
      /\ DOMAIN d.fts = DOMAIN d.chunks
  <2>1. /\ DOMAIN d.chunks = DOMAIN ix.chunks \ RowsOf(ix, p)
        /\ DOMAIN d.vec = DOMAIN ix.vec \ RowsOf(ix, p)
        /\ DOMAIN d.fts = DOMAIN ix.fts \ RowsOf(ix, p)
    BY DeletedTables
  <2> HIDE DEF d
  <2> QED BY <2>1 DEF RowsBound
<1>2. \A r \in DOMAIN d.chunks : /\ d.chunks[r] = ix.chunks[r]
                                /\ d.vec[r] = ix.vec[r]
                                /\ d.fts[r] = ix.fts[r]
  BY <1>1, DeletedTables
<1> HIDE DEF d
<1>3. RowsBound(d)
  BY <1>1, <1>2 DEF RowsBound
<1> QED BY <1>3 DEF d

LEMMA InsertBound ==
  ASSUME NEW ix, DOMAIN ix = Tables, RowsBound(ix), NEW p, NEW c, NEW e
  PROVE  RowsBound(InsertChunks(ix, p, c, e))
<1> DEFINE d == InsertChunks(ix, p, c, e)
           new == NewRowids(ix, p, c)
           text(r) == <<c, NewSpan(ix, p, c, r)>>
<1>1. /\ DOMAIN d.chunks = DOMAIN ix.chunks \union new
      /\ DOMAIN d.vec = DOMAIN d.chunks
      /\ DOMAIN d.fts = DOMAIN d.chunks
  <2>1. /\ DOMAIN d.chunks = DOMAIN ix.chunks \union new
        /\ DOMAIN d.vec = DOMAIN ix.vec \union new
        /\ DOMAIN d.fts = DOMAIN ix.fts \union new
    BY InsertedTables
  <2> HIDE DEF d, new
  <2> QED BY <2>1 DEF RowsBound
<1>2. ASSUME NEW r \in DOMAIN d.chunks
      PROVE  d.vec[r].text = d.chunks[r].text /\ d.fts[r] = d.chunks[r].text
  <2>1. d.chunks[r] = IF r \in new THEN [path |-> p, span |-> NewSpan(ix, p, c, r),
                                        text |-> text(r)]
                      ELSE ix.chunks[r]
    BY InsertedTables
  <2>2. d.vec[r] = IF r \in new THEN [text |-> text(r), by |-> e] ELSE ix.vec[r]
    BY <1>1, InsertedTables
  <2>3. d.fts[r] = IF r \in new THEN text(r) ELSE ix.fts[r]
    BY <1>1, InsertedTables
  <2>4. r \notin new => ix.vec[r].text = ix.chunks[r].text /\ ix.fts[r] = ix.chunks[r].text
    BY <1>1 DEF RowsBound
  <2> HIDE DEF d, new, text
  <2> QED BY <2>1, <2>2, <2>3, <2>4
<1> HIDE DEF d
<1>3. RowsBound(d)
  BY <1>1, <1>2 DEF RowsBound
<1> QED BY <1>3 DEF d

LEMMA ReprocessBound ==
  ASSUME NEW ix, DOMAIN ix = Tables, RowsBound(ix), NEW p, NEW c, NEW rid, NEW e
  PROVE  RowsBound(Reprocess(ix, p, c, rid, e))
<1> DEFINE del == DeleteFileRows(ix, p)
           ins == InsertChunks(del, p, c, e)
           d == Reprocess(ix, p, c, rid, e)
<1>1. DOMAIN del = Tables
  BY DeletedTables
<1>2. RowsBound(ins)
  BY <1>1, DeleteBound, InsertBound
<1>3. d.chunks = ins.chunks /\ d.vec = ins.vec /\ d.fts = ins.fts
  BY ReprocessedRows
<1> HIDE DEF del, ins, d
<1>4. RowsBound(d)
  BY <1>2, <1>3 DEF RowsBound
<1> QED BY <1>4 DEF d

LEMMA RemoveBound ==
  ASSUME NEW ix, DOMAIN ix = Tables, RowsBound(ix), NEW p, NEW rid
  PROVE  RowsBound(RemoveFile(ix, p, rid))
<1> DEFINE del == DeleteFileRows(ix, p)
           d == RemoveFile(ix, p, rid)
<1>1. DOMAIN del = Tables /\ RowsBound(del)
  BY DeletedTables, DeleteBound
<1>2. d.chunks = del.chunks /\ d.vec = del.vec /\ d.fts = del.fts
  BY <1>1 DEF RemoveFile, Tables
<1> HIDE DEF del, d
<1>3. RowsBound(d)
  BY <1>1, <1>2 DEF RowsBound
<1> QED BY <1>3 DEF d

LEMMA WipeBound ==
  ASSUME NEW ix, DOMAIN ix = Tables
  PROVE  RowsBound(WipeAll(ix))
BY DEF RowsBound, WipeAll, NoRows, Tables

(* A transaction that leaves the three row tables alone. *)
LEMMA SameRowsBound ==
  ASSUME NEW ix, RowsBound(ix), NEW d,
         d.chunks = ix.chunks, d.vec = ix.vec, d.fts = ix.fts
  PROVE  RowsBound(d)
BY DEF RowsBound

LEMMA MissingBound == RowsBound(MissingDb)
BY DEF RowsBound, MissingDb, NoRows

------------------------------------------------------------------------------

(***************************************************************************)
(* What a search can return of each file after each transaction.           *)
(***************************************************************************)
LEMMA DeleteSearchable ==
  ASSUME NEW ix, DOMAIN ix = Tables, NEW p, NEW q
  PROVE  Searchable(DeleteFileRows(ix, p), q) = IF q = p THEN {} ELSE Searchable(ix, q)
<1> DEFINE d == DeleteFileRows(ix, p)
<1>1. DOMAIN d.chunks = DOMAIN ix.chunks \ RowsOf(ix, p)
  BY DeletedTables
<1>2. \A r \in DOMAIN d.chunks : d.chunks[r] = ix.chunks[r]
  BY DeletedTables
<1> HIDE DEF d
<1>3. RowsOf(d, q) = IF q = p THEN {} ELSE RowsOf(ix, q)
  BY <1>1, <1>2 DEF RowsOf
<1>4. \A r \in RowsOf(d, q) : d.chunks[r] = ix.chunks[r]
  BY <1>2 DEF RowsOf
<1>5. Searchable(d, q) = IF q = p THEN {} ELSE Searchable(ix, q)
  BY <1>3, <1>4 DEF Searchable
<1> QED BY <1>5 DEF d

(* Here the fresh rowids matter: an insert overwrites no row of another file. *)
LEMMA FreshRowids ==
  ASSUME NEW ix, DbType(ix), NEW p \in Paths, NEW c \in Contents
  PROVE  NewRowids(ix, p, c) \intersect DOMAIN ix.chunks = {}
<1>1. MaxRowid(ix.chunks) \in Nat /\ DOMAIN ix.chunks \subseteq 1..MaxRowid(ix.chunks)
  BY DEF DbType
<1> QED BY <1>1, ChunkFileType DEF NewRowids

LEMMA InsertSearchable ==
  ASSUME NEW ix, DbType(ix), NEW p \in Paths, NEW c \in Contents, NEW e,
         RowsOf(ix, p) = {}, NEW q
  PROVE  Searchable(InsertChunks(ix, p, c, e), q) =
           IF q = p THEN TextsOf(p, c) ELSE Searchable(ix, q)
<1> DEFINE d == InsertChunks(ix, p, c, e)
           new == NewRowids(ix, p, c)
           base == MaxRowid(ix.chunks)
           len == Len(ChunkFile[<<p, c>>])
           text(i) == <<c, ChunkFile[<<p, c>>][i].span>>
<1>1. DOMAIN ix = Tables /\ base \in Nat /\ len \in Nat
  BY ChunkFileType DEF DbType
<1>2. DOMAIN d.chunks = DOMAIN ix.chunks \union new
  BY <1>1, InsertedTables
<1>3. \A r \in new : d.chunks[r].path = p /\ d.chunks[r].text = text(r - base)
  <2> TAKE r \in new
  <2>1. d.chunks[r] = [path |-> p, span |-> NewSpan(ix, p, c, r),
                      text |-> <<c, NewSpan(ix, p, c, r)>>]
    BY <1>1, <1>2, InsertedTables
  <2> HIDE DEF d
  <2> QED BY <2>1 DEF NewSpan
<1>4. \A r \in DOMAIN ix.chunks : r \notin new /\ d.chunks[r] = ix.chunks[r]
  <2> TAKE r \in DOMAIN ix.chunks
  <2>1. r \notin new
    BY FreshRowids
  <2>2. r \in DOMAIN d.chunks
    BY <1>2
  <2>3. d.chunks[r] = IF r \in new THEN [path |-> p, span |-> NewSpan(ix, p, c, r),
                                        text |-> <<c, NewSpan(ix, p, c, r)>>]
                      ELSE ix.chunks[r]
    BY <1>1, <2>2, InsertedTables
  <2> HIDE DEF d, new
  <2> QED BY <2>1, <2>3
<1>5. new = (base + 1)..(base + len)
  BY DEF NewRowids
<1>6. c # Absent
  BY NameAssumption
<1> HIDE DEF d, new, base
<1>7. CASE q = p
  <2>1. RowsOf(d, q) = new
    BY <1>2, <1>3, <1>4, <1>7 DEF RowsOf
  <2>2. Searchable(d, q) = {text(r - base) : r \in new}
    BY <1>3, <2>1 DEF Searchable
  <2>3. \A r \in new : r - base \in 1..len
    BY <1>1, <1>5
  <2>4. \A i \in 1..len : base + i \in new /\ (base + i) - base = i
    BY <1>1, <1>5
  <2>5. {text(r - base) : r \in new} = {text(i) : i \in 1..len}
    <3> HIDE DEF text, len
    <3>1. ASSUME NEW i \in 1..len PROVE text(i) \in {text(r - base) : r \in new}
      BY <2>4
    <3> QED BY <2>3, <3>1
  <2> QED BY <1>6, <1>7, <2>2, <2>5 DEF TextsOf, d
<1>8. CASE q # p
  <2>1. RowsOf(d, q) = RowsOf(ix, q)
    BY <1>2, <1>3, <1>4, <1>8 DEF RowsOf
  <2>2. \A r \in RowsOf(ix, q) : d.chunks[r] = ix.chunks[r]
    BY <1>4 DEF RowsOf
  <2> QED BY <1>8, <2>1, <2>2 DEF Searchable, d
<1> QED BY <1>7, <1>8

(* After its transaction a file is searchable as the content just chunked,  *)
(* and no other file has changed.                                           *)
LEMMA ReprocessSearchable ==
  ASSUME NEW ix, DbType(ix), NEW p \in Paths, NEW c \in Contents, NEW rid, NEW e, NEW q
  PROVE  Searchable(Reprocess(ix, p, c, rid, e), q) =
           IF q = p THEN TextsOf(p, c) ELSE Searchable(ix, q)
<1> DEFINE del == DeleteFileRows(ix, p)
           ins == InsertChunks(del, p, c, e)
           d == Reprocess(ix, p, c, rid, e)
<1>1. DOMAIN ix = Tables /\ DbType(del)
  BY DeleteType DEF DbType
<1>2. RowsOf(del, p) = {}
  <2>1. DOMAIN del.chunks = DOMAIN ix.chunks \ RowsOf(ix, p)
    BY <1>1, DeletedTables
  <2>2. \A r \in DOMAIN del.chunks : del.chunks[r] = ix.chunks[r]
    BY <1>1, DeletedTables
  <2> HIDE DEF del
  <2> QED BY <2>1, <2>2 DEF RowsOf
<1>3. Searchable(del, q) = IF q = p THEN {} ELSE Searchable(ix, q)
  BY <1>1, DeleteSearchable
<1>4. d.chunks = ins.chunks
  BY <1>1, ReprocessedRows
<1> HIDE DEF del, d
<1>5. Searchable(ins, q) = IF q = p THEN TextsOf(p, c) ELSE Searchable(del, q)
  BY <1>1, <1>2, InsertSearchable
<1> HIDE DEF ins
<1>6. Searchable(d, q) = Searchable(ins, q)
  BY <1>4 DEF Searchable, RowsOf
<1> QED BY <1>3, <1>5, <1>6 DEF d

LEMMA RemoveSearchable ==
  ASSUME NEW ix, DOMAIN ix = Tables, NEW p, NEW rid, NEW q
  PROVE  Searchable(RemoveFile(ix, p, rid), q) = IF q = p THEN {} ELSE Searchable(ix, q)
<1> DEFINE del == DeleteFileRows(ix, p)
           d == RemoveFile(ix, p, rid)
<1>1. Searchable(del, q) = IF q = p THEN {} ELSE Searchable(ix, q)
  BY DeleteSearchable
<1>2. DOMAIN del = Tables
  BY DeletedTables
<1> HIDE DEF del
<1>3. d.chunks = del.chunks
  BY <1>2 DEF RemoveFile, Tables, del
<1> HIDE DEF d
<1>4. Searchable(d, q) = Searchable(del, q)
  BY <1>3 DEF Searchable, RowsOf
<1> QED BY <1>1, <1>4 DEF d

LEMMA WipeSearchable ==
  ASSUME NEW ix, DOMAIN ix = Tables, NEW q
  PROVE  Searchable(WipeAll(ix), q) = {}
BY DEF Searchable, RowsOf, WipeAll, NoRows, Tables

LEMMA SameSearchable ==
  ASSUME NEW ix, NEW d, d.chunks = ix.chunks, NEW q
  PROVE  Searchable(d, q) = Searchable(ix, q)
BY DEF Searchable, RowsOf

LEMMA MissingSearchable ==
  ASSUME NEW q
  PROVE  Searchable(MissingDb, q) = {}
BY DEF Searchable, RowsOf, MissingDb, NoRows

------------------------------------------------------------------------------

(***************************************************************************)
(* FileRowsTrue is kept while all files rows are under the repo id of the  *)
(* transaction: then a path has one files row, and the transactions that   *)
(* replace its chunks replace that row.                                    *)
(***************************************************************************)
RowsUnder(ix, rid) == \A k \in DOMAIN ix.files : k[1] = rid

LEMMA OneRowPerPath ==
  ASSUME NEW ix, DbType(ix), NEW rid, RowsUnder(ix, rid), NEW k \in DOMAIN ix.files
  PROVE  k = <<rid, k[2]>> /\ k[2] \in Paths
BY DEF DbType, RowsUnder, RepoKey

LEMMA ReprocessTrue ==
  ASSUME NEW ix, DbType(ix), NEW rid, RowsUnder(ix, rid), FileRowsTrue(ix),
         NEW p \in Paths, NEW c \in Contents, NEW e
  PROVE  /\ FileRowsTrue(Reprocess(ix, p, c, rid, e))
         /\ RowsUnder(Reprocess(ix, p, c, rid, e), rid)
<1> DEFINE d == Reprocess(ix, p, c, rid, e)
<1>1. DOMAIN ix = Tables
  BY DEF DbType
<1>2. DOMAIN d.files = DOMAIN ix.files \union {<<rid, p>>}
  BY <1>1, ReprocessedFiles
<1>3. \A k \in DOMAIN d.files : d.files[k] = IF k = <<rid, p>> THEN c ELSE ix.files[k]
  BY <1>1, ReprocessedFiles
<1>4. \A q \in Paths : Searchable(d, q) = IF q = p THEN TextsOf(p, c) ELSE Searchable(ix, q)
  BY ReprocessSearchable
<1> HIDE DEF d
<1>5. ASSUME NEW k \in DOMAIN d.files
      PROVE  Searchable(d, k[2]) = TextsOf(k[2], d.files[k]) /\ k[1] = rid
  <2>1. CASE k = <<rid, p>>
    BY <1>3, <1>4, <2>1
  <2>2. CASE k # <<rid, p>>
    <3>1. k \in DOMAIN ix.files /\ d.files[k] = ix.files[k]
      BY <1>2, <1>3, <2>2
    <3>2. k[2] \in Paths /\ k[2] # p
      BY <2>2, <3>1, OneRowPerPath
    <3> QED BY <1>4, <3>1, <3>2 DEF FileRowsTrue, RowsUnder
  <2> QED BY <2>1, <2>2
<1>6. FileRowsTrue(d) /\ RowsUnder(d, rid)
  BY <1>5 DEF FileRowsTrue, RowsUnder
<1> QED BY <1>6 DEF d

LEMMA RemoveTrue ==
  ASSUME NEW ix, DbType(ix), NEW rid, RowsUnder(ix, rid), FileRowsTrue(ix), NEW p \in Paths
  PROVE  /\ FileRowsTrue(RemoveFile(ix, p, rid))
         /\ RowsUnder(RemoveFile(ix, p, rid), rid)
<1> DEFINE d == RemoveFile(ix, p, rid)
<1>1. DOMAIN ix = Tables
  BY DEF DbType
<1>2. DOMAIN DeleteFileRows(ix, p) = Tables /\ DeleteFileRows(ix, p).files = ix.files
  BY <1>1, DeletedTables
<1>3. /\ DOMAIN d.files = DOMAIN ix.files \ {<<rid, p>>}
      /\ \A k \in DOMAIN d.files : d.files[k] = ix.files[k]
  BY <1>2 DEF RemoveFile, Restrict, Tables
<1>4. \A q \in Paths : Searchable(d, q) = IF q = p THEN {} ELSE Searchable(ix, q)
  BY <1>1, RemoveSearchable
<1> HIDE DEF d
<1>5. ASSUME NEW k \in DOMAIN d.files
      PROVE  Searchable(d, k[2]) = TextsOf(k[2], d.files[k]) /\ k[1] = rid
  <2>1. k \in DOMAIN ix.files /\ k # <<rid, p>> /\ d.files[k] = ix.files[k]
    BY <1>3
  <2>2. k[2] \in Paths /\ k[2] # p
    BY <2>1, OneRowPerPath
  <2> QED BY <1>4, <2>1, <2>2 DEF FileRowsTrue, RowsUnder
<1>6. FileRowsTrue(d) /\ RowsUnder(d, rid)
  BY <1>5 DEF FileRowsTrue, RowsUnder
<1> QED BY <1>6 DEF d

LEMMA WipeTrue ==
  ASSUME NEW ix, DOMAIN ix = Tables, NEW rid
  PROVE  FileRowsTrue(WipeAll(ix)) /\ RowsUnder(WipeAll(ix), rid)
BY DEF FileRowsTrue, RowsUnder, WipeAll, NoRows, Tables

LEMMA RewriteTrue ==
  ASSUME NEW ix, DbType(ix), FileRowsTrue(ix), NEW rid,
         \A k \in DOMAIN ix.files : k[1] \in {rid, Placeholder}
  PROVE  /\ FileRowsTrue(RewritePlaceholder(ix, rid))
         /\ RowsUnder(RewritePlaceholder(ix, rid), rid)
<1> DEFINE d == RewritePlaceholder(ix, rid)
           renamed == {<<rid, p>> : p \in {q \in Paths : <<Placeholder, q>> \in DOMAIN ix.files}}
           kept == {k \in DOMAIN ix.files : k[1] # Placeholder}
<1>1. /\ d.chunks = ix.chunks
      /\ d.files = [k \in kept \union renamed |->
                     IF k \in renamed THEN ix.files[<<Placeholder, k[2]>>] ELSE ix.files[k]]
  BY DEF RewritePlaceholder, DbType, Tables
<1> HIDE DEF d
<1>2. \A q : Searchable(d, q) = Searchable(ix, q)
  BY <1>1, SameSearchable
<1>3. ASSUME NEW k \in DOMAIN d.files
      PROVE  Searchable(d, k[2]) = TextsOf(k[2], d.files[k]) /\ k[1] = rid
  <2>1. CASE k \in renamed
    <3>1. PICK p \in Paths : k = <<rid, p>> /\ <<Placeholder, p>> \in DOMAIN ix.files
      BY <2>1
    <3>2. d.files[k] = ix.files[<<Placeholder, p>>]
      BY <1>1, <2>1, <3>1
    <3>3. Searchable(ix, p) = TextsOf(p, ix.files[<<Placeholder, p>>])
      BY <3>1 DEF FileRowsTrue
    <3> QED BY <1>2, <3>1, <3>2, <3>3
  <2>2. CASE k \notin renamed
    <3>1. k \in kept /\ d.files[k] = ix.files[k]
      BY <1>1, <2>2
    <3> QED BY <1>2, <3>1 DEF FileRowsTrue
  <2> QED BY <2>1, <2>2
<1>4. FileRowsTrue(d) /\ RowsUnder(d, rid)
  BY <1>3 DEF FileRowsTrue, RowsUnder
<1> QED BY <1>4 DEF d

LEMMA SameTrue ==
  ASSUME NEW ix, NEW d, d.chunks = ix.chunks, d.files = ix.files
  PROVE  /\ FileRowsTrue(ix) => FileRowsTrue(d)
         /\ \A rid : RowsUnder(ix, rid) => RowsUnder(d, rid)
<1>1. \A q : Searchable(d, q) = Searchable(ix, q)
  BY SameSearchable
<1> QED BY <1>1 DEF FileRowsTrue, RowsUnder

------------------------------------------------------------------------------

(***************************************************************************)
(* NoOrphans in three parts, each kept by every transaction.               *)
(***************************************************************************)
ChunksListed(ix) ==
  \A r \in DOMAIN ix.chunks : \E k \in DOMAIN ix.files : k[2] = ix.chunks[r].path

StructuralListed(ix) ==
  \A row \in ix.structural : \E k \in DOMAIN ix.files : k[2] = row[1] /\ ix.files[k] = row[2]

SymbolBacked(ix, id) ==
  \E r \in RowsOf(ix, id[1]) :
    IdOf(ix.chunks[r]) = id /\ ix.symbols[id] = ix.chunks[r].text

LEMMA NoOrphansInParts ==
  ASSUME NEW ix
  PROVE  NoOrphans(ix) <=> /\ ChunksListed(ix)
                           /\ StructuralListed(ix)
                           /\ \A id \in DOMAIN ix.symbols : SymbolBacked(ix, id)
<1> DEFINE listed == {k[2] : k \in DOMAIN ix.files}
           of(p) == {ix.files[k] : k \in {l \in DOMAIN ix.files : l[2] = p}}
<1>1. (\A r \in DOMAIN ix.chunks : ix.chunks[r].path \in listed) <=> ChunksListed(ix)
  BY DEF ChunksListed
<1>2. (\A row \in ix.structural : row[2] \in of(row[1])) <=> StructuralListed(ix)
  BY DEF StructuralListed
<1> QED BY <1>1, <1>2 DEF NoOrphans, SymbolBacked

(* Deleting the rows of a path takes its symbols along.                     *)
LEMMA DeleteOrphansNothing ==
  ASSUME NEW ix, DbType(ix), NoOrphans(ix), NEW p
  PROVE  LET d == DeleteFileRows(ix, p)
         IN  /\ \A r \in DOMAIN d.chunks : r \in DOMAIN ix.chunks /\ d.chunks[r].path # p
             /\ \A id \in DOMAIN d.symbols : SymbolBacked(d, id) /\ id[1] # p
<1> DEFINE d == DeleteFileRows(ix, p)
<1>1. DOMAIN ix = Tables
  BY DEF DbType
<1>2. /\ DOMAIN d.chunks = DOMAIN ix.chunks \ RowsOf(ix, p)
      /\ \A r \in DOMAIN d.chunks : d.chunks[r] = ix.chunks[r]
      /\ DOMAIN d.symbols = DOMAIN ix.symbols \ {IdOf(ix.chunks[r]) : r \in RowsOf(ix, p)}
      /\ \A id \in DOMAIN d.symbols : d.symbols[id] = ix.symbols[id]
  BY <1>1, DeletedTables
<1> HIDE DEF d
<1>3. \A r \in DOMAIN d.chunks : r \in DOMAIN ix.chunks /\ d.chunks[r].path # p
  BY <1>2 DEF RowsOf
<1>4. ASSUME NEW id \in DOMAIN d.symbols
      PROVE  SymbolBacked(d, id) /\ id[1] # p
  <2>1. PICK r \in RowsOf(ix, id[1]) :
          IdOf(ix.chunks[r]) = id /\ ix.symbols[id] = ix.chunks[r].text
    BY <1>2, NoOrphansInParts DEF SymbolBacked
  <2>2. id[1] # p
    BY <1>2, <2>1
  <2>3. r \in RowsOf(d, id[1]) /\ d.chunks[r] = ix.chunks[r]
    BY <1>2, <2>1, <2>2 DEF RowsOf
  <2> QED BY <1>2, <2>1, <2>2, <2>3 DEF SymbolBacked
<1> QED BY <1>3, <1>4 DEF d

LEMMA InsertBacksSymbols ==
  ASSUME NEW ix, DbType(ix), NEW p \in Paths, NEW c \in Contents, NEW e,
         NEW id \in DOMAIN InsertChunks(ix, p, c, e).symbols,
         id \in DOMAIN ix.symbols => SymbolBacked(ix, id)
  PROVE  SymbolBacked(InsertChunks(ix, p, c, e), id)
<1> DEFINE d == InsertChunks(ix, p, c, e)
           new == NewRowids(ix, p, c)
           specs == ChunkFile[<<p, c>>]
           base == MaxRowid(ix.chunks)
<1>1. DOMAIN ix = Tables /\ base \in Nat /\ Len(specs) \in Nat
  BY ChunkFileType DEF DbType
<1>2. /\ DOMAIN d.chunks = DOMAIN ix.chunks \union new
      /\ DOMAIN d.symbols = DOMAIN ix.symbols \union NewSymbols(p, c)
  BY <1>1, InsertedTables
<1>3. \A r \in DOMAIN d.chunks :
        d.chunks[r] = IF r \in new THEN [path |-> p, span |-> NewSpan(ix, p, c, r),
                                        text |-> <<c, NewSpan(ix, p, c, r)>>]
                      ELSE ix.chunks[r]
  BY <1>1, InsertedTables
<1>4. d.symbols[id] = IF id \in NewSymbols(p, c) THEN <<c, id[2]>> ELSE ix.symbols[id]
  BY <1>1, InsertedTables
<1>5. \A r \in DOMAIN ix.chunks : r \notin new
  BY FreshRowids
<1> HIDE DEF d
<1>6. CASE id \in NewSymbols(p, c)
  <2>1. PICK i \in 1..Len(specs) : id = <<p, specs[i].span>>
    BY <1>6 DEF NewSymbols
  <2>2. base + i \in new /\ (base + i) - base = i
    BY <1>1 DEF NewRowids
  <2>3. NewSpan(ix, p, c, base + i) = specs[i].span
    BY <2>2 DEF NewSpan
  <2>4. d.chunks[base + i] = [path |-> p, span |-> specs[i].span, text |-> <<c, specs[i].span>>]
    BY <1>2, <1>3, <2>2, <2>3
  <2>5. base + i \in DOMAIN d.chunks
    BY <1>2, <2>2
  <2> HIDE DEF new, specs, base
  <2> QED BY SMTT(30), <1>4, <1>6, <2>1, <2>4, <2>5 DEF SymbolBacked, RowsOf, IdOf, d
<1>7. CASE id \notin NewSymbols(p, c)
  <2>1. SymbolBacked(ix, id)
    BY <1>2, <1>7 DEF d
  <2>2. PICK r \in RowsOf(ix, id[1]) :
          IdOf(ix.chunks[r]) = id /\ ix.symbols[id] = ix.chunks[r].text
    BY <2>1 DEF SymbolBacked
  <2>3. r \in RowsOf(d, id[1]) /\ d.chunks[r] = ix.chunks[r]
    BY <1>2, <1>3, <1>5, <2>2 DEF RowsOf
  <2> QED BY <1>4, <1>7, <2>2, <2>3 DEF SymbolBacked, d
<1> QED BY <1>6, <1>7

LEMMA ReprocessOrphansNothing ==
  ASSUME NEW ix, DbType(ix), NoOrphans(ix),
         NEW p \in Paths, NEW c \in Contents, NEW rid, NEW e
  PROVE  NoOrphans(Reprocess(ix, p, c, rid, e))
<1> DEFINE del == DeleteFileRows(ix, p)
           ins == InsertChunks(del, p, c, e)
           d == Reprocess(ix, p, c, rid, e)
           key == <<rid, p>>
<1>1. DOMAIN ix = Tables /\ DOMAIN del = Tables /\ DbType(del)
  BY DeleteType, DeletedTables DEF DbType
<1>2. /\ \A r \in DOMAIN del.chunks : r \in DOMAIN ix.chunks /\ del.chunks[r].path # p
      /\ \A id \in DOMAIN del.symbols : SymbolBacked(del, id)
      /\ \A r \in DOMAIN del.chunks : del.chunks[r] = ix.chunks[r]
      /\ del.structural = {row \in ix.structural : row[1] # p}
  BY <1>1, DeleteOrphansNothing, DeletedTables
<1>3. /\ d.chunks = ins.chunks
      /\ d.symbols = ins.symbols
      /\ d.structural \subseteq del.structural \union {<<p, c>>}
      /\ DOMAIN d.files = DOMAIN ix.files \union {key}
      /\ \A k \in DOMAIN d.files : d.files[k] = IF k = key THEN c ELSE ix.files[k]
  <2>1. d.chunks = ins.chunks /\ d.symbols = ins.symbols
    BY <1>1, ReprocessedRows
  <2>2. d.structural = IF p \in Parsed THEN del.structural \union {<<p, c>>} ELSE del.structural
    BY <1>1, ReprocessedStructural
  <2>3. /\ DOMAIN d.files = DOMAIN ix.files \union {key}
        /\ \A k \in DOMAIN d.files : d.files[k] = IF k = key THEN c ELSE ix.files[k]
    BY <1>1, ReprocessedFiles
  <2> HIDE DEF del, ins, d
  <2> QED BY <2>1, <2>2, <2>3
<1>4. /\ DOMAIN ins.chunks = DOMAIN del.chunks \union NewRowids(del, p, c)
      /\ \A r \in DOMAIN ins.chunks :
           ins.chunks[r].path = IF r \in NewRowids(del, p, c) THEN p ELSE del.chunks[r].path
  <2> HIDE DEF del
  <2>1. \A r \in DOMAIN ins.chunks :
          ins.chunks[r] = IF r \in NewRowids(del, p, c)
                            THEN [path |-> p, span |-> NewSpan(del, p, c, r),
                                  text |-> <<c, NewSpan(del, p, c, r)>>]
                            ELSE del.chunks[r]
    BY <1>1, InsertedTables
  <2>2. DOMAIN ins.chunks = DOMAIN del.chunks \union NewRowids(del, p, c)
    BY <1>1, InsertedTables
  <2> HIDE DEF ins
  <2>3. ASSUME NEW r \in DOMAIN ins.chunks
        PROVE  ins.chunks[r].path = IF r \in NewRowids(del, p, c) THEN p ELSE del.chunks[r].path
    <3>1. CASE r \in NewRowids(del, p, c)
      <4> DEFINE row == [path |-> p, span |-> NewSpan(del, p, c, r),
                         text |-> <<c, NewSpan(del, p, c, r)>>]
      <4>1. ins.chunks[r] = row /\ row.path = p
        BY <2>1, <3>1
      <4> HIDE DEF row
      <4> QED BY <3>1, <4>1
    <3>2. CASE r \notin NewRowids(del, p, c)
      BY <2>1, <3>2
    <3> QED BY <3>1, <3>2
  <2> QED BY <2>2, <2>3
<1>5. \A id \in DOMAIN ins.symbols : SymbolBacked(ins, id)
  BY <1>1, <1>2, InsertBacksSymbols
<1> HIDE DEF del, ins, d
<1>6. ChunksListed(d)
  <2> SUFFICES ASSUME NEW r \in DOMAIN d.chunks
               PROVE  \E k \in DOMAIN d.files : k[2] = d.chunks[r].path
    BY DEF ChunksListed
  <2>1. CASE r \in NewRowids(del, p, c)
    <3>1. key \in DOMAIN d.files /\ key[2] = p /\ d.chunks[r].path = p
      BY <1>3, <1>4, <2>1
    <3> QED BY <3>1
  <2>2. CASE r \notin NewRowids(del, p, c)
    <3>1. r \in DOMAIN ix.chunks /\ d.chunks[r].path = ix.chunks[r].path
      BY <1>2, <1>3, <1>4, <2>2
    <3> QED BY <1>3, <3>1, NoOrphansInParts DEF ChunksListed
  <2> QED BY <2>1, <2>2
<1>7. StructuralListed(d)
  <2> SUFFICES ASSUME NEW row \in d.structural
               PROVE  \E k \in DOMAIN d.files : k[2] = row[1] /\ d.files[k] = row[2]
    BY DEF StructuralListed
  <2>1. CASE row = <<p, c>>
    BY <1>3, <2>1
  <2>2. CASE row \in ix.structural /\ row[1] # p
    <3>1. PICK k \in DOMAIN ix.files : k[2] = row[1] /\ ix.files[k] = row[2]
      BY <2>2, NoOrphansInParts DEF StructuralListed
    <3> QED BY <1>3, <2>2, <3>1
  <2> QED BY <1>2, <1>3, <2>1, <2>2
<1>8. \A id \in DOMAIN d.symbols : SymbolBacked(d, id)
  BY <1>3, <1>5 DEF SymbolBacked, RowsOf
<1>9. NoOrphans(d)
  BY <1>6, <1>7, <1>8, NoOrphansInParts
<1> QED BY <1>9 DEF d

(* A removed path loses its one files row, and with it everything else.     *)
LEMMA RemoveOrphansNothing ==
  ASSUME NEW ix, DbType(ix), NEW rid, RowsUnder(ix, rid), NoOrphans(ix), NEW p \in Paths
  PROVE  NoOrphans(RemoveFile(ix, p, rid))
<1> DEFINE del == DeleteFileRows(ix, p)
           d == RemoveFile(ix, p, rid)
<1>1. DOMAIN ix = Tables
  BY DEF DbType
<1>2. /\ \A r \in DOMAIN del.chunks : r \in DOMAIN ix.chunks /\ del.chunks[r].path # p
      /\ \A id \in DOMAIN del.symbols : SymbolBacked(del, id)
      /\ \A r \in DOMAIN del.chunks : del.chunks[r] = ix.chunks[r]
      /\ del.structural = {row \in ix.structural : row[1] # p}
      /\ DOMAIN del = Tables
      /\ del.files = ix.files
  BY <1>1, DeleteOrphansNothing, DeletedTables
<1>3. /\ d.chunks = del.chunks
      /\ d.symbols = del.symbols
      /\ d.structural = del.structural
      /\ DOMAIN d.files = DOMAIN ix.files \ {<<rid, p>>}
      /\ \A k \in DOMAIN d.files : d.files[k] = ix.files[k]
  <2> HIDE DEF del
  <2> QED BY <1>2 DEF RemoveFile, Restrict, Tables, del
<1> HIDE DEF del, d
<1>4. \A k \in DOMAIN ix.files : k[2] # p => k \in DOMAIN d.files /\ d.files[k] = ix.files[k]
  BY <1>3
<1>5. ChunksListed(d)
  BY <1>2, <1>3, <1>4, NoOrphansInParts DEF ChunksListed
<1>6. StructuralListed(d)
  BY <1>2, <1>3, <1>4, NoOrphansInParts DEF StructuralListed
<1>7. \A id \in DOMAIN d.symbols : SymbolBacked(d, id)
  BY <1>2, <1>3 DEF SymbolBacked, RowsOf
<1>8. NoOrphans(d)
  BY <1>5, <1>6, <1>7, NoOrphansInParts
<1> QED BY <1>8 DEF d

LEMMA WipeOrphansNothing ==
  ASSUME NEW ix, DOMAIN ix = Tables
  PROVE  NoOrphans(WipeAll(ix))
BY DEF NoOrphans, WipeAll, NoRows, Tables

LEMMA RewriteOrphansNothing ==
  ASSUME NEW ix, DbType(ix), NoOrphans(ix), NEW rid, CanRewrite(ix, rid)
  PROVE  NoOrphans(RewritePlaceholder(ix, rid))
<1> DEFINE d == RewritePlaceholder(ix, rid)
           renamed == {<<rid, p>> : p \in {q \in Paths : <<Placeholder, q>> \in DOMAIN ix.files}}
           kept == {k \in DOMAIN ix.files : k[1] # Placeholder}
<1>1. /\ d.chunks = ix.chunks /\ d.symbols = ix.symbols /\ d.structural = ix.structural
      /\ d.files = [k \in kept \union renamed |->
                     IF k \in renamed THEN ix.files[<<Placeholder, k[2]>>] ELSE ix.files[k]]
  BY DEF RewritePlaceholder, DbType, Tables
<1> HIDE DEF d
<1>2. ASSUME NEW k \in DOMAIN ix.files
      PROVE  \E l \in DOMAIN d.files : l[2] = k[2] /\ d.files[l] = ix.files[k]
  <2>1. k \in RepoKey
    BY DEF DbType
  <2>2. CASE k[1] = Placeholder
    <3>1. k = <<Placeholder, k[2]>> /\ k[2] \in Paths
      BY <2>1, <2>2 DEF RepoKey
    <3>2. <<rid, k[2]>> \in renamed
      BY <3>1
    <3> QED BY <1>1, <3>1, <3>2
  <2>3. CASE k[1] # Placeholder
    <3>1. k \in kept
      BY <2>3
    <3>2. k \notin renamed
      <4> SUFFICES ASSUME NEW p \in Paths, k = <<rid, p>>, <<Placeholder, p>> \in DOMAIN ix.files
                   PROVE  FALSE
        OBVIOUS
      <4> QED BY DEF CanRewrite
    <3> QED BY <1>1, <3>1, <3>2
  <2> QED BY <2>2, <2>3
<1>3. ChunksListed(d) /\ StructuralListed(d)
  <2>1. ChunksListed(ix) /\ StructuralListed(ix)
    BY NoOrphansInParts
  <2>2. ChunksListed(d)
    <3> SUFFICES ASSUME NEW r \in DOMAIN ix.chunks
                 PROVE  \E l \in DOMAIN d.files : l[2] = ix.chunks[r].path
      <4>1. d.chunks = ix.chunks
        BY <1>1
      <4> QED BY <4>1 DEF ChunksListed
    <3>1. PICK k \in DOMAIN ix.files : k[2] = ix.chunks[r].path
      BY <2>1 DEF ChunksListed
    <3> QED BY <1>2, <3>1
  <2>3. StructuralListed(d)
    <3> SUFFICES ASSUME NEW row \in ix.structural
                 PROVE  \E l \in DOMAIN d.files : l[2] = row[1] /\ d.files[l] = row[2]
      BY <1>1 DEF StructuralListed
    <3>1. PICK k \in DOMAIN ix.files : k[2] = row[1] /\ ix.files[k] = row[2]
      BY <2>1 DEF StructuralListed
    <3> QED BY <1>2, <3>1
  <2> QED BY <2>2, <2>3
<1>4. \A id \in DOMAIN d.symbols : SymbolBacked(d, id)
  BY <1>1, NoOrphansInParts DEF SymbolBacked, RowsOf
<1>5. NoOrphans(d)
  BY <1>3, <1>4, NoOrphansInParts
<1> QED BY <1>5 DEF d

LEMMA SameOrphansNothing ==
  ASSUME NEW ix, NoOrphans(ix), NEW d, d.chunks = ix.chunks, d.files = ix.files,
         d.symbols = ix.symbols, d.structural = ix.structural
  PROVE  NoOrphans(d)
BY DEF NoOrphans, RowsOf

LEMMA MissingOrphansNothing == NoOrphans(MissingDb)
BY DEF NoOrphans, MissingDb, NoRows

------------------------------------------------------------------------------
(* The engine.                                                               *)

(***************************************************************************)
(* TypeOK is not inductive: that a worker writes a content, and not        *)
(* Absent, for the path it is at follows from how it got there.            *)
(***************************************************************************)
WritesWhatItWalked ==
  \A w \in Workers :
    /\ pc[w] \in {"files", "write"} => todo[w] \subseteq Walked(w)
    /\ pc[w] = "write" => cur[w] \in Walked(w)

TypeInv == TypeOK /\ WritesWhatItWalked

(* The types of everything but the index, which a step on it leaves alone.  *)
LocalTypeOK ==
  /\ disk \in Tree
  /\ root \in RepoIds
  /\ pc \in [Workers -> Phases]
  /\ job \in [Workers -> Job]
  /\ seen \in [Workers -> Tree]
  /\ todo \in [Workers -> SUBSET Paths]
  /\ cur \in [Workers -> Paths \union {Idle}]
  /\ metaId \in [Workers -> Embedders \union {NoEmbedder}]
  /\ outcome \in [Workers -> Outcomes]
  /\ quiet \in [Workers -> BOOLEAN]
  /\ starts \in Nat
  /\ edits \in Nat
  /\ moved \in BOOLEAN

LEMMA Initially == Init => TypeInv
<1> SUFFICES ASSUME Init PROVE TypeInv
  OBVIOUS
<1> USE DEF Init
<1>1. DbType(db)
  <2>1. CASE db = MissingDb
    BY <2>1, MissingType
  <2>2. CASE \E p \in Paths, c \in Contents, e \in LegacyEmbedders : db = LegacyDb(p, c, e)
    <3>1. PICK p \in Paths, c \in Contents, e \in LegacyEmbedders : db = LegacyDb(p, c, e)
      BY <2>2
    <3>2. e \in Embedders
      BY LegacyAssumption
    <3>3. DbType(OpenDb(MissingDb, e))
      BY <3>2, MissingType, OpenType
    <3> QED BY <3>1, <3>2, <3>3, CanReprocessFirst, ReprocessType DEF LegacyDb
  <2> QED BY <2>1, <2>2
<1>2. LocalTypeOK
  <2>1. job \in [Workers -> Job]
    <3>1. {[force |-> FALSE, emb |-> e, rid |-> root] : e \in Embedders} \subseteq Job
      <4>1. \A e \in Embedders : [force |-> FALSE, emb |-> e, rid |-> root] \in Job
        BY DEF Job
      <4> QED BY <4>1
    <3> QED BY <3>1
  <2>2. EmptyTree \in Tree /\ "idle" \in Phases /\ "none" \in Outcomes
    BY DEF EmptyTree, Tree, Phases, Outcomes
  <2>3. moved \in BOOLEAN
    OBVIOUS
  <2>4. /\ disk \in Tree /\ root \in RepoIds
        /\ cur \in [Workers -> Paths \union {Idle}]
        /\ quiet \in [Workers -> BOOLEAN]
        /\ starts \in Nat /\ edits \in Nat
    OBVIOUS
  <2>5. /\ pc \in [Workers -> Phases]
        /\ seen \in [Workers -> Tree]
        /\ todo \in [Workers -> SUBSET Paths]
        /\ metaId \in [Workers -> Embedders \union {NoEmbedder}]
        /\ outcome \in [Workers -> Outcomes]
    BY <2>2
  <2> QED BY <2>1, <2>3, <2>4, <2>5 DEF LocalTypeOK
<1>3. WritesWhatItWalked
  BY DEF WritesWhatItWalked
<1> QED BY <1>1, <1>2, <1>3 DEF TypeInv, TypeOK, LocalTypeOK

(* Every step leaves the index well typed. *)
LEMMA StepKeepsDbType ==
  ASSUME TypeInv, [Next]_vars
  PROVE  DbType(db)'
<1> USE DEF TypeInv, TypeOK
<1>1. ASSUME NEW w \in Workers, NEW force \in BOOLEAN, NEW e \in Embedders, Start(w, force, e)
      PROVE  DbType(db)'
  BY <1>1, OpenType DEF Start
<1>2. ASSUME NEW w \in Workers, NEW p \in Paths, Remove(w, p)
      PROVE  DbType(db)'
  BY <1>2, RemoveType DEF Remove, Commit
<1>3. ASSUME NEW w \in Workers, NEW p \in Walked(w), ReprocessFile(w, p)
      PROVE  DbType(db)'
  <2>1. p \in Paths /\ seen[w][p] \in Contents
    BY DEF Walked, Tree
  <2>2. job[w].rid \in RepoIds \union {Placeholder} /\ job[w].emb \in Embedders
    BY DEF Job
  <2>3. CASE db' = db
    BY <2>3
  <2>4. CASE /\ CanReprocess(db, p, seen[w][p], job[w].emb)
             /\ db' = Reprocess(db, p, seen[w][p], job[w].rid, job[w].emb)
    BY <2>1, <2>2, <2>4, ReprocessType
  <2> QED BY <1>3, <2>3, <2>4 DEF ReprocessFile, Commit
<1>4. ASSUME NEW w \in Workers, NEW p \in Paths, ForceFile(w, p)
      PROVE  DbType(db)'
  BY <1>3, <1>4 DEF ForceFile, WritesWhatItWalked
<1>5. ASSUME NEW w \in Workers, WriteFile(w)
      PROVE  DbType(db)'
  BY <1>3, <1>5 DEF WriteFile, WritesWhatItWalked
<1>6. ASSUME NEW w \in Workers, Rewrite(w)
      PROVE  DbType(db)'
  <2>1. job[w].rid \in RepoIds
    BY DEF Job
  <2>2. DbType(RewritePlaceholder(db, job[w].rid))
    BY <2>1, RewriteType
  <2>3. CASE db' = db
    BY <2>3
  <2>4. CASE db' = RewritePlaceholder(db, job[w].rid)
    BY <2>2, <2>4
  <2>5. db' = db \/ db' = RewritePlaceholder(db, job[w].rid)
    BY <1>6 DEF Rewrite, Commit
  <2> QED BY <2>3, <2>4, <2>5
<1>7. ASSUME NEW w \in Workers, StampId(w) \/ StampDim(w)
      PROVE  DbType(db)'
  <2>1. job[w].emb \in Embedders
    BY DEF Job
  <2>2. CASE StampId(w)
    <3>1. db' = [db EXCEPT !.embId = job[w].emb]
      BY <2>2 DEF StampId, Commit
    <3>2. DbType([db EXCEPT !.embId = job[w].emb])
      BY <2>1, StampType
    <3> QED BY <3>1, <3>2
  <2>3. CASE StampDim(w)
    <3>1. db' = [db EXCEPT !.embDim = Dim[job[w].emb]]
      BY <2>3 DEF StampDim, Commit
    <3>2. DbType([db EXCEPT !.embDim = Dim[job[w].emb]])
      BY <2>1, StampType
    <3> QED BY <3>1, <3>2
  <2> QED BY <1>7, <2>2, <2>3
<1>8. ASSUME NEW w \in Workers, Wipe(w)
      PROVE  DbType(db)'
  BY <1>8, WipeType DEF Wipe, Commit
<1>9. ASSUME UNCHANGED db
      PROVE  DbType(db)'
  BY <1>9
<1>10. ASSUME NEW w \in Workers, Step(w)
       PROVE  DbType(db)'
  BY <1>2, <1>4, <1>5, <1>6, <1>7, <1>8, <1>9, <1>10
     DEF Step, WalkFile, SkipFile, ChangedFile, ReadMetaId, Verify, CheckStamped, ListStored,
         RemoveDone, Finish
<1> QED BY <1>1, <1>9, <1>10
        DEF Next, vars, workerVars, counters, Abort, Edit, MoveRepo, Rest

(* A worker's own variables keep their types ...                            *)
LEMMA StepKeepsLocalType ==
  ASSUME TypeInv, [Next]_vars
  PROVE  LocalTypeOK'
<1> USE DEF TypeInv, TypeOK, LocalTypeOK
<1>1. \A w \in Workers : Walked(w) \subseteq Paths
  BY DEF Walked
<1>2. EmptyTree \in Tree
  BY DEF EmptyTree, Tree
<1>3. \A rid : StoredPaths(db, rid) \subseteq Paths
  BY DEF StoredPaths
<1>4. ASSUME NEW w \in Workers, NEW force \in BOOLEAN, NEW e \in Embedders, Start(w, force, e)
      PROVE  LocalTypeOK'
  BY <1>4 DEF Start, Goto, Job, Phases, Outcomes
<1>5. ASSUME NEW w \in Workers, NEW how \in Outcomes, Leave(w, how)
      PROVE  /\ pc' \in [Workers -> Phases]
             /\ job' \in [Workers -> Job]
             /\ seen' \in [Workers -> Tree]
             /\ todo' \in [Workers -> SUBSET Paths]
             /\ cur' \in [Workers -> Paths \union {Idle}]
             /\ metaId' \in [Workers -> Embedders \union {NoEmbedder}]
             /\ outcome' \in [Workers -> Outcomes]
  BY <1>2, <1>5 DEF Leave, Goto, Phases
<1>6. ASSUME NEW w \in Workers, NEW p \in Paths, WalkFile(w, p)
      PROVE  LocalTypeOK'
  <2>1. seen' \in [Workers -> Tree]
    BY <1>6 DEF WalkFile, Tree
  <2>2. pc' \in [Workers -> Phases]
    BY <1>6 DEF WalkFile, Goto, Phases
  <2>3. todo' \in [Workers -> SUBSET Paths]
    BY <1>6 DEF WalkFile
  <2> QED BY <1>6, <2>1, <2>2, <2>3 DEF WalkFile, counters
<1>7. ASSUME NEW w \in Workers, NEW p \in Paths, ReprocessFile(w, p)
      PROVE  LocalTypeOK'
  <2>1. CASE CanReprocess(db, p, seen[w][p], job[w].emb)
    <3>1. /\ quiet' = [v \in Workers |-> quiet[v] /\ (v = w \/ db' = db)]
          /\ pc' = [pc EXCEPT ![w] = "files"]
          /\ todo' = [todo EXCEPT ![w] = @ \ {p}]
          /\ cur' = [cur EXCEPT ![w] = Idle]
          /\ UNCHANGED <<job, seen, metaId, outcome, counters, disk, root>>
      BY <1>7, <2>1 DEF ReprocessFile, Commit, Goto
    <3>2. "files" \in Phases
      BY DEF Phases
    <3> QED BY <3>1, <3>2 DEF counters
  <2>2. CASE ~ CanReprocess(db, p, seen[w][p], job[w].emb)
    <3>1. /\ Leave(w, "rejected") /\ UNCHANGED <<counters, disk, root, quiet>>
      BY <1>7, <2>2 DEF ReprocessFile
    <3>2. "rejected" \in Outcomes
      BY DEF Outcomes
    <3> QED BY <1>5, <3>1, <3>2 DEF counters
  <2> QED BY <2>1, <2>2
<1>8. ASSUME NEW w \in Workers, NEW p \in Paths,
             Remove(w, p) \/ SkipFile(w, p) \/ ChangedFile(w, p)
      PROVE  LocalTypeOK'
  BY ZenonT(60), <1>8 DEF Remove, SkipFile, ChangedFile, Commit, Goto, Phases, counters
<1>9. ASSUME NEW w \in Workers, Rewrite(w)
      PROVE  LocalTypeOK'
  <2>1. CASE CanRewrite(db, job[w].rid)
    BY ZenonT(60), <1>9, <2>1 DEF Rewrite, Commit, Goto, Phases, counters
  <2>2. CASE ~ CanRewrite(db, job[w].rid)
    <3>1. /\ Leave(w, "rejected") /\ UNCHANGED <<counters, disk, root, quiet>>
      BY <1>9, <2>2 DEF Rewrite
    <3>2. "rejected" \in Outcomes
      BY DEF Outcomes
    <3> QED BY <1>5, <3>1, <3>2 DEF counters
  <2> QED BY <2>1, <2>2
<1>10. ASSUME NEW w \in Workers, Verify(w)
       PROVE  LocalTypeOK'
  BY <1>5, <1>10 DEF Verify, Goto, Phases, Outcomes, counters
<1>11. ASSUME NEW w \in Workers,
              ReadMetaId(w) \/ CheckStamped(w) \/ StampId(w) \/ Wipe(w)
       PROVE  LocalTypeOK'
  <2>1. CASE ReadMetaId(w)
    <3>1. db.embId \in Embedders \union {NoEmbedder}
      BY DEF DbType
    <3> QED BY <2>1, <3>1 DEF ReadMetaId, Goto, Phases, counters
  <2>2. CASE CheckStamped(w) \/ StampId(w) \/ Wipe(w)
    BY <2>2 DEF CheckStamped, StampId, Wipe, Commit, Goto, Phases, counters
  <2> QED BY <1>11, <2>1, <2>2
<1>12. ASSUME NEW w \in Workers, StampDim(w) \/ ListStored(w) \/ RemoveDone(w)
       PROVE  LocalTypeOK'
  BY ZenonT(60), <1>1, <1>3, <1>12
     DEF StampDim, ListStored, RemoveDone, Commit, Goto, Phases, counters
<1>13. ASSUME NEW w \in Workers, Finish(w) \/ Abort(w)
       PROVE  LocalTypeOK'
  BY <1>5, <1>13 DEF Finish, Abort, Outcomes, counters
<1>14. ASSUME NEW p \in Paths, NEW c \in Contents \union {Absent}, Edit(p, c)
       PROVE  LocalTypeOK'
  BY <1>14 DEF Edit, Tree, workerVars
<1>15. ASSUME NEW r \in RepoIds, MoveRepo(r)
       PROVE  LocalTypeOK'
  BY <1>15 DEF MoveRepo, workerVars
<1>16. ASSUME UNCHANGED vars
       PROVE  LocalTypeOK'
  BY <1>16 DEF vars, workerVars, counters
<1>17. ASSUME NEW w \in Workers, WriteFile(w)
       PROVE  LocalTypeOK'
  BY <1>1, <1>7, <1>17 DEF WriteFile, WritesWhatItWalked
<1>18. ASSUME NEW w \in Workers, NEW p \in Paths, ForceFile(w, p)
       PROVE  LocalTypeOK'
  BY <1>7, <1>18 DEF ForceFile
<1>19. ASSUME NEW w \in Workers, Step(w)
       PROVE  LocalTypeOK'
  <2> HIDE DEF TypeInv, TypeOK, LocalTypeOK
  <2> QED BY <1>6, <1>8, <1>9, <1>10, <1>11, <1>12, <1>13, <1>17, <1>18, <1>19 DEF Step
<1> HIDE DEF TypeInv, TypeOK, LocalTypeOK
<1> QED BY <1>4, <1>13, <1>14, <1>15, <1>16, <1>19 DEF Next, Rest

(* ... and so does what it has read and is about to write.                  *)
LEMMA StepKeepsWalked ==
  ASSUME TypeInv, [Next]_vars
  PROVE  WritesWhatItWalked'
<1> DEFINE Good(w) == /\ pc[w] \in {"files", "write"} => todo[w] \subseteq Walked(w)
                      /\ pc[w] = "write" => cur[w] \in Walked(w)
<1> USE DEF TypeInv, TypeOK
<1>1. \A w \in Workers : Good(w)
  BY DEF WritesWhatItWalked
<1>2. ASSUME NEW w \in Workers, UNCHANGED <<pc[w], seen[w], todo[w], cur[w]>>
      PROVE  Good(w)'
  BY <1>1, <1>2 DEF Walked
<1>3. ASSUME NEW w \in Workers, NEW v \in Workers, v # w,
             (\E force \in BOOLEAN, e \in Embedders : Start(w, force, e))
               \/ Step(w) \/ Abort(w)
      PROVE  UNCHANGED <<pc[v], seen[v], todo[v], cur[v]>>
  BY <1>3 DEF Step, Start, Abort, WalkFile, Remove, ForceFile, SkipFile, ChangedFile,
              Rewrite, ReadMetaId, Verify, CheckStamped, StampId, StampDim, Wipe, ListStored,
              RemoveDone, WriteFile, Finish, ReprocessFile, Leave, Goto
<1>4. ASSUME NEW w \in Workers, pc'[w] \notin {"files", "write"}
      PROVE  Good(w)'
  BY <1>4
<1>5. ASSUME NEW w \in Workers, NEW force \in BOOLEAN, NEW e \in Embedders,
             Start(w, force, e)
      PROVE  pc'[w] = "walk"
  BY <1>5 DEF Start, Goto
<1>6. ASSUME NEW w \in Workers, NEW how, Leave(w, how)
      PROVE  Good(w)'
  BY <1>4, <1>6 DEF Leave, Goto
<1>7. ASSUME NEW w \in Workers, NEW p \in Paths, WalkFile(w, p)
      PROVE  pc'[w] \notin {"files", "write"}
  BY <1>7 DEF WalkFile, Goto
<1>8. ASSUME NEW w \in Workers, NEW p \in Paths, Remove(w, p)
      PROVE  pc'[w] = "remove"
  BY <1>8 DEF Remove
<1>9. ASSUME NEW w \in Workers, NEW p \in Paths, SkipFile(w, p) \/ ChangedFile(w, p)
      PROVE  Good(w)'
  BY <1>1, <1>9 DEF SkipFile, ChangedFile, Goto, Walked
<1>10. ASSUME NEW w \in Workers, NEW p, ReprocessFile(w, p), pc[w] \in {"files", "write"}
       PROVE  Good(w)'
  <2>1. CASE CanReprocess(db, p, seen[w][p], job[w].emb)
    <3>1. /\ pc' = [pc EXCEPT ![w] = "files"]
          /\ todo' = [todo EXCEPT ![w] = @ \ {p}]
          /\ seen' = seen
      BY <1>10, <2>1 DEF ReprocessFile, Goto
    <3>2. todo[w] \subseteq Walked(w)
      BY <1>1, <1>10
    <3> QED BY <3>1, <3>2 DEF Walked
  <2>2. CASE ~ CanReprocess(db, p, seen[w][p], job[w].emb)
    BY <1>6, <1>10, <2>2 DEF ReprocessFile
  <2> QED BY <2>1, <2>2
<1>11. ASSUME NEW w \in Workers, (\E p \in Paths : ForceFile(w, p)) \/ WriteFile(w)
       PROVE  Good(w)'
  BY <1>10, <1>11 DEF ForceFile, WriteFile
<1>12. ASSUME NEW w \in Workers,
              ReadMetaId(w) \/ CheckStamped(w) \/ StampId(w) \/ Wipe(w) \/ ListStored(w)
       PROVE  pc'[w] \notin {"files", "write"}
  BY <1>12 DEF ReadMetaId, CheckStamped, StampId, Wipe, ListStored, Goto
<1>13. ASSUME NEW w \in Workers, Rewrite(w) \/ Verify(w)
       PROVE  Good(w)'
  <2>1. CASE Leave(w, "rejected") \/ Leave(w, "refused")
    BY <1>6, <2>1
  <2>2. CASE ~ (Leave(w, "rejected") \/ Leave(w, "refused"))
    <3>1. pc'[w] \in {"wipe", "verifyId", "stampedId"}
      BY <1>13, <2>2 DEF Rewrite, Verify, Goto
    <3> QED BY <1>4, <3>1
  <2> QED BY <2>1, <2>2
<1>14. ASSUME NEW w \in Workers, StampDim(w) \/ RemoveDone(w)
       PROVE  Good(w)'
  BY <1>14 DEF StampDim, RemoveDone, Goto, Walked
<1>15. ASSUME NEW w \in Workers, Finish(w) \/ Abort(w)
       PROVE  Good(w)'
  BY <1>6, <1>15 DEF Finish, Abort
<1>16. ASSUME NEW w \in Workers,
              (\E force \in BOOLEAN, e \in Embedders : Start(w, force, e))
                \/ Step(w) \/ Abort(w)
       PROVE  Good(w)'
  <2>1. CASE \E force \in BOOLEAN, e \in Embedders : Start(w, force, e)
    BY <1>4, <1>5, <2>1
  <2>2. CASE \E p \in Paths : WalkFile(w, p) \/ Remove(w, p)
    BY <1>4, <1>7, <1>8, <2>2
  <2>3. CASE ReadMetaId(w) \/ CheckStamped(w) \/ StampId(w) \/ Wipe(w) \/ ListStored(w)
    BY <1>4, <1>12, <2>3
  <2> HIDE DEF Good
  <2> QED BY <1>9, <1>11, <1>13, <1>14, <1>15, <1>16, <2>1, <2>2, <2>3 DEF Step
<1>17. CASE \E w \in Workers :
              (\E force \in BOOLEAN, e \in Embedders : Start(w, force, e))
                \/ Step(w) \/ Abort(w)
  <2> HIDE DEF Good
  <2>1. \A v \in Workers : Good(v)'
    BY <1>2, <1>3, <1>16, <1>17
  <2> QED BY <2>1 DEF Good, WritesWhatItWalked
<1>18. CASE UNCHANGED <<pc, seen, todo, cur>>
  <2> HIDE DEF Good
  <2>1. \A v \in Workers : Good(v)'
    BY <1>2, <1>18
  <2> QED BY <2>1 DEF Good, WritesWhatItWalked
<1> QED BY <1>17, <1>18 DEF Next, Edit, MoveRepo, Rest, vars, workerVars

LEMMA StepKeepsType == TypeInv /\ [Next]_vars => TypeInv'
BY StepKeepsDbType, StepKeepsLocalType, StepKeepsWalked DEF TypeInv, TypeOK, LocalTypeOK

(***************************************************************************)
(* Type correctness: whatever the workers interleave and wherever they     *)
(* die, every variable keeps its type; in particular every table of the    *)
(* index stays well formed and no chunk is ever cut from an absent file.   *)
(***************************************************************************)
THEOREM TypeCorrect == Spec => []TypeOK
<1>1. Init => TypeInv
  BY Initially
<1>2. TypeInv /\ [Next]_vars => TypeInv'
  BY StepKeepsType
<1>3. TypeInv => TypeOK
  BY DEF TypeInv
<1> QED BY <1>1, <1>2, <1>3, PTL DEF Spec

------------------------------------------------------------------------------

(* Every step keeps the rows of the three tables together.                  *)
LEMMA StepKeepsBinding ==
  ASSUME TypeInv, RowBinding, [Next]_vars
  PROVE  RowBinding'
<1> USE DEF RowBinding
<1>1. DOMAIN db = Tables
  BY DEF TypeInv, TypeOK, DbType
<1>2. ASSUME db'.chunks = db.chunks, db'.vec = db.vec, db'.fts = db.fts
      PROVE  RowBinding'
  BY <1>2, SameRowsBound
<1>3. ASSUME NEW w \in Workers, NEW force \in BOOLEAN, NEW e \in Embedders, Start(w, force, e)
      PROVE  RowBinding'
  BY <1>1, <1>2, <1>3 DEF Start, OpenDb, Tables
<1>4. ASSUME NEW w \in Workers, NEW p \in Paths, Remove(w, p)
      PROVE  RowBinding'
  <2>1. RowsBound(RemoveFile(db, p, job[w].rid))
    BY <1>1, RemoveBound
  <2> QED BY <1>4, <2>1 DEF Remove, Commit
<1>5. ASSUME NEW w \in Workers, NEW p, ReprocessFile(w, p)
      PROVE  RowBinding'
  <2>1. RowsBound(Reprocess(db, p, seen[w][p], job[w].rid, job[w].emb))
    BY <1>1, ReprocessBound
  <2>2. db' = db \/ db' = Reprocess(db, p, seen[w][p], job[w].rid, job[w].emb)
    BY <1>5 DEF ReprocessFile, Commit
  <2> QED BY <1>2, <2>1, <2>2
<1>6. ASSUME NEW w \in Workers, Rewrite(w)
      PROVE  RowBinding'
  BY <1>1, <1>2, <1>6 DEF Rewrite, Commit, RewritePlaceholder, Tables
<1>7. ASSUME NEW w \in Workers, StampId(w) \/ StampDim(w)
      PROVE  RowBinding'
  BY <1>1, <1>2, <1>7 DEF StampId, StampDim, Commit, Tables
<1>8. ASSUME NEW w \in Workers, Wipe(w)
      PROVE  RowBinding'
  BY <1>1, <1>8, WipeBound DEF Wipe, Commit
<1>9. ASSUME UNCHANGED db
      PROVE  RowBinding'
  BY <1>2, <1>9
<1>10. ASSUME NEW w \in Workers, Step(w)
       PROVE  RowBinding'
  <2> HIDE DEF RowBinding
  <2> QED BY <1>4, <1>5, <1>6, <1>7, <1>8, <1>9, <1>10
     DEF Step, WalkFile, SkipFile, ChangedFile, ReadMetaId, Verify, CheckStamped, ListStored,
         RemoveDone, Finish, ForceFile, WriteFile
<1> HIDE DEF RowBinding
<1> QED BY <1>3, <1>9, <1>10
        DEF Next, vars, workerVars, counters, Abort, Edit, MoveRepo, Rest

LEMMA InitiallyBound == Init => RowBinding
<1> SUFFICES ASSUME Init PROVE RowBinding
  OBVIOUS
<1>1. CASE db = MissingDb
  BY <1>1, MissingBound DEF RowBinding
<1>2. ASSUME NEW p \in Paths, NEW c \in Contents, NEW e \in LegacyEmbedders,
             db = LegacyDb(p, c, e)
      PROVE  RowBinding
  <2> DEFINE open == OpenDb(MissingDb, e)
  <2>1. DOMAIN MissingDb = Tables
    BY DEF MissingDb, Tables
  <2>2. /\ DOMAIN open = Tables
        /\ open.chunks = MissingDb.chunks
        /\ open.vec = MissingDb.vec
        /\ open.fts = MissingDb.fts
    BY <2>1 DEF OpenDb, Tables
  <2> HIDE DEF open
  <2>3. RowsBound(open)
    BY <2>2, MissingBound, SameRowsBound
  <2>4. RowsBound(Reprocess(open, p, c, Placeholder, e))
    BY <2>2, <2>3, ReprocessBound
  <2> QED BY <1>2, <2>4 DEF RowBinding, LegacyDb, open
<1> QED BY <1>1, <1>2 DEF Init

(***************************************************************************)
(* Whatever the workers interleave and wherever they die, a chunks_vec or  *)
(* chunks_fts row is that of the chunk which now has its rowid.            *)
(***************************************************************************)
THEOREM RowsStayBound == Spec => []RowBinding
<1>1. Init => TypeInv /\ RowBinding
  BY Initially, InitiallyBound
<1>2. TypeInv /\ RowBinding /\ [Next]_vars => TypeInv' /\ RowBinding'
  BY StepKeepsType, StepKeepsBinding
<1> QED BY <1>1, <1>2, PTL DEF Spec

------------------------------------------------------------------------------

(* What a search finds of every file, and its complete versions.            *)
Shown(d) == [p \in Paths |-> Searchable(d, p)]

VersionsOf == [p \in Paths |-> {TextsOf(p, c) : c \in Contents}]

LEMMA PublishStep ==
  ASSUME TypeInv, NEW w \in Workers, NEW p \in Walked(w), ReprocessFile(w, p)
  PROVE  [Abs!Next]_(Shown(db))
<1> DEFINE c == seen[w][p]
<1>1. p \in Paths /\ c \in Contents
  BY DEF Walked, Tree, TypeInv, TypeOK
<1>2. CASE db' = db
  BY <1>2 DEF Shown
<1>3. CASE db' = Reprocess(db, p, c, job[w].rid, job[w].emb)
  <2>1. DbType(db)
    BY DEF TypeInv, TypeOK
  <2>2. \A q \in Paths : Searchable(db', q) = IF q = p THEN TextsOf(p, c) ELSE Searchable(db, q)
    BY <1>1, <1>3, <2>1, ReprocessSearchable
  <2>3. Shown(db') = [Shown(db) EXCEPT ![p] = TextsOf(p, c)]
    BY <2>2 DEF Shown
  <2>4. TextsOf(p, c) \in VersionsOf[p]
    BY <1>1 DEF VersionsOf
  <2>5. Abs!Publish(p)
    BY <2>3, <2>4 DEF Abs!Publish, Shown, VersionsOf
  <2> QED BY <1>1, <2>5 DEF Abs!Next
<1>4. db' = db \/ db' = Reprocess(db, p, c, job[w].rid, job[w].emb)
  BY DEF ReprocessFile, Commit
<1> QED BY <1>2, <1>3, <1>4

LEMMA AbstractStep ==
  ASSUME TypeInv, [Next]_vars
  PROVE  [Abs!Next]_(Shown(db))
<1> DEFINE Simulated == [Abs!Next]_(Shown(db))
<1>1. DOMAIN db = Tables
  BY DEF TypeInv, TypeOK, DbType
<1>2. ASSUME db'.chunks = db.chunks
      PROVE  Simulated
  <2>1. \A q \in Paths : Searchable(db', q) = Searchable(db, q)
    BY <1>2, SameSearchable
  <2> QED BY <2>1 DEF Shown
<1>3. ASSUME NEW w \in Workers, NEW force \in BOOLEAN, NEW e \in Embedders, Start(w, force, e)
      PROVE  Simulated
  <2>1. db'.chunks = db.chunks
    BY <1>1, <1>3 DEF Start, OpenDb, Tables
  <2> QED BY <1>2, <2>1
<1>4. ASSUME NEW w \in Workers, NEW p \in Paths, Remove(w, p)
      PROVE  Simulated
  <2>1. db' = RemoveFile(db, p, job[w].rid)
    BY <1>4 DEF Remove, Commit
  <2>2. \A q \in Paths : Searchable(db', q) = IF q = p THEN {} ELSE Searchable(db, q)
    BY <1>1, <2>1, RemoveSearchable
  <2>3. Abs!Drop(p)
    BY <2>2 DEF Abs!Drop, Abs!Nothing
  <2> QED BY <2>3 DEF Abs!Next
<1>5. ASSUME NEW w \in Workers, (\E p \in Paths : ForceFile(w, p)) \/ WriteFile(w)
      PROVE  Simulated
  <2>1. \E p \in Walked(w) : ReprocessFile(w, p)
    BY <1>5 DEF ForceFile, WriteFile, TypeInv, WritesWhatItWalked
  <2> QED BY <2>1, PublishStep
<1>6. ASSUME NEW w \in Workers, Rewrite(w) \/ StampId(w) \/ StampDim(w)
      PROVE  Simulated
  <2>1. db'.chunks = db.chunks
    BY <1>1, <1>6 DEF Rewrite, StampId, StampDim, Commit, RewritePlaceholder, Tables
  <2> QED BY <1>2, <2>1
<1>7. ASSUME NEW w \in Workers, Wipe(w)
      PROVE  Simulated
  <2>1. db' = WipeAll(db)
    BY <1>7 DEF Wipe, Commit
  <2>2. \A q \in Paths : Searchable(db', q) = {}
    BY <1>1, <2>1, WipeSearchable
  <2>3. Abs!Clear
    BY <2>2 DEF Abs!Clear, Abs!Nothing
  <2> QED BY <2>3 DEF Abs!Next
<1>8. ASSUME UNCHANGED db
      PROVE  Simulated
  BY <1>2, <1>8
<1>9. ASSUME NEW w \in Workers, Step(w)
      PROVE  Simulated
  <2> HIDE DEF Simulated
  <2> QED BY <1>4, <1>5, <1>6, <1>7, <1>8, <1>9
     DEF Step, WalkFile, SkipFile, ChangedFile, ReadMetaId, Verify, CheckStamped, ListStored,
         RemoveDone, Finish
<1> HIDE DEF Simulated
<1>10. Simulated
  BY <1>3, <1>8, <1>9 DEF Next, vars, workerVars, counters, Abort, Edit, MoveRepo, Rest
<1> QED BY <1>10 DEF Simulated

LEMMA AbstractInit == Init => Abs!Init
<1> SUFFICES ASSUME Init, NEW p \in Paths
             PROVE  Searchable(db, p) \in VersionsOf[p] \union {{}}
  BY DEF Abs!Init, Abs!Nothing, VersionsOf
<1>1. CASE db = MissingDb
  BY <1>1, MissingSearchable
<1>2. ASSUME NEW q \in Paths, NEW c \in Contents, NEW e \in LegacyEmbedders,
             db = LegacyDb(q, c, e)
      PROVE  Searchable(db, p) \in VersionsOf[p] \union {{}}
  <2> DEFINE open == OpenDb(MissingDb, e)
  <2>1. DbType(open)
    BY MissingType, OpenType, LegacyAssumption
  <2>2. open.chunks = MissingDb.chunks
    BY DEF OpenDb, MissingDb
  <2> HIDE DEF open
  <2>3. Searchable(open, p) = {}
    BY <2>2, MissingSearchable, SameSearchable
  <2>4. Searchable(Reprocess(open, q, c, Placeholder, e), p) =
          IF p = q THEN TextsOf(q, c) ELSE Searchable(open, p)
    BY <2>1, ReprocessSearchable
  <2> QED BY <1>2, <2>3, <2>4 DEF LegacyDb, open, VersionsOf
<1> QED BY <1>1, <1>2 DEF Init

(***************************************************************************)
(* The engine implements FileIndex: in whatever order the transactions of  *)
(* its workers fall, each takes the index of one file from one complete    *)
(* version (or none) to another, or empties it all.                        *)
(***************************************************************************)
THEOREM Refinement == Spec => PerFileAtomic
<1>1. Init => TypeInv /\ Abs!Init
  BY Initially, AbstractInit
<1>2. TypeInv /\ [Next]_vars => TypeInv'
  BY StepKeepsType
<1>3. TypeInv /\ [Next]_vars => [Abs!Next]_(Shown(db))
  BY AbstractStep
<1> QED BY <1>1, <1>2, <1>3, PTL DEF Spec, PerFileAtomic, Abs!Spec, Shown

------------------------------------------------------------------------------

(***************************************************************************)
(* HashTruth and NothingOrphaned are not inductive alone: a per-file       *)
(* transaction replaces the row under its own repo id, so a row of that    *)
(* path under any other would be left with a stale hash, and would keep    *)
(* nothing listed of it.  Every job has the repo id of the root, which is  *)
(* not moved under a worker; no placeholder is left once one is past the   *)
(* rewrite of placeholders, and none is ever made after that.              *)
(***************************************************************************)
JobsAtRoot == \A w \in Workers : pc[w] # "idle" => job[w].rid = root

RowsAtRoot(d) == \A k \in DOMAIN d.files : k[1] \in {root, Placeholder}

Early == {"idle", "walk", "rewrite"}

PlaceholdersOnlyBefore(d) == RowsUnder(d, root) \/ \A w \in Workers : pc[w] \in Early

(* What a reader of index d can rely on. *)
Sound(d) == FileRowsTrue(d) /\ NoOrphans(d)

SoundInv ==
  ~ moved => Sound(db) /\ RowsAtRoot(db) /\ PlaceholdersOnlyBefore(db)

LEMMA InitiallySound == Init => JobsAtRoot /\ SoundInv
<1> SUFFICES ASSUME Init PROVE JobsAtRoot /\ SoundInv
  OBVIOUS
<1>1. JobsAtRoot /\ PlaceholdersOnlyBefore(db)
  BY DEF Init, JobsAtRoot, PlaceholdersOnlyBefore, Early
<1>2. CASE db = MissingDb
  <2>1. DOMAIN db.files = {}
    BY <1>2 DEF MissingDb, NoRows
  <2>2. Sound(db) /\ RowsAtRoot(db)
    BY <1>2, <2>1, MissingOrphansNothing DEF Sound, FileRowsTrue, RowsAtRoot
  <2> QED BY <1>1, <2>2 DEF SoundInv
<1>3. ASSUME NEW p \in Paths, NEW c \in Contents, NEW e \in LegacyEmbedders,
             db = LegacyDb(p, c, e)
      PROVE  JobsAtRoot /\ SoundInv
  <2> DEFINE open == OpenDb(MissingDb, e)
             d == Reprocess(open, p, c, Placeholder, e)
  <2>1. DbType(open)
    BY MissingType, OpenType, LegacyAssumption
  <2>2. DOMAIN open.files = {}
    BY DEF OpenDb, MissingDb, NoRows
  <2>3. DOMAIN open = Tables
    BY <2>1 DEF DbType
  <2>4. NoOrphans(open)
    <3>1. /\ open.chunks = MissingDb.chunks /\ open.files = MissingDb.files
          /\ open.symbols = MissingDb.symbols /\ open.structural = MissingDb.structural
      BY DEF OpenDb, MissingDb
    <3> HIDE DEF open
    <3> QED BY <3>1, MissingOrphansNothing, SameOrphansNothing
  <2> HIDE DEF open
  <2>5. DOMAIN d.files = DOMAIN open.files \union {<<Placeholder, p>>}
    BY <2>3, ReprocessedFiles
  <2>6. \A k \in DOMAIN d.files : d.files[k] = IF k = <<Placeholder, p>> THEN c ELSE open.files[k]
    BY <2>3, ReprocessedFiles
  <2>7. Searchable(d, p) = TextsOf(p, c) /\ NoOrphans(d)
    BY <2>1, <2>4, ReprocessSearchable, ReprocessOrphansNothing
  <2>8. db = d
    BY <1>3 DEF LegacyDb, open
  <2> HIDE DEF d
  <2>9. Sound(d) /\ RowsAtRoot(d)
    BY <2>2, <2>5, <2>6, <2>7 DEF Sound, FileRowsTrue, RowsAtRoot
  <2> QED BY <1>1, <2>8, <2>9 DEF SoundInv
<1> QED BY <1>2, <1>3 DEF Init

(* A worker's repo id is computed when it starts and kept until it leaves.  *)
LEMMA StepKeepsJobs ==
  ASSUME TypeInv, JobsAtRoot, [Next]_vars
  PROVE  JobsAtRoot'
<1>1. job \in [Workers -> Job] /\ pc \in [Workers -> Phases]
  BY DEF TypeInv, TypeOK
<1>2. ASSUME NEW w \in Workers, NEW force \in BOOLEAN, NEW e \in Embedders, Start(w, force, e)
      PROVE  JobsAtRoot'
  <2>1. /\ job' = [job EXCEPT ![w] = [force |-> force, emb |-> e, rid |-> root]]
        /\ pc' = [pc EXCEPT ![w] = "walk"]
        /\ UNCHANGED root
    BY <1>2 DEF Start, Goto
  <2> QED BY <1>1, <2>1 DEF JobsAtRoot
<1>3. ASSUME UNCHANGED <<job, root>>,
             \A w \in Workers : pc[w] = "idle" => pc'[w] = "idle"
      PROVE  JobsAtRoot'
  BY <1>3 DEF JobsAtRoot
<1>4. ASSUME NEW w \in Workers, pc[w] # "idle", UNCHANGED <<job, root>>,
             NEW phase, pc' = [pc EXCEPT ![w] = phase]
      PROVE  JobsAtRoot'
  BY <1>1, <1>3, <1>4
<1>5. ASSUME NEW w \in Workers, Step(w) \/ Abort(w)
      PROVE  JobsAtRoot'
  <2>1. pc[w] # "idle" /\ UNCHANGED <<job, root>>
    BY <1>5 DEF Step, Abort, WalkFile, Remove, ForceFile, SkipFile, ChangedFile, Rewrite,
                ReadMetaId, Verify, CheckStamped, StampId, StampDim, Wipe, ListStored,
                RemoveDone, WriteFile, Finish, ReprocessFile, Leave
  <2>2. (\E phase : pc' = [pc EXCEPT ![w] = phase]) \/ pc' = pc
    BY <1>5 DEF Step, Abort, WalkFile, Remove, ForceFile, SkipFile, ChangedFile, Rewrite,
                ReadMetaId, Verify, CheckStamped, StampId, StampDim, Wipe, ListStored,
                RemoveDone, WriteFile, Finish, ReprocessFile, Leave, Goto
  <2> QED BY <1>3, <1>4, <2>1, <2>2
<1>6. ASSUME NEW r \in RepoIds, MoveRepo(r)
      PROVE  JobsAtRoot'
  BY <1>6 DEF MoveRepo, JobsAtRoot, workerVars
<1>7. ASSUME NEW p \in Paths, NEW c \in Contents \union {Absent}, Edit(p, c)
      PROVE  JobsAtRoot'
  BY <1>3, <1>7 DEF Edit, workerVars
<1>8. ASSUME UNCHANGED vars
      PROVE  JobsAtRoot'
  BY <1>3, <1>8 DEF vars, workerVars
<1> QED BY <1>2, <1>5, <1>6, <1>7, <1>8 DEF Next, Rest

LEMMA StepKeepsSound ==
  ASSUME TypeInv, JobsAtRoot, SoundInv, [Next]_vars
  PROVE  SoundInv'
<1> DEFINE Fine(d) == Sound(d) /\ RowsUnder(d, root)
<1>1. /\ DOMAIN db = Tables /\ DbType(db)
      /\ job \in [Workers -> Job] /\ pc \in [Workers -> Phases]
      /\ moved \in BOOLEAN
  BY DEF TypeInv, TypeOK, DbType
<1>2. \A w \in Workers : ~ moved /\ pc[w] \notin Early => Fine(db)
  BY DEF SoundInv, PlaceholdersOnlyBefore
<1>3. ASSUME UNCHANGED <<root, moved>>, ~ moved => Fine(db')
      PROVE  SoundInv'
  BY <1>3 DEF SoundInv, PlaceholdersOnlyBefore, RowsAtRoot, RowsUnder
<1>4. ASSUME NEW d, d.chunks = db.chunks, d.files = db.files,
             d.symbols = db.symbols, d.structural = db.structural
      PROVE  /\ Sound(db) => Sound(d)
             /\ RowsAtRoot(db) => RowsAtRoot(d)
             /\ RowsUnder(db, root) => RowsUnder(d, root)
  BY <1>4, SameTrue, SameOrphansNothing DEF Sound, RowsAtRoot
<1>5. ASSUME UNCHANGED <<root, moved>>, db'.chunks = db.chunks, db'.files = db.files,
             db'.symbols = db.symbols, db'.structural = db.structural,
             NEW w \in Workers, NEW phase \in Early, pc' = [pc EXCEPT ![w] = phase]
      PROVE  SoundInv'
  <2>1. (\A v \in Workers : pc[v] \in Early) => (\A v \in Workers : pc'[v] \in Early)
    BY <1>1, <1>5
  <2>2. /\ Sound(db) => Sound(db')
        /\ RowsAtRoot(db) => RowsAtRoot(db')
        /\ RowsUnder(db, root) => RowsUnder(db', root)
    BY <1>4, <1>5
  <2> QED BY <1>5, <2>1, <2>2 DEF SoundInv, PlaceholdersOnlyBefore, RowsAtRoot, RowsUnder
<1>6. ASSUME NEW w \in Workers, pc[w] \notin Early, UNCHANGED <<root, moved>>,
             db'.chunks = db.chunks, db'.files = db.files,
             db'.symbols = db.symbols, db'.structural = db.structural
      PROVE  SoundInv'
  <2>1. ~ moved => Fine(db')
    BY <1>2, <1>4, <1>6
  <2> QED BY <1>3, <1>6, <2>1
<1>7. ASSUME NEW w \in Workers, pc[w] # "idle"
      PROVE  job[w].rid = root
  BY <1>7 DEF JobsAtRoot
<1>8. ASSUME NEW w \in Workers, NEW force \in BOOLEAN, NEW e \in Embedders, Start(w, force, e)
      PROVE  SoundInv'
  <2>1. /\ db'.chunks = db.chunks /\ db'.files = db.files
        /\ db'.symbols = db.symbols /\ db'.structural = db.structural
    BY <1>1, <1>8 DEF Start, OpenDb, Tables
  <2>2. pc' = [pc EXCEPT ![w] = "walk"] /\ "walk" \in Early /\ UNCHANGED <<root, moved>>
    BY <1>8 DEF Start, Goto, Early
  <2> QED BY <1>5, <2>1, <2>2
<1>9. ASSUME NEW w \in Workers, NEW p \in Paths, WalkFile(w, p)
      PROVE  SoundInv'
  <2>1. UNCHANGED <<db, root, moved>>
    BY <1>9 DEF WalkFile, counters
  <2>2. \E phase \in Early : pc' = [pc EXCEPT ![w] = phase]
    BY <1>9 DEF WalkFile, Goto, Early
  <2> QED BY <1>5, <2>1, <2>2
<1>10. ASSUME NEW w \in Workers, NEW how, Leave(w, how), UNCHANGED <<db, root, moved>>
       PROVE  SoundInv'
  <2>1. pc' = [pc EXCEPT ![w] = "idle"] /\ "idle" \in Early
    BY <1>10 DEF Leave, Goto, Early
  <2> QED BY <1>5, <1>10, <2>1
<1>11. ASSUME NEW w \in Workers, Rewrite(w)
       PROVE  SoundInv'
  <2>0. UNCHANGED <<root, moved>>
    BY <1>11 DEF Rewrite, counters
  <2>1. CASE CanRewrite(db, job[w].rid)
    <3>1. db' = RewritePlaceholder(db, job[w].rid)
      BY <1>11, <2>1 DEF Rewrite, Commit
    <3>2. ASSUME ~ moved PROVE Fine(db')
      <4>1. job[w].rid = root
        BY <1>7, <1>11 DEF Rewrite
      <4>2. FileRowsTrue(db) /\ NoOrphans(db) /\ RowsAtRoot(db)
        BY <3>2 DEF SoundInv, Sound
      <4>3. /\ FileRowsTrue(RewritePlaceholder(db, root))
            /\ RowsUnder(RewritePlaceholder(db, root), root)
        BY <1>1, <4>2, RewriteTrue DEF RowsAtRoot
      <4>4. NoOrphans(RewritePlaceholder(db, root))
        BY <1>1, <2>1, <4>1, <4>2, RewriteOrphansNothing
      <4> QED BY <3>1, <4>1, <4>3, <4>4 DEF Sound
    <3> QED BY <1>3, <2>0, <3>2
  <2>2. CASE ~ CanRewrite(db, job[w].rid)
    <3>1. Leave(w, "rejected") /\ UNCHANGED db
      BY <1>11, <2>2 DEF Rewrite
    <3> QED BY <1>10, <2>0, <3>1
  <2> QED BY <2>1, <2>2
<1>12. ASSUME NEW w \in Workers, NEW p \in Paths, Remove(w, p)
       PROVE  SoundInv'
  <2>1. db' = RemoveFile(db, p, job[w].rid) /\ UNCHANGED <<root, moved>>
    BY <1>12 DEF Remove, Commit, counters
  <2>2. ASSUME ~ moved PROVE Fine(db')
    <3>1. job[w].rid = root /\ Fine(db)
      BY <1>2, <1>7, <1>12, <2>2 DEF Remove, Early
    <3>2. FileRowsTrue(RemoveFile(db, p, root)) /\ RowsUnder(RemoveFile(db, p, root), root)
      BY <1>1, <3>1, RemoveTrue DEF Sound
    <3>3. NoOrphans(RemoveFile(db, p, root))
      BY <1>1, <3>1, RemoveOrphansNothing DEF Sound
    <3> QED BY <2>1, <3>1, <3>2, <3>3 DEF Sound
  <2> QED BY <1>3, <2>1, <2>2
<1>13. ASSUME NEW w \in Workers, NEW p \in Walked(w), pc[w] \in {"files", "write"},
              ReprocessFile(w, p)
       PROVE  SoundInv'
  <2>0. UNCHANGED <<root, moved>>
    BY <1>13 DEF ReprocessFile, counters
  <2>1. CASE CanReprocess(db, p, seen[w][p], job[w].emb)
    <3> DEFINE d == Reprocess(db, p, seen[w][p], root, job[w].emb)
    <3>1. db' = Reprocess(db, p, seen[w][p], job[w].rid, job[w].emb)
      BY <1>13, <2>1 DEF ReprocessFile, Commit
    <3>2. p \in Paths /\ seen[w][p] \in Contents
      BY DEF Walked, TypeInv, TypeOK, Tree
    <3>3. ASSUME ~ moved PROVE Fine(db')
      <4>1. job[w].rid = root /\ Fine(db)
        BY <1>2, <1>7, <1>13, <3>3 DEF Early
      <4>2. FileRowsTrue(d) /\ RowsUnder(d, root)
        BY <1>1, <3>2, <4>1, ReprocessTrue DEF Sound
      <4>3. NoOrphans(d)
        BY <1>1, <3>2, <4>1, ReprocessOrphansNothing DEF Sound
      <4>4. db' = d
        BY <3>1, <4>1
      <4> HIDE DEF d
      <4> QED BY <4>2, <4>3, <4>4 DEF Sound
    <3> QED BY <1>3, <2>0, <3>3
  <2>2. CASE ~ CanReprocess(db, p, seen[w][p], job[w].emb)
    <3>1. Leave(w, "rejected") /\ UNCHANGED db
      BY <1>13, <2>2 DEF ReprocessFile
    <3> QED BY <1>10, <2>0, <3>1
  <2> QED BY <2>1, <2>2
<1>14. ASSUME NEW w \in Workers, (\E p \in Paths : ForceFile(w, p)) \/ WriteFile(w)
       PROVE  SoundInv'
  BY <1>13, <1>14 DEF ForceFile, WriteFile, TypeInv, WritesWhatItWalked
<1>15. ASSUME NEW w \in Workers, StampId(w) \/ StampDim(w)
       PROVE  SoundInv'
  <2>1. pc[w] \notin Early /\ UNCHANGED <<root, moved>>
    BY <1>15 DEF StampId, StampDim, Early, counters
  <2>2. /\ db'.chunks = db.chunks /\ db'.files = db.files
        /\ db'.symbols = db.symbols /\ db'.structural = db.structural
    BY <1>1, <1>15 DEF StampId, StampDim, Commit, Tables
  <2> QED BY <1>6, <2>1, <2>2
<1>16. ASSUME NEW w \in Workers, Wipe(w)
       PROVE  SoundInv'
  <2>1. db' = WipeAll(db) /\ UNCHANGED <<root, moved>>
    BY <1>16 DEF Wipe, Commit, counters
  <2>2. Fine(WipeAll(db))
    BY <1>1, WipeTrue, WipeOrphansNothing DEF Sound
  <2> QED BY <1>3, <2>1, <2>2
<1>17. ASSUME NEW w \in Workers,
              \/ ReadMetaId(w) \/ CheckStamped(w) \/ ListStored(w) \/ RemoveDone(w) \/ Verify(w)
              \/ \E p \in Paths : SkipFile(w, p) \/ ChangedFile(w, p)
       PROVE  SoundInv'
  <2>1. pc[w] \notin Early /\ UNCHANGED <<db, root, moved>>
    BY <1>17 DEF ReadMetaId, CheckStamped, ListStored, RemoveDone, Verify, SkipFile,
                 ChangedFile, Early, counters
  <2> QED BY <1>6, <2>1
<1>18. ASSUME NEW w \in Workers, Finish(w) \/ Abort(w)
       PROVE  SoundInv'
  BY <1>10, <1>18 DEF Finish, Abort, counters
<1>19. ASSUME UNCHANGED <<db, root, moved, pc>>
       PROVE  SoundInv'
  BY <1>19 DEF SoundInv, RowsAtRoot, PlaceholdersOnlyBefore, RowsUnder
<1>20. ASSUME NEW r \in RepoIds, MoveRepo(r)
       PROVE  SoundInv'
  BY <1>20 DEF MoveRepo, SoundInv
<1>21. ASSUME NEW w \in Workers, Step(w)
       PROVE  SoundInv'
  BY <1>9, <1>11, <1>12, <1>14, <1>15, <1>16, <1>17, <1>18, <1>21 DEF Step
<1> QED BY <1>8, <1>18, <1>19, <1>20, <1>21
        DEF Next, vars, workerVars, counters, Edit, Rest

LEMMA SoundInvariant == Spec => [](HashTruth /\ NothingOrphaned)
<1>1. Init => TypeInv /\ JobsAtRoot /\ SoundInv
  BY Initially, InitiallySound
<1>2. TypeInv /\ JobsAtRoot /\ SoundInv /\ [Next]_vars =>
        TypeInv' /\ JobsAtRoot' /\ SoundInv'
  BY StepKeepsType, StepKeepsJobs, StepKeepsSound
<1>3. SoundInv => HashTruth /\ NothingOrphaned
  BY DEF SoundInv, Sound, HashTruth, NothingOrphaned
<1> QED BY <1>1, <1>2, <1>3, PTL DEF Spec

(***************************************************************************)
(* While the repository stays where it is, every committed files row has   *)
(* the hash of the content its path's chunks were cut from, so skipping a  *)
(* file by its hash skips nothing that is out of date in the index.  Once  *)
(* it has been moved that is false: see the run reindex_moved.             *)
(***************************************************************************)
THEOREM HashesTrue == Spec => []HashTruth
BY SoundInvariant, PTL

(***************************************************************************)
(* And every path with chunks, imports or exports has a files row by which *)
(* the removal pass finds it, the structural rows are those of the content *)
(* it records, and a symbol is that of a chunk still there.                *)
(***************************************************************************)
THEOREM NothingIsOrphaned == Spec => []NothingOrphaned
BY SoundInvariant, PTL

------------------------------------------------------------------------------

(***************************************************************************)
(* QuietReindexExact follows the control of reindex_with: what a worker    *)
(* that nothing has disturbed knows of the tree and the index at each of   *)
(* its phases.                                                             *)
(***************************************************************************)
Progress(w) ==
  /\ pc[w] = "walk" => \A p \in Paths : p \notin todo[w] => seen[w][p] = disk[p]
  /\ pc[w] \notin {"idle", "walk"} => seen[w] = disk
  /\ pc[w] \in {"verifyId", "verifyDim", "stampedId", "stampedDim", "list", "remove", "write"} =>
       ~ job[w].force
  /\ pc[w] \in {"stampId", "stampDim"} /\ job[w].force => DOMAIN db.files = {}
  /\ pc[w] = "remove" => \A k \in DOMAIN db.files : k[2] \in Walked(w) \union todo[w]
  /\ pc[w] \in {"files", "write"} =>
       /\ \A k \in DOMAIN db.files : k[2] \in Walked(w)
       /\ \A p \in Walked(w) : p \notin todo[w] =>
            <<root, p>> \in DOMAIN db.files /\ db.files[<<root, p>>] = disk[p]
  /\ pc[w] = "idle" /\ outcome[w] = "ok" => IndexExact(db, disk, root)

(***************************************************************************)
(* A forced reindex needs no index it can rely on: it makes one.           *)
(***************************************************************************)
AllBy(d, e) == \A r \in DOMAIN d.vec : d.vec[r].by = e

Anew(w) ==
  /\ pc[w] \in {"stampId", "stampDim", "files"} =>
       Sound(db) /\ RowsUnder(db, root) /\ AllBy(db, job[w].emb)
  /\ pc[w] \in {"stampDim", "files"} => db.embId = job[w].emb
  /\ pc[w] = "files" => db.embDim = Dim[job[w].emb]
  /\ pc[w] = "idle" /\ outcome[w] = "ok" =>
       db.embId = job[w].emb /\ db.embDim = Dim[job[w].emb] /\ AllBy(db, job[w].emb)

QuietInv ==
  \A w \in Workers : quiet[w] =>
    /\ ~ moved \/ job[w].force => Progress(w)
    /\ job[w].force => Anew(w)

(* A worker at work has not returned yet. *)
NoOutcomeYet == \A w \in Workers : pc[w] # "idle" => outcome[w] = "none"

(* All that Progress rests on. *)
EngineInv == TypeInv /\ RowBinding /\ JobsAtRoot /\ SoundInv /\ NoOutcomeYet

LEMMA InitiallyQuiet == Init => QuietInv /\ NoOutcomeYet
BY DEF Init, QuietInv, NoOutcomeYet

LEMMA StepKeepsNoOutcome ==
  ASSUME TypeInv, NoOutcomeYet, [Next]_vars
  PROVE  NoOutcomeYet'
<1>1. pc \in [Workers -> Phases] /\ outcome \in [Workers -> Outcomes]
  BY DEF TypeInv, TypeOK
<1>2. ASSUME NEW w \in Workers, NEW force \in BOOLEAN, NEW e \in Embedders, Start(w, force, e)
      PROVE  NoOutcomeYet'
  BY <1>1, <1>2 DEF Start, Goto, NoOutcomeYet
<1>3. ASSUME NEW w \in Workers, NEW how, Leave(w, how)
      PROVE  NoOutcomeYet'
  BY <1>1, <1>3 DEF Leave, Goto, NoOutcomeYet
<1>4. ASSUME NEW w \in Workers, pc[w] # "idle", UNCHANGED outcome,
             NEW phase, pc' = [pc EXCEPT ![w] = phase]
      PROVE  NoOutcomeYet'
  BY <1>1, <1>4 DEF NoOutcomeYet
<1>5. ASSUME UNCHANGED <<pc, outcome>>
      PROVE  NoOutcomeYet'
  BY <1>5 DEF NoOutcomeYet
<1>6. ASSUME NEW w \in Workers, Step(w) \/ Abort(w)
      PROVE  NoOutcomeYet'
  <2>1. \/ \E how : Leave(w, how)
        \/ UNCHANGED <<pc, outcome>>
        \/ pc[w] # "idle" /\ UNCHANGED outcome /\ \E phase : pc' = [pc EXCEPT ![w] = phase]
    BY <1>6 DEF Step, Abort, WalkFile, Remove, ForceFile, SkipFile, ChangedFile, Rewrite,
                ReadMetaId, Verify, CheckStamped, StampId, StampDim, Wipe, ListStored,
                RemoveDone, WriteFile, Finish, ReprocessFile, Goto
  <2> QED BY <1>3, <1>4, <1>5, <2>1
<1> QED BY <1>2, <1>5, <1>6 DEF Next, Edit, MoveRepo, Rest, vars, workerVars

(* A worker that stays quiet has been disturbed by no other. *)
LEMMA Undisturbed ==
  ASSUME TypeInv, NEW w \in Workers, NEW v \in Workers, v # w,
         (\E force \in BOOLEAN, e \in Embedders : Start(w, force, e)) \/ Step(w) \/ Abort(w),
         quiet'[v]
  PROVE  /\ quiet[v]
         /\ UNCHANGED <<db, disk, root, moved, pc[v], job[v], seen[v], todo[v], outcome[v]>>
<1>1. /\ pc \in [Workers -> Phases] /\ job \in [Workers -> Job] /\ seen \in [Workers -> Tree]
      /\ todo \in [Workers -> SUBSET Paths] /\ outcome \in [Workers -> Outcomes]
      /\ quiet \in [Workers -> BOOLEAN]
  BY DEF TypeInv, TypeOK
<1>2. UNCHANGED <<disk, root, moved>>
  BY DEF Step, Start, Abort, WalkFile, Remove, ForceFile, SkipFile, ChangedFile,
         Rewrite, ReadMetaId, Verify, CheckStamped, StampId, StampDim, Wipe, ListStored,
         RemoveDone, WriteFile, Finish, ReprocessFile, counters
<1>3. UNCHANGED <<pc[v], job[v], seen[v], todo[v], outcome[v]>>
  BY <1>1 DEF Step, Start, Abort, WalkFile, Remove, ForceFile, SkipFile, ChangedFile,
         Rewrite, ReadMetaId, Verify, CheckStamped, StampId, StampDim, Wipe, ListStored,
         RemoveDone, WriteFile, Finish, ReprocessFile, Leave, Goto
<1>4. quiet[v] /\ UNCHANGED db
  <2>1. ASSUME NEW new, Commit(w, new) PROVE quiet[v] /\ db' = db
    BY <2>1, <1>1 DEF Commit
  <2>2. ASSUME NEW force \in BOOLEAN, NEW e \in Embedders, Start(w, force, e)
        PROVE  quiet[v] /\ db' = db
    BY <2>2, <1>1 DEF Start
  <2>3. CASE UNCHANGED <<db, quiet>>
    BY <2>3
  <2>4. (\E new : Commit(w, new)) \/ UNCHANGED <<db, quiet>>
          \/ \E force \in BOOLEAN, e \in Embedders : Start(w, force, e)
    BY DEF Step, Abort, WalkFile, Remove, ForceFile, SkipFile, ChangedFile,
           Rewrite, ReadMetaId, Verify, CheckStamped, StampId, StampDim, Wipe, ListStored,
           RemoveDone, WriteFile, Finish, ReprocessFile
  <2> QED BY <2>1, <2>2, <2>3, <2>4
<1> QED BY <1>2, <1>3, <1>4

(* At the end of the loop over the files the index is that of the tree.     *)
LEMMA ExactAtTheEnd ==
  ASSUME EngineInv, NEW w \in Workers, ~ moved \/ job[w].force,
         Progress(w), job[w].force => Anew(w), pc[w] = "files", todo[w] = {}
  PROVE  IndexExact(db, disk, root)
<1>1. DbType(db) /\ disk \in Tree
  BY DEF EngineInv, TypeInv, TypeOK
<1>2. FileRowsTrue(db) /\ NoOrphans(db) /\ RowsUnder(db, root) /\ RowsBound(db)
  <2>1. RowsBound(db)
    BY DEF EngineInv, RowBinding
  <2>2. Sound(db) /\ RowsUnder(db, root)
    BY DEF EngineInv, SoundInv, PlaceholdersOnlyBefore, Early, Anew
  <2> QED BY <2>1, <2>2 DEF Sound
<1>3. \A p : p \in Walked(w) <=> p \in Paths /\ disk[p] # Absent
  BY DEF Progress, Walked
<1>4. \A p \in Walked(w) : <<root, p>> \in DOMAIN db.files /\ db.files[<<root, p>>] = disk[p]
  BY DEF Progress
<1>5. \A k \in DOMAIN db.files : k = <<root, k[2]>> /\ k[2] \in Walked(w)
  BY <1>1, <1>2, OneRowPerPath DEF Progress
<1>6. DOMAIN db.files = {<<root, p>> : p \in {q \in Paths : disk[q] # Absent}}
  BY <1>3, <1>4, <1>5
<1>7. ASSUME NEW p \in Paths
      PROVE  StoredHash(db, p, root) = disk[p] /\ Searchable(db, p) = TextsOf(p, disk[p])
  <2>1. CASE p \in Walked(w)
    <3>1. <<root, p>> \in DOMAIN db.files /\ db.files[<<root, p>>] = disk[p]
      BY <1>4, <2>1
    <3>2. Searchable(db, p) = TextsOf(p, db.files[<<root, p>>])
      BY <1>2, <3>1 DEF FileRowsTrue
    <3> QED BY <3>1, <3>2 DEF StoredHash
  <2>2. CASE p \notin Walked(w)
    <3>1. disk[p] = Absent /\ <<root, p>> \notin DOMAIN db.files
      BY <1>3, <1>5, <2>2
    <3>2. \A r \in DOMAIN db.chunks : db.chunks[r].path # p
      <4>1. ChunksListed(db)
        BY <1>2, NoOrphansInParts
      <4> QED BY <1>5, <2>2, <4>1 DEF ChunksListed
    <3>3. Searchable(db, p) = {}
      BY <3>2 DEF Searchable, RowsOf
    <3> QED BY <3>1, <3>3 DEF StoredHash, TextsOf
  <2> QED BY <2>1, <2>2
<1> QED BY <1>2, <1>6, <1>7 DEF IndexExact

LEMMA StepKeepsProgress ==
  ASSUME EngineInv, NEW w \in Workers, ~ moved \/ job'[w].force,
         quiet[w] => (~ moved \/ job[w].force => Progress(w)) /\ (job[w].force => Anew(w)),
         (\E force \in BOOLEAN, e \in Embedders : Start(w, force, e)) \/ Step(w) \/ Abort(w),
         quiet'[w]
  PROVE  Progress(w)'
<1>1. /\ pc \in [Workers -> Phases] /\ job \in [Workers -> Job] /\ seen \in [Workers -> Tree]
      /\ todo \in [Workers -> SUBSET Paths] /\ outcome \in [Workers -> Outcomes]
      /\ quiet \in [Workers -> BOOLEAN] /\ disk \in Tree
      /\ DbType(db) /\ DOMAIN db = Tables
  BY DEF EngineInv, TypeInv, TypeOK, DbType
<1>2. pc[w] # "idle" => job[w].rid = root
  BY DEF EngineInv, JobsAtRoot
<1>3. ~ moved /\ pc[w] \notin Early => RowsUnder(db, root)
  BY DEF EngineInv, SoundInv, PlaceholdersOnlyBefore
<1>4. ASSUME NEW force \in BOOLEAN, NEW e \in Embedders, Start(w, force, e)
      PROVE  Progress(w)'
  <2>1. pc'[w] = "walk" /\ todo'[w] = Paths
    BY <1>1, <1>4 DEF Start, Goto
  <2> QED BY <2>1 DEF Progress
<1>5. ASSUME Step(w) \/ Abort(w)
      PROVE  /\ Progress(w) /\ UNCHANGED <<disk, root>>
             /\ ~ moved \/ job[w].force
             /\ job[w].force => Anew(w)
  <2>0. UNCHANGED job
    BY <1>5 DEF Step, Abort, WalkFile, Remove, ForceFile, SkipFile, ChangedFile,
           Rewrite, ReadMetaId, Verify, CheckStamped, StampId, StampDim, Wipe, ListStored,
           RemoveDone, WriteFile, Finish, ReprocessFile, Leave
  <2>1. quiet[w]
    <3>1. (\E new : Commit(w, new)) \/ UNCHANGED quiet
      BY <1>5 DEF Step, Abort, WalkFile, Remove, ForceFile, SkipFile, ChangedFile,
             Rewrite, ReadMetaId, Verify, CheckStamped, StampId, StampDim, Wipe, ListStored,
             RemoveDone, WriteFile, Finish, ReprocessFile
    <3> QED BY <1>1, <3>1 DEF Commit
  <2>2. UNCHANGED <<disk, root>>
    BY <1>5 DEF Step, Abort, WalkFile, Remove, ForceFile, SkipFile, ChangedFile,
             Rewrite, ReadMetaId, Verify, CheckStamped, StampId, StampDim, Wipe, ListStored,
             RemoveDone, WriteFile, Finish, ReprocessFile
  <2> QED BY SMTT(30), <2>0, <2>1, <2>2
<1>6. ASSUME NEW how, Leave(w, how), how # "ok"
      PROVE  Progress(w)'
  <2>1. pc'[w] = "idle" /\ outcome'[w] = how
    BY <1>1, <1>6 DEF Leave, Goto
  <2> QED BY <1>6, <2>1 DEF Progress
<1>7. ASSUME NEW p \in Paths, WalkFile(w, p)
      PROVE  Progress(w)'
  <2>1. Progress(w) /\ UNCHANGED <<disk, root>>
    BY <1>5, <1>7 DEF Step
  <2>2. /\ pc[w] = "walk"
        /\ seen'[w] = [seen[w] EXCEPT ![p] = disk[p]]
        /\ todo'[w] = todo[w] \ {p}
        /\ pc'[w] = IF todo[w] = {p} THEN "rewrite" ELSE "walk"
    BY <1>1, <1>7 DEF WalkFile, Goto
  <2>3. seen[w] \in [Paths -> Contents \union {Absent}]
    BY <1>1 DEF Tree
  <2>4. \A q \in Paths : q \notin todo'[w] => seen'[w][q] = disk[q]
    BY <2>1, <2>2, <2>3 DEF Progress
  <2>5. CASE todo[w] = {p}
    <3>1. \A q \in Paths : seen'[w][q] = disk[q]
      BY <2>2, <2>4, <2>5
    <3>2. seen'[w] = disk
      BY <1>1, <2>2, <2>3, <3>1 DEF Tree
    <3> QED BY <2>1, <2>2, <2>5, <3>2 DEF Progress
  <2>6. CASE todo[w] # {p}
    BY <2>1, <2>2, <2>4, <2>6 DEF Progress
  <2> QED BY <2>5, <2>6
<1>8. ASSUME Rewrite(w)
      PROVE  Progress(w)'
  <2>1. CASE CanRewrite(db, job[w].rid)
    <3>1. /\ pc'[w] = IF job[w].force THEN "wipe" ELSE "verifyId"
          /\ UNCHANGED <<seen, job>>
      BY <1>1, <1>8, <2>1 DEF Rewrite, Goto
    <3>2. Progress(w) /\ UNCHANGED disk /\ pc[w] = "rewrite"
      BY <1>5, <1>8 DEF Step, Rewrite
    <3> QED BY <3>1, <3>2 DEF Progress
  <2>2. CASE ~ CanRewrite(db, job[w].rid)
    BY <1>6, <1>8, <2>2 DEF Rewrite
  <2> QED BY <2>1, <2>2
<1>9. ASSUME ReadMetaId(w) \/ CheckStamped(w)
      PROVE  Progress(w)'
  <2>1. Progress(w) /\ UNCHANGED disk /\ pc[w] \in {"verifyId", "stampedId", "stampedDim"}
    BY <1>5, <1>9 DEF Step, ReadMetaId, CheckStamped
  <2>2. pc'[w] \in {"verifyDim", "stampedDim", "list", "stampId"} /\ UNCHANGED <<seen, job, db>>
    BY <1>1, <1>9 DEF ReadMetaId, CheckStamped, Goto
  <2> QED BY <2>1, <2>2 DEF Progress
<1>10. ASSUME Verify(w)
       PROVE  Progress(w)'
  <2>1. CASE EmbedderAccepted(metaId[w], db.embDim, job[w].emb)
    <3>1. pc'[w] = "stampedId" /\ UNCHANGED <<seen, job>>
      BY <1>1, <1>10, <2>1 DEF Verify, Goto
    <3>2. Progress(w) /\ UNCHANGED disk /\ pc[w] = "verifyDim"
      BY <1>5, <1>10 DEF Step, Verify
    <3> QED BY <3>1, <3>2 DEF Progress
  <2>2. CASE ~ EmbedderAccepted(metaId[w], db.embDim, job[w].emb)
    BY <1>6, <1>10, <2>2 DEF Verify
  <2> QED BY <2>1, <2>2
<1>11. ASSUME StampId(w)
       PROVE  Progress(w)'
  <2>1. Progress(w) /\ UNCHANGED disk /\ pc[w] = "stampId"
    BY <1>5, <1>11 DEF Step, StampId
  <2>2. pc'[w] = "stampDim" /\ UNCHANGED <<seen, job>> /\ db'.files = db.files
    BY <1>1, <1>11 DEF StampId, Commit, Goto, Tables
  <2> QED BY <2>1, <2>2 DEF Progress
<1>12. ASSUME StampDim(w)
       PROVE  Progress(w)'
  <2>1. Progress(w) /\ UNCHANGED disk /\ pc[w] = "stampDim"
    BY <1>5, <1>12 DEF Step, StampDim
  <2>2. UNCHANGED <<seen, job>> /\ db'.files = db.files
    BY <1>1, <1>12 DEF StampDim, Commit, Tables
  <2>3. CASE job[w].force
    <3>1. pc'[w] = "files" /\ todo'[w] = Walked(w)
      BY <1>1, <1>12, <2>3 DEF StampDim, Goto
    <3> QED BY <2>1, <2>2, <2>3, <3>1 DEF Progress, Walked
  <2>4. CASE ~ job[w].force
    <3>1. pc'[w] = "list"
      BY <1>1, <1>12, <2>4 DEF StampDim, Goto
    <3> QED BY <2>1, <2>2, <2>4, <3>1 DEF Progress
  <2> QED BY <2>3, <2>4
<1>13. ASSUME Wipe(w)
       PROVE  Progress(w)'
  <2>1. Progress(w) /\ UNCHANGED disk /\ pc[w] = "wipe"
    BY <1>5, <1>13 DEF Step, Wipe
  <2>2. pc'[w] = "stampId" /\ UNCHANGED <<seen, job>> /\ DOMAIN db'.files = {}
    BY <1>1, <1>13 DEF Wipe, Commit, Goto, WipeAll, NoRows, Tables
  <2> QED BY <2>1, <2>2 DEF Progress
<1>14. ASSUME ListStored(w)
       PROVE  Progress(w)'
  <2>1. /\ Progress(w) /\ UNCHANGED disk /\ pc[w] = "list"
        /\ ~ moved \/ job[w].force
    BY <1>5, <1>14 DEF Step, ListStored
  <2>2. /\ pc'[w] = "remove" /\ UNCHANGED <<seen, db, job>>
        /\ todo'[w] = StoredPaths(db, root) \ Walked(w)
    BY <1>1, <1>2, <1>14 DEF ListStored, Goto
  <2>3. \A k \in DOMAIN db.files : k[2] \in StoredPaths(db, root)
    <3>1. RowsUnder(db, root)
      BY <1>3, <2>1 DEF Early, Progress
    <3> QED BY <1>1, <3>1, OneRowPerPath DEF StoredPaths
  <2> QED BY <2>1, <2>2, <2>3 DEF Progress, Walked
<1>15. ASSUME NEW p \in Paths, Remove(w, p)
       PROVE  Progress(w)'
  <2>1. /\ Progress(w) /\ UNCHANGED disk /\ pc[w] = "remove"
        /\ ~ moved \/ job[w].force
    BY <1>5, <1>15 DEF Step, Remove
  <2>2. /\ UNCHANGED <<pc, seen, job>>
        /\ todo'[w] = todo[w] \ {p}
        /\ db' = RemoveFile(db, p, root)
    BY <1>1, <1>2, <1>15 DEF Remove, Commit
  <2>3. DOMAIN db'.files = DOMAIN db.files \ {<<root, p>>}
    <3>1. DOMAIN DeleteFileRows(db, p) = Tables /\ DeleteFileRows(db, p).files = db.files
      BY <1>1, DeletedTables
    <3> QED BY <2>2, <3>1 DEF RemoveFile, Restrict, Tables
  <2>4. \A k \in DOMAIN db'.files : k \in DOMAIN db.files /\ k[2] # p
    <3>1. RowsUnder(db, root)
      BY <1>3, <2>1 DEF Early, Progress
    <3>2. \A k \in DOMAIN db.files : k = <<root, k[2]>>
      BY <1>1, <3>1, OneRowPerPath
    <3> QED BY <2>3, <3>2
  <2> QED BY <2>1, <2>2, <2>4 DEF Progress, Walked
<1>16. ASSUME RemoveDone(w)
       PROVE  Progress(w)'
  <2>1. Progress(w) /\ UNCHANGED disk /\ pc[w] = "remove" /\ todo[w] = {}
    BY <1>5, <1>16 DEF Step, RemoveDone
  <2>2. pc'[w] = "files" /\ todo'[w] = Walked(w) /\ UNCHANGED <<seen, db>>
    BY <1>1, <1>16 DEF RemoveDone, Goto
  <2> QED BY <2>1, <2>2 DEF Progress, Walked
<1>17. ASSUME NEW p \in Paths, SkipFile(w, p)
       PROVE  Progress(w)'
  <2>1. Progress(w) /\ UNCHANGED <<disk, root>> /\ pc[w] = "files"
    BY <1>5, <1>17 DEF Step, SkipFile
  <2>2. /\ UNCHANGED <<pc, seen, db, job>>
        /\ todo'[w] = todo[w] \ {p}
        /\ p \in todo[w] /\ StoredHash(db, p, root) = seen[w][p]
    BY <1>1, <1>2, <1>17 DEF SkipFile
  <2>3. p \in Walked(w) => <<root, p>> \in DOMAIN db.files /\ db.files[<<root, p>>] = disk[p]
    BY <2>1, <2>2 DEF Progress, Walked, StoredHash
  <2> QED BY <2>1, <2>2, <2>3 DEF Progress, Walked
<1>18. ASSUME NEW p \in Paths, ChangedFile(w, p)
       PROVE  Progress(w)'
  <2>1. Progress(w) /\ UNCHANGED <<disk, root>> /\ pc[w] = "files"
    BY <1>5, <1>18 DEF Step, ChangedFile
  <2>2. pc'[w] = "write" /\ UNCHANGED <<seen, db, todo, job>> /\ ~ job[w].force
    BY <1>1, <1>18 DEF ChangedFile, Goto
  <2> QED BY <2>1, <2>2 DEF Progress, Walked
<1>19. ASSUME NEW p \in Walked(w), ReprocessFile(w, p), pc[w] \in {"files", "write"},
              Progress(w), UNCHANGED <<disk, root>>
       PROVE  Progress(w)'
  <2>1. CASE CanReprocess(db, p, seen[w][p], job[w].emb)
    <3> DEFINE key == <<root, p>>
    <3>1. /\ db' = Reprocess(db, p, seen[w][p], root, job[w].emb)
          /\ pc'[w] = "files" /\ seen' = seen
          /\ todo'[w] = todo[w] \ {p}
      BY <1>1, <1>2, <1>19, <2>1 DEF ReprocessFile, Commit, Goto
    <3>2. /\ DOMAIN db'.files = DOMAIN db.files \union {key}
          /\ \A k \in DOMAIN db'.files : db'.files[k] = IF k = key THEN seen[w][p] ELSE db.files[k]
      BY <1>1, <3>1, ReprocessedFiles
    <3>3. seen[w] = disk
      BY <1>19 DEF Progress
    <3>4. \A k \in DOMAIN db'.files : k[2] \in Walked(w)
      BY <1>19, <3>2 DEF Progress
    <3>5. ASSUME NEW q \in Walked(w), q \notin todo'[w]
          PROVE  <<root, q>> \in DOMAIN db'.files /\ db'.files[<<root, q>>] = disk[q]
      <4>1. CASE q = p
        BY <3>2, <3>3, <4>1
      <4>2. CASE q # p
        <5>1. <<root, q>> \in DOMAIN db.files /\ db.files[<<root, q>>] = disk[q]
          BY <1>19, <3>1, <3>5, <4>2 DEF Progress
        <5> QED BY <3>2, <4>2, <5>1
      <4> QED BY <4>1, <4>2
    <3>6. Walked(w)' = Walked(w)
      BY <3>1 DEF Walked
    <3> QED BY <1>19, <3>1, <3>3, <3>4, <3>5, <3>6 DEF Progress
  <2>2. CASE ~ CanReprocess(db, p, seen[w][p], job[w].emb)
    BY <1>6, <1>19, <2>2 DEF ReprocessFile
  <2> QED BY <2>1, <2>2
<1>20. ASSUME (\E p \in Paths : ForceFile(w, p)) \/ WriteFile(w)
       PROVE  Progress(w)'
  <2>1. Progress(w) /\ UNCHANGED <<disk, root>>
    BY <1>5, <1>20 DEF Step
  <2>2. \E p \in Walked(w) : ReprocessFile(w, p) /\ pc[w] \in {"files", "write"}
    BY <1>20 DEF ForceFile, WriteFile, EngineInv, TypeInv, WritesWhatItWalked
  <2> QED BY <1>19, <2>1, <2>2
<1>21. ASSUME Finish(w)
       PROVE  Progress(w)'
  <2>1. /\ Progress(w) /\ pc[w] = "files" /\ todo[w] = {} /\ UNCHANGED <<db, disk, root>>
        /\ ~ moved \/ job[w].force
        /\ job[w].force => Anew(w)
    BY <1>5, <1>21 DEF Step, Finish
  <2>2. IndexExact(db, disk, root)
    BY <2>1, ExactAtTheEnd
  <2>3. pc'[w] = "idle"
    BY <1>1, <1>21 DEF Finish, Leave, Goto
  <2>4. IndexExact(db, disk, root)'
    BY <2>1, <2>2
  <2> QED BY <2>3, <2>4 DEF Progress
<1>22. ASSUME Abort(w)
       PROVE  Progress(w)'
  BY <1>6, <1>22 DEF Abort
<1>23. ASSUME Step(w)
       PROVE  Progress(w)'
  BY <1>7, <1>8, <1>9, <1>10, <1>11, <1>12, <1>13, <1>14, <1>15, <1>16, <1>17, <1>18,
     <1>20, <1>21, <1>23 DEF Step
<1> QED BY <1>4, <1>22, <1>23

(* The vectors of a reprocessed file are those of the embedder at work.     *)
LEMMA ReprocessAllBy ==
  ASSUME NEW d, DOMAIN d = Tables, NEW p, NEW c, NEW rid, NEW e, AllBy(d, e)
  PROVE  AllBy(Reprocess(d, p, c, rid, e), e)
<1> DEFINE del == DeleteFileRows(d, p)
           new == Reprocess(d, p, c, rid, e)
<1>1. DOMAIN del = Tables /\ AllBy(del, e)
  BY DeletedTables DEF AllBy
<1>2. new.vec = InsertChunks(del, p, c, e).vec
  BY ReprocessedRows
<1>3. /\ DOMAIN InsertChunks(del, p, c, e).vec = DOMAIN del.vec \union NewRowids(del, p, c)
      /\ \A r \in DOMAIN InsertChunks(del, p, c, e).vec :
           InsertChunks(del, p, c, e).vec[r] =
             IF r \in NewRowids(del, p, c) THEN [text |-> <<c, NewSpan(del, p, c, r)>>, by |-> e]
             ELSE del.vec[r]
  BY <1>1, InsertedTables
<1> HIDE DEF del, new
<1>4. ASSUME NEW r \in DOMAIN new.vec PROVE new.vec[r].by = e
  <2>1. CASE r \in NewRowids(del, p, c)
    <3>1. new.vec[r] = [text |-> <<c, NewSpan(del, p, c, r)>>, by |-> e]
      BY <1>2, <1>3, <2>1
    <3> QED BY <3>1
  <2>2. CASE r \notin NewRowids(del, p, c)
    BY <1>1, <1>2, <1>3, <2>2 DEF AllBy
  <2> QED BY <2>1, <2>2
<1> QED BY <1>4 DEF AllBy, new

LEMMA StepKeepsAnew ==
  ASSUME EngineInv, NEW w \in Workers, job'[w].force,
         quiet[w] /\ job[w].force => Progress(w) /\ Anew(w),
         (\E force \in BOOLEAN, e \in Embedders : Start(w, force, e)) \/ Step(w) \/ Abort(w),
         quiet'[w]
  PROVE  Anew(w)'
<1>1. /\ pc \in [Workers -> Phases] /\ job \in [Workers -> Job] /\ seen \in [Workers -> Tree]
      /\ outcome \in [Workers -> Outcomes] /\ quiet \in [Workers -> BOOLEAN]
      /\ DbType(db) /\ DOMAIN db = Tables
  BY DEF EngineInv, TypeInv, TypeOK, DbType
<1>2. pc[w] # "idle" => job[w].rid = root
  BY DEF EngineInv, JobsAtRoot
<1>3. ASSUME NEW force \in BOOLEAN, NEW e \in Embedders, Start(w, force, e)
      PROVE  Anew(w)'
  <2>1. pc'[w] = "walk"
    BY <1>1, <1>3 DEF Start, Goto
  <2> QED BY <2>1 DEF Anew
<1>4. ASSUME Step(w) \/ Abort(w)
      PROVE  Progress(w) /\ Anew(w) /\ job[w].force /\ UNCHANGED <<job, root>>
  <2>1. UNCHANGED <<job, root>>
    BY <1>4 DEF Step, Abort, WalkFile, Remove, ForceFile, SkipFile, ChangedFile,
           Rewrite, ReadMetaId, Verify, CheckStamped, StampId, StampDim, Wipe, ListStored,
           RemoveDone, WriteFile, Finish, ReprocessFile, Leave
  <2>2. quiet[w]
    <3>1. (\E new : Commit(w, new)) \/ UNCHANGED quiet
      BY <1>4 DEF Step, Abort, WalkFile, Remove, ForceFile, SkipFile, ChangedFile,
             Rewrite, ReadMetaId, Verify, CheckStamped, StampId, StampDim, Wipe, ListStored,
             RemoveDone, WriteFile, Finish, ReprocessFile
    <3> QED BY <1>1, <3>1 DEF Commit
  <2> QED BY SMTT(30), <2>1, <2>2
<1>5. ASSUME NEW how, Leave(w, how), how # "ok"
      PROVE  Anew(w)'
  <2>1. pc'[w] = "idle" /\ outcome'[w] = how
    BY <1>1, <1>5 DEF Leave, Goto
  <2> QED BY <1>5, <2>1 DEF Anew
<1>6. ASSUME pc'[w] \in {"walk", "rewrite", "wipe"}
      PROVE  Anew(w)'
  BY <1>6 DEF Anew
<1>7. ASSUME NEW p \in Paths, WalkFile(w, p)
      PROVE  Anew(w)'
  BY <1>1, <1>6, <1>7 DEF WalkFile, Goto
<1>8. ASSUME Rewrite(w)
      PROVE  Anew(w)'
  <2>1. job[w].force
    BY <1>4, <1>8 DEF Step
  <2>2. CASE CanRewrite(db, job[w].rid)
    BY <1>1, <1>6, <1>8, <2>1, <2>2 DEF Rewrite, Goto
  <2>3. CASE ~ CanRewrite(db, job[w].rid)
    BY <1>5, <1>8, <2>3 DEF Rewrite
  <2> QED BY <2>2, <2>3
<1>9. ASSUME Wipe(w)
      PROVE  Anew(w)'
  <2>1. pc'[w] = "stampId" /\ db' = WipeAll(db) /\ UNCHANGED <<job, root>>
    BY <1>1, <1>9 DEF Wipe, Commit, Goto
  <2>2. Sound(WipeAll(db)) /\ RowsUnder(WipeAll(db), root)
    BY <1>1, WipeTrue, WipeOrphansNothing DEF Sound
  <2>3. DOMAIN WipeAll(db).vec = {}
    BY <1>1 DEF WipeAll, NoRows, Tables
  <2>4. Sound(db') /\ RowsUnder(db', root') /\ AllBy(db', job'[w].emb)
    BY <2>1, <2>2, <2>3 DEF AllBy
  <2> QED BY <2>1, <2>4 DEF Anew, Sound, RowsUnder, AllBy
<1>10. ASSUME StampId(w) \/ StampDim(w)
       PROVE  Anew(w)'
  <2>1. Anew(w) /\ job[w].force /\ UNCHANGED <<job, root>>
    BY <1>4, <1>10 DEF Step
  <2>2. /\ db'.chunks = db.chunks /\ db'.files = db.files /\ db'.vec = db.vec
        /\ db'.symbols = db.symbols /\ db'.structural = db.structural
    BY <1>1, <1>10 DEF StampId, StampDim, Commit, Tables
  <2>3. Sound(db) /\ RowsUnder(db, root) /\ AllBy(db, job[w].emb)
    BY <1>10, <2>1 DEF Anew, StampId, StampDim
  <2>4. FileRowsTrue(db') /\ NoOrphans(db') /\ RowsUnder(db', root)
    BY <2>2, <2>3, SameTrue, SameOrphansNothing DEF Sound
  <2>5. AllBy(db', job[w].emb)
    BY <2>2, <2>3 DEF AllBy
  <2>6. CASE StampId(w)
    <3>1. pc'[w] = "stampDim" /\ db'.embId = job[w].emb
      BY <1>1, <2>6 DEF StampId, Commit, Goto, Tables
    <3> QED BY <2>1, <2>4, <2>5, <3>1 DEF Anew, Sound
  <2>7. CASE StampDim(w)
    <3>1. pc'[w] = "files" /\ db'.embId = db.embId /\ db'.embDim = Dim[job[w].emb]
      BY <1>1, <2>1, <2>7 DEF StampDim, Commit, Goto, Tables
    <3>2. db.embId = job[w].emb
      BY <2>1, <2>7 DEF StampDim, Anew
    <3> QED BY <2>1, <2>4, <2>5, <3>1, <3>2 DEF Anew, Sound
  <2> QED BY <1>10, <2>6, <2>7
<1>11. ASSUME NEW p \in Paths, ForceFile(w, p)
       PROVE  Anew(w)'
  <2> DEFINE d == Reprocess(db, p, seen[w][p], root, job[w].emb)
  <2>1. Anew(w) /\ UNCHANGED <<job, root>> /\ pc[w] = "files"
    BY <1>4, <1>11 DEF Step, ForceFile
  <2>2. CASE CanReprocess(db, p, seen[w][p], job[w].emb)
    <3>1. db' = d /\ pc'[w] = "files"
      BY <1>1, <1>2, <1>11, <2>2 DEF ForceFile, ReprocessFile, Commit, Goto
    <3>2. seen[w][p] \in Contents
      BY <1>1, <1>11 DEF ForceFile, EngineInv, TypeInv, WritesWhatItWalked, Walked, Tree
    <3>3. Sound(db) /\ RowsUnder(db, root) /\ AllBy(db, job[w].emb)
      BY <2>1 DEF Anew
    <3>4. FileRowsTrue(d) /\ RowsUnder(d, root)
      BY <1>1, <3>2, <3>3, ReprocessTrue DEF Sound
    <3>5. NoOrphans(d)
      BY <1>1, <3>2, <3>3, ReprocessOrphansNothing DEF Sound
    <3>6. AllBy(d, job[w].emb)
      BY <1>1, <3>3, ReprocessAllBy
    <3>7. d.embId = db.embId /\ d.embDim = db.embDim
      BY <1>1, ReprocessedMeta
    <3>8. db.embId = job[w].emb /\ db.embDim = Dim[job[w].emb]
      BY <2>1 DEF Anew
    <3> HIDE DEF d
    <3> QED BY <2>1, <3>1, <3>4, <3>5, <3>6, <3>7, <3>8 DEF Anew, Sound
  <2>3. CASE ~ CanReprocess(db, p, seen[w][p], job[w].emb)
    BY <1>5, <1>11, <2>3 DEF ForceFile, ReprocessFile
  <2> QED BY <2>2, <2>3
<1>12. ASSUME Finish(w)
       PROVE  Anew(w)'
  <2>1. Anew(w) /\ UNCHANGED <<job, root, db>> /\ pc[w] = "files"
    BY <1>4, <1>12 DEF Step, Finish
  <2>2. pc'[w] = "idle"
    BY <1>1, <1>12 DEF Finish, Leave, Goto
  <2> QED BY <2>1, <2>2 DEF Anew
<1>13. ASSUME Abort(w)
       PROVE  Anew(w)'
  BY <1>5, <1>13 DEF Abort
(* The steps a forced reindex never takes. *)
<1>14. ASSUME \/ ReadMetaId(w) \/ Verify(w) \/ CheckStamped(w) \/ ListStored(w) \/ RemoveDone(w)
              \/ WriteFile(w)
              \/ \E p \in Paths : Remove(w, p) \/ SkipFile(w, p) \/ ChangedFile(w, p)
       PROVE  FALSE
  <2>1. Progress(w) /\ job[w].force
    BY <1>4, <1>14 DEF Step
  <2> QED BY <1>14, <2>1 DEF Progress, ReadMetaId, Verify, CheckStamped, ListStored, RemoveDone,
                             WriteFile, Remove, SkipFile, ChangedFile
<1>15. ASSUME Step(w)
       PROVE  Anew(w)'
  BY <1>7, <1>8, <1>9, <1>10, <1>11, <1>12, <1>14, <1>15 DEF Step
<1> QED BY <1>3, <1>13, <1>15

LEMMA StepKeepsQuiet ==
  ASSUME EngineInv, QuietInv, [Next]_vars
  PROVE  QuietInv'
<1>1. TypeInv
  BY DEF EngineInv
<1> DEFINE Kept(v) == quiet[v] => /\ ~ moved \/ job[v].force => Progress(v)
                                  /\ job[v].force => Anew(v)
<1>2. \A v \in Workers : Kept(v)
  BY DEF QuietInv
<1>3. (\A v \in Workers : Kept(v)') => QuietInv'
  BY DEF QuietInv
<1>4. ASSUME NEW v \in Workers, quiet[v],
             UNCHANGED <<db, disk, root, moved, pc[v], job[v], seen[v], todo[v], outcome[v]>>
      PROVE  Kept(v)'
  <2>1. Walked(v)' = Walked(v)
    BY <1>4 DEF Walked
  <2>2. IndexExact(db, disk, root) => IndexExact(db, disk, root)'
    BY <1>4
  <2>3. Progress(v) => Progress(v)'
    BY <1>4, <2>1, <2>2 DEF Progress
  <2>4. Anew(v) => Anew(v)'
    BY <1>4 DEF Anew, Sound, RowsUnder, AllBy
  <2> QED BY <1>2, <1>4, <2>3, <2>4
<1>5. ASSUME NEW w \in Workers, NEW v \in Workers,
             (\E force \in BOOLEAN, e \in Embedders : Start(w, force, e)) \/ Step(w) \/ Abort(w)
      PROVE  Kept(v)'
  <2>0. SUFFICES ASSUME quiet'[v] PROVE Kept(v)'
    OBVIOUS
  <2>1. UNCHANGED moved
    BY <1>5 DEF Step, Start, Abort, WalkFile, Remove, ForceFile, SkipFile, ChangedFile,
           Rewrite, ReadMetaId, Verify, CheckStamped, StampId, StampDim, Wipe, ListStored,
           RemoveDone, WriteFile, Finish, ReprocessFile, counters
  <2>2. CASE v = w
    <3>1. ~ moved' \/ job'[v].force => Progress(v)'
      BY <1>2, <1>5, <2>0, <2>1, <2>2, StepKeepsProgress
    <3>2. job'[v].force => Anew(v)'
      BY <1>2, <1>5, <2>0, <2>2, StepKeepsAnew
    <3> QED BY <3>1, <3>2
  <2>3. CASE v # w
    <3> HIDE DEF Kept
    <3> QED BY <1>1, <1>4, <1>5, <2>0, <2>3, Undisturbed
  <2> QED BY <2>2, <2>3
<1>6. ASSUME NEW v \in Workers, ~ quiet'[v]
      PROVE  Kept(v)'
  BY <1>6
<1>7. ASSUME NEW v \in Workers, UNCHANGED vars
      PROVE  Kept(v)'
  BY <1>4, <1>6, <1>7 DEF vars, workerVars, counters
<1>8. ASSUME (\E p \in Paths, c \in Contents \union {Absent} : Edit(p, c))
               \/ \E r \in RepoIds : MoveRepo(r)
      PROVE  \A v \in Workers : ~ quiet'[v]
  BY <1>8 DEF Edit, MoveRepo
<1> HIDE DEF Kept
<1> QED BY <1>3, <1>5, <1>6, <1>7, <1>8 DEF Next, Rest

LEMMA QuietInvariant == Spec => [](EngineInv /\ QuietInv)
<1>1. Init => EngineInv /\ QuietInv
  BY Initially, InitiallyBound, InitiallySound, InitiallyQuiet DEF EngineInv
<1>2. EngineInv /\ QuietInv /\ [Next]_vars => EngineInv' /\ QuietInv'
  BY StepKeepsType, StepKeepsBinding, StepKeepsJobs, StepKeepsSound,
     StepKeepsNoOutcome, StepKeepsQuiet
     DEF EngineInv
<1> QED BY <1>1, <1>2, PTL DEF Spec

(***************************************************************************)
(* An undisturbed reindex that returned without error leaves the index     *)
(* exactly that of the tree, for any number of files and processes and     *)
(* after any history of aborted, crashed and racing reindexes, as long as  *)
(* the repository stays where it is.                                       *)
(***************************************************************************)
THEOREM QuietReindexIsExact == Spec => []QuietReindexExact
<1>1. EngineInv /\ QuietInv => QuietReindexExact
  <2> SUFFICES ASSUME NoOutcomeYet, QuietInv, NEW w \in Workers,
                      ~ moved, outcome[w] = "ok", quiet[w]
               PROVE  IndexExact(db, disk, root)
    BY DEF EngineInv, QuietReindexExact
  <2>1. pc[w] = "idle"
    BY DEF NoOutcomeYet
  <2> QED BY <2>1 DEF QuietInv, Progress
<1> QED BY <1>1, QuietInvariant, PTL

(***************************************************************************)
(* A forced one does so after moves as well, and leaves an index whose     *)
(* vectors are all of the embedder in its stamp.                           *)
(***************************************************************************)
THEOREM ForceRecovers == Spec => []QuietForceRecovers
<1>1. EngineInv /\ QuietInv => QuietForceRecovers
  <2> SUFFICES ASSUME NoOutcomeYet, QuietInv, NEW w \in Workers,
                      outcome[w] = "ok", quiet[w], job[w].force
               PROVE  /\ IndexExact(db, disk, root)
                      /\ db.embId = job[w].emb /\ db.embDim = Dim[job[w].emb]
                      /\ \A r \in DOMAIN db.vec : db.vec[r].by = job[w].emb
    BY DEF EngineInv, QuietForceRecovers
  <2>1. pc[w] = "idle"
    BY DEF NoOutcomeYet
  <2> QED BY <2>1 DEF QuietInv, Progress, Anew, AllBy
<1> QED BY <1>1, QuietInvariant, PTL

------------------------------------------------------------------------------

(***************************************************************************)
(* What an undisturbed worker knows of the tree, moved or not, is enough   *)
(* for IncrementalKeepsCurrent.                                            *)
(***************************************************************************)
KnowsTree(w) ==
  /\ pc[w] = "walk" => \A p \in Paths : p \notin todo[w] => seen[w][p] = disk[p]
  /\ pc[w] \notin {"idle", "walk"} => seen[w] = disk
  /\ pc[w] = "remove" => todo[w] \intersect Walked(w) = {}
  /\ pc[w] = "wipe" => job[w].force

TreeInv == \A w \in Workers : quiet[w] => KnowsTree(w)

LEMMA StepKnowsTree ==
  ASSUME TypeInv, NEW w \in Workers, quiet[w] => KnowsTree(w),
         (\E force \in BOOLEAN, e \in Embedders : Start(w, force, e)) \/ Step(w) \/ Abort(w),
         quiet'[w]
  PROVE  KnowsTree(w)'
<1>1. /\ pc \in [Workers -> Phases] /\ job \in [Workers -> Job] /\ seen \in [Workers -> Tree]
      /\ todo \in [Workers -> SUBSET Paths] /\ quiet \in [Workers -> BOOLEAN] /\ disk \in Tree
  BY DEF TypeInv, TypeOK
<1>2. ASSUME NEW force \in BOOLEAN, NEW e \in Embedders, Start(w, force, e)
      PROVE  KnowsTree(w)'
  <2>1. pc'[w] = "walk" /\ todo'[w] = Paths
    BY <1>1, <1>2 DEF Start, Goto
  <2> QED BY <2>1 DEF KnowsTree
<1>3. ASSUME Step(w)
      PROVE  KnowsTree(w) /\ UNCHANGED <<disk, job>>
  <2>1. quiet[w]
    <3>1. (\E new : Commit(w, new)) \/ UNCHANGED quiet
      BY SMTT(30), <1>3 DEF Step, WalkFile, Remove, ForceFile, SkipFile, ChangedFile,
             Rewrite, ReadMetaId, Verify, CheckStamped, StampId, StampDim, Wipe, ListStored,
             RemoveDone, WriteFile, Finish, ReprocessFile
    <3> QED BY <1>1, <3>1 DEF Commit
  <2>2. UNCHANGED <<disk, job>>
    BY <1>3 DEF Step, WalkFile, Remove, ForceFile, SkipFile, ChangedFile,
           Rewrite, ReadMetaId, Verify, CheckStamped, StampId, StampDim, Wipe, ListStored,
           RemoveDone, WriteFile, Finish, ReprocessFile, Leave
  <2> QED BY <2>1, <2>2
<1>4. ASSUME pc'[w] = "idle"
      PROVE  KnowsTree(w)'
  BY <1>4 DEF KnowsTree
<1>5. ASSUME NEW how, Leave(w, how)
      PROVE  pc'[w] = "idle"
  BY <1>1, <1>5 DEF Leave, Goto
<1>6. ASSUME NEW p \in Paths, WalkFile(w, p)
      PROVE  KnowsTree(w)'
  <2>1. KnowsTree(w) /\ UNCHANGED disk
    BY <1>3, <1>6 DEF Step
  <2>2. /\ pc[w] = "walk"
        /\ seen'[w] = [seen[w] EXCEPT ![p] = disk[p]]
        /\ todo'[w] = todo[w] \ {p}
        /\ pc'[w] = IF todo[w] = {p} THEN "rewrite" ELSE "walk"
    BY <1>1, <1>6 DEF WalkFile, Goto
  <2>3. seen[w] \in [Paths -> Contents \union {Absent}]
    BY <1>1 DEF Tree
  <2>4. \A q \in Paths : q \notin todo'[w] => seen'[w][q] = disk[q]
    BY <2>1, <2>2, <2>3 DEF KnowsTree
  <2>5. CASE todo[w] = {p}
    <3>1. \A q \in Paths : seen'[w][q] = disk[q]
      BY <2>2, <2>4, <2>5
    <3>2. seen'[w] = disk
      BY <1>1, <2>2, <2>3, <3>1 DEF Tree
    <3> QED BY <2>1, <2>2, <2>5, <3>2 DEF KnowsTree
  <2>6. CASE todo[w] # {p}
    BY <2>1, <2>2, <2>4, <2>6 DEF KnowsTree
  <2> QED BY <2>5, <2>6
<1>7. ASSUME Step(w), pc[w] \notin {"idle", "walk"}, UNCHANGED seen,
             pc'[w] \notin {"idle", "walk", "remove", "wipe"}
      PROVE  KnowsTree(w)'
  BY <1>3, <1>7 DEF KnowsTree
<1>8. ASSUME Rewrite(w)
      PROVE  KnowsTree(w)'
  <2>1. CASE CanRewrite(db, job[w].rid)
    <3>1. /\ pc'[w] = IF job[w].force THEN "wipe" ELSE "verifyId"
          /\ UNCHANGED <<seen, job>> /\ pc[w] = "rewrite"
      BY <1>1, <1>8, <2>1 DEF Rewrite, Goto
    <3>2. KnowsTree(w) /\ UNCHANGED disk
      BY <1>3, <1>8 DEF Step
    <3> QED BY <3>1, <3>2 DEF KnowsTree
  <2>2. CASE ~ CanRewrite(db, job[w].rid)
    BY <1>4, <1>5, <1>8, <2>2 DEF Rewrite
  <2> QED BY <2>1, <2>2
<1>9. ASSUME ReadMetaId(w) \/ CheckStamped(w) \/ StampId(w) \/ StampDim(w) \/ Wipe(w)
               \/ RemoveDone(w)
      PROVE  KnowsTree(w)'
  <2>1. /\ UNCHANGED seen /\ pc[w] \notin {"idle", "walk"}
        /\ pc'[w] \notin {"idle", "walk", "remove", "wipe"}
    BY <1>1, <1>9 DEF ReadMetaId, CheckStamped, StampId, StampDim, Wipe, RemoveDone, Goto
  <2> QED BY <1>7, <1>9, <2>1 DEF Step
<1>10. ASSUME Verify(w)
       PROVE  KnowsTree(w)'
  <2>1. CASE EmbedderAccepted(metaId[w], db.embDim, job[w].emb)
    <3>1. pc[w] = "verifyDim" /\ pc'[w] = "stampedId" /\ UNCHANGED seen
      BY <1>1, <1>10, <2>1 DEF Verify, Goto
    <3> QED BY <1>7, <1>10, <3>1 DEF Step
  <2>2. CASE ~ EmbedderAccepted(metaId[w], db.embDim, job[w].emb)
    BY <1>4, <1>5, <1>10, <2>2 DEF Verify
  <2> QED BY <2>1, <2>2
<1>11. ASSUME ListStored(w)
       PROVE  KnowsTree(w)'
  <2>1. /\ pc[w] = "list" /\ pc'[w] = "remove" /\ UNCHANGED seen
        /\ todo'[w] \intersect Walked(w) = {}
    BY <1>1, <1>11 DEF ListStored, Goto
  <2>2. KnowsTree(w) /\ UNCHANGED disk
    BY <1>3, <1>11 DEF Step
  <2> QED BY <2>1, <2>2 DEF KnowsTree, Walked
<1>12. ASSUME NEW p \in Paths, Remove(w, p)
       PROVE  KnowsTree(w)'
  <2>1. pc[w] = "remove" /\ UNCHANGED <<pc, seen>> /\ todo'[w] = todo[w] \ {p}
    BY <1>1, <1>12 DEF Remove
  <2>2. KnowsTree(w) /\ UNCHANGED disk
    BY <1>3, <1>12 DEF Step
  <2> QED BY <2>1, <2>2 DEF KnowsTree, Walked
<1>13. ASSUME NEW p \in Paths, SkipFile(w, p) \/ ChangedFile(w, p)
       PROVE  KnowsTree(w)'
  <2>1. pc[w] = "files" /\ UNCHANGED seen /\ pc'[w] \in {"files", "write"}
    BY <1>1, <1>13 DEF SkipFile, ChangedFile, Goto
  <2> QED BY <1>7, <1>13, <2>1 DEF Step
<1>14. ASSUME (\E p \in Paths : ForceFile(w, p)) \/ WriteFile(w)
       PROVE  KnowsTree(w)'
  <2>1. PICK p : ReprocessFile(w, p)
    BY <1>14 DEF ForceFile, WriteFile
  <2>2. pc[w] \in {"files", "write"}
    BY <1>14 DEF ForceFile, WriteFile
  <2>3. CASE CanReprocess(db, p, seen[w][p], job[w].emb)
    <3>1. UNCHANGED seen /\ pc'[w] = "files"
      BY <1>1, <2>1, <2>3 DEF ReprocessFile, Goto
    <3> QED BY <1>7, <1>14, <2>2, <3>1 DEF Step
  <2>4. CASE ~ CanReprocess(db, p, seen[w][p], job[w].emb)
    BY <1>4, <1>5, <2>1, <2>4 DEF ReprocessFile
  <2> QED BY <2>3, <2>4
<1>15. ASSUME Finish(w) \/ Abort(w)
       PROVE  KnowsTree(w)'
  BY <1>4, <1>5, <1>15 DEF Finish, Abort
<1>16. ASSUME Step(w)
       PROVE  KnowsTree(w)'
  BY <1>6, <1>8, <1>9, <1>10, <1>11, <1>12, <1>13, <1>14, <1>15, <1>16 DEF Step
<1> QED BY <1>2, <1>15, <1>16

LEMMA StepKeepsTree ==
  ASSUME TypeInv, TreeInv, [Next]_vars
  PROVE  TreeInv'
<1> DEFINE Kept(v) == quiet[v] => KnowsTree(v)
<1>1. \A v \in Workers : Kept(v)
  BY DEF TreeInv
<1>2. (\A v \in Workers : Kept(v)') => TreeInv'
  BY DEF TreeInv
<1>3. ASSUME NEW v \in Workers, quiet[v],
             UNCHANGED <<disk, pc[v], job[v], seen[v], todo[v]>>
      PROVE  Kept(v)'
  <2>1. KnowsTree(v)
    BY <1>1, <1>3
  <2> QED BY <1>3, <2>1 DEF KnowsTree, Walked
<1>4. ASSUME NEW w \in Workers, NEW v \in Workers,
             (\E force \in BOOLEAN, e \in Embedders : Start(w, force, e)) \/ Step(w) \/ Abort(w)
      PROVE  Kept(v)'
  <2>1. CASE v = w
    BY <1>1, <1>4, <2>1, StepKnowsTree
  <2>2. CASE v # w /\ quiet'[v]
    <3> HIDE DEF Kept
    <3> QED BY <1>3, <1>4, <2>2, Undisturbed
  <2> QED BY <2>1, <2>2
<1>5. ASSUME NEW v \in Workers, UNCHANGED vars
      PROVE  Kept(v)'
  BY <1>3, <1>5 DEF vars, workerVars
<1>6. ASSUME NEW v \in Workers,
             (\E p \in Paths, c \in Contents \union {Absent} : Edit(p, c))
               \/ \E r \in RepoIds : MoveRepo(r)
      PROVE  Kept(v)'
  BY <1>6 DEF Edit, MoveRepo
<1> HIDE DEF Kept
<1> QED BY <1>2, <1>4, <1>5, <1>6 DEF Next, Rest

LEMMA AloneKeepsCurrent ==
  ASSUME TypeInv, TreeInv, [Next]_vars,
         NEW w \in Workers, AloneStep(w), ~ job[w].force, NEW p \in Paths, Current(p)
  PROVE  Current(p)'
<1>1. /\ pc \in [Workers -> Phases] /\ DbType(db) /\ DOMAIN db = Tables /\ disk \in Tree
      /\ quiet[w] /\ quiet'[w] /\ pc[w] # "idle"
      /\ KnowsTree(w)
  BY DEF TypeInv, TypeOK, DbType, AloneStep, TreeInv
<1>2. ASSUME db'.chunks = db.chunks, UNCHANGED disk
      PROVE  Current(p)'
  <2>1. Searchable(db', p) = Searchable(db, p)
    BY <1>2, SameSearchable
  <2> QED BY <1>2, <2>1 DEF Current
<1>3. ASSUME NEW v \in Workers, v # w,
             (\E force \in BOOLEAN, e \in Embedders : Start(v, force, e)) \/ Step(v) \/ Abort(v)
      PROVE  Current(p)'
  BY <1>1, <1>2, <1>3, Undisturbed
<1>4. ASSUME NEW q \in Paths, Remove(w, q)
      PROVE  Current(p)'
  <2>1. db' = RemoveFile(db, q, job[w].rid) /\ UNCHANGED disk
    BY <1>4 DEF Remove, Commit
  <2>2. Searchable(db', p) = IF p = q THEN {} ELSE Searchable(db, p)
    BY <1>1, <2>1, RemoveSearchable
  <2>3. disk[q] = Absent
    BY <1>1, <1>4 DEF Remove, KnowsTree, Walked
  <2> QED BY <2>1, <2>2, <2>3 DEF Current, TextsOf
<1>5. ASSUME (\E q \in Paths : ForceFile(w, q)) \/ WriteFile(w)
      PROVE  Current(p)'
  <2>1. PICK q \in Walked(w) : ReprocessFile(w, q) /\ pc[w] \in {"files", "write"}
    BY <1>5 DEF ForceFile, WriteFile, TypeInv, WritesWhatItWalked
  <2>2. UNCHANGED disk /\ seen[w] = disk /\ q \in Paths /\ disk[q] \in Contents
    BY <1>1, <2>1 DEF ReprocessFile, KnowsTree, Walked, Tree
  <2>3. CASE db' = Reprocess(db, q, disk[q], job[w].rid, job[w].emb)
    <3>1. Searchable(db', p) = IF p = q THEN TextsOf(q, disk[q]) ELSE Searchable(db, p)
      BY <1>1, <2>2, <2>3, ReprocessSearchable
    <3> QED BY <2>2, <3>1 DEF Current
  <2>4. db' = db \/ db' = Reprocess(db, q, disk[q], job[w].rid, job[w].emb)
    BY <2>1, <2>2 DEF ReprocessFile, Commit
  <2> QED BY <1>2, <2>2, <2>3, <2>4
<1>6. ASSUME Rewrite(w) \/ StampId(w) \/ StampDim(w)
      PROVE  Current(p)'
  <2>1. db'.chunks = db.chunks /\ UNCHANGED disk
    BY <1>1, <1>6 DEF Rewrite, StampId, StampDim, Commit, RewritePlaceholder, Tables
  <2> QED BY <1>2, <2>1
<1>7. ~ Wipe(w) /\ ~ \E force \in BOOLEAN, e \in Embedders : Start(w, force, e)
  BY <1>1 DEF Wipe, Start, KnowsTree
<1>8. ASSUME UNCHANGED <<db, disk>>
      PROVE  Current(p)'
  BY <1>2, <1>8
<1>9. ASSUME Step(w)
      PROVE  Current(p)'
  BY <1>4, <1>5, <1>6, <1>7, <1>8, <1>9
     DEF Step, WalkFile, SkipFile, ChangedFile, ReadMetaId, Verify, CheckStamped, ListStored,
         RemoveDone, Finish
<1>10. ASSUME Abort(w) \/ UNCHANGED vars
       PROVE  Current(p)'
  BY <1>8, <1>10 DEF Abort, vars
<1>11. ~ ((\E q \in Paths, c \in Contents \union {Absent} : Edit(q, c))
            \/ \E r \in RepoIds : MoveRepo(r))
  BY <1>1 DEF Edit, MoveRepo
<1> QED BY <1>3, <1>7, <1>9, <1>10, <1>11 DEF Next, Rest

(***************************************************************************)
(* An undisturbed incremental reindex makes no file unsearchable whose     *)
(* indexed chunks are up to date, at none of its steps, and moved or not.  *)
(***************************************************************************)
THEOREM CurrentIsKept == Spec => IncrementalKeepsCurrent
<1>1. Init => TypeInv /\ TreeInv
  BY Initially DEF Init, TreeInv
<1>2. TypeInv /\ TreeInv /\ [Next]_vars => TypeInv' /\ TreeInv'
  BY StepKeepsType, StepKeepsTree
<1>3. TypeInv /\ TreeInv /\ [Next]_vars =>
        [\A w \in Workers : AloneStep(w) /\ ~ job[w].force =>
           \A p \in Paths : Current(p) => Current(p)']_vars
  BY AloneKeepsCurrent
<1> QED BY <1>1, <1>2, <1>3, PTL DEF Spec, IncrementalKeepsCurrent

------------------------------------------------------------------------------

(***************************************************************************)
(* OneEmbedder rests on the order of wipe, stamp and insert, and on one    *)
(* process at a time: two could each find no stamp, or wipe and insert     *)
(* between the other's statements.  An index of before the stamp can hold  *)
(* vectors of any embedder, so there must be none.                         *)
(***************************************************************************)
OneWorker == \A v, w \in Workers : v = w

StampAgrees(w) ==
  /\ pc[w] \in {"verifyDim", "stampedDim"} => metaId[w] = db.embId
  /\ pc[w] \in {"stampedId", "stampedDim"} => EmbedderAccepted(db.embId, db.embDim, job[w].emb)
  /\ pc[w] \in {"stampId", "stampDim"} => DOMAIN db.vec = {}
  /\ pc[w] = "stampDim" => db.embId = job[w].emb
  /\ pc[w] \in {"list", "remove", "files", "write"} =>
       db.embId = job[w].emb /\ db.embDim = Dim[job[w].emb]

EmbedderInv ==
  /\ DOMAIN db.vec # {} => Stamped(db.embId, db.embDim) /\ AllBy(db, db.embId)
  /\ \A w \in Workers : StampAgrees(w)

LEMMA StepKeepsEmbedder ==
  ASSUME OneWorker, TypeInv, EmbedderInv, [Next]_vars
  PROVE  EmbedderInv'
<1> DEFINE Same(d) == d.vec = db.vec /\ d.embId = db.embId /\ d.embDim = db.embDim
           Held(d) == DOMAIN d.vec # {} => Stamped(d.embId, d.embDim) /\ AllBy(d, d.embId)
<1>1. /\ pc \in [Workers -> Phases] /\ job \in [Workers -> Job]
      /\ metaId \in [Workers -> Embedders \union {NoEmbedder}]
      /\ DOMAIN db = Tables
      /\ Dim \in [Embedders -> Nat \ {0}] /\ NoEmbedder \notin Embedders
  BY EmbedderAssumption DEF TypeInv, TypeOK, DbType
<1>2. Held(db) /\ \A w \in Workers : StampAgrees(w)
  BY DEF EmbedderInv
<1>3. ASSUME Same(db') PROVE Held(db')
  BY <1>2, <1>3 DEF AllBy
<1>4. ASSUME Held(db'), NEW w \in Workers, StampAgrees(w)' PROVE EmbedderInv'
  BY <1>4 DEF EmbedderInv, OneWorker
<1>5. ASSUME Same(db'), NEW w \in Workers, pc'[w] \in {"idle", "walk", "rewrite", "wipe"}
      PROVE  EmbedderInv'
  BY <1>3, <1>4, <1>5 DEF StampAgrees
<1>6. ASSUME NEW w \in Workers, NEW how, Leave(w, how), UNCHANGED db
      PROVE  EmbedderInv'
  <2>1. pc'[w] = "idle"
    BY <1>1, <1>6 DEF Leave, Goto
  <2> QED BY <1>5, <1>6, <2>1
<1>7. ASSUME NEW w \in Workers, NEW force \in BOOLEAN, NEW e \in Embedders, Start(w, force, e)
      PROVE  EmbedderInv'
  <2>1. Same(db') /\ pc'[w] = "walk"
    BY <1>1, <1>7 DEF Start, OpenDb, Goto, Tables
  <2> QED BY <1>5, <2>1
<1>8. ASSUME NEW w \in Workers, NEW p \in Paths, WalkFile(w, p)
      PROVE  EmbedderInv'
  <2>1. Same(db') /\ pc'[w] \in {"walk", "rewrite"}
    BY <1>1, <1>8 DEF WalkFile, Goto
  <2> QED BY <1>5, <2>1
<1>9. ASSUME NEW w \in Workers, Rewrite(w)
      PROVE  EmbedderInv'
  <2>1. CASE CanRewrite(db, job[w].rid)
    <3>1. Same(db') /\ pc'[w] \in {"wipe", "verifyId"}
      BY <1>1, <1>9, <2>1 DEF Rewrite, Commit, Goto, RewritePlaceholder, Tables
    <3> HIDE DEF Same
    <3>2. StampAgrees(w)'
      BY <3>1 DEF StampAgrees
    <3> HIDE DEF Held
    <3> QED BY <1>3, <1>4, <3>1, <3>2
  <2>2. CASE ~ CanRewrite(db, job[w].rid)
    BY <1>6, <1>9, <2>2 DEF Rewrite
  <2> QED BY <2>1, <2>2
<1>10. ASSUME NEW w \in Workers, ReadMetaId(w)
       PROVE  EmbedderInv'
  <2>1. /\ UNCHANGED <<db, job>> /\ metaId'[w] = db.embId
        /\ \/ pc[w] = "verifyId" /\ pc'[w] = "verifyDim"
           \/ pc[w] = "stampedId" /\ pc'[w] = "stampedDim"
    BY <1>1, <1>10 DEF ReadMetaId, Goto
  <2>2. StampAgrees(w)'
    BY <1>2, <2>1 DEF StampAgrees
  <2> QED BY <1>2, <1>4, <2>1, <2>2
<1>11. ASSUME NEW w \in Workers, Verify(w)
       PROVE  EmbedderInv'
  <2>1. CASE EmbedderAccepted(metaId[w], db.embDim, job[w].emb)
    <3>1. /\ UNCHANGED <<db, job>> /\ pc[w] = "verifyDim" /\ pc'[w] = "stampedId"
      BY <1>1, <1>11, <2>1 DEF Verify, Goto
    <3>2. StampAgrees(w)'
      BY <1>2, <2>1, <3>1 DEF StampAgrees
    <3> QED BY <1>2, <1>4, <3>1, <3>2
  <2>2. CASE ~ EmbedderAccepted(metaId[w], db.embDim, job[w].emb)
    BY <1>6, <1>11, <2>2 DEF Verify
  <2> QED BY <2>1, <2>2
<1>12. ASSUME NEW w \in Workers, CheckStamped(w)
       PROVE  EmbedderInv'
  <2>1. /\ UNCHANGED <<db, job>> /\ pc[w] = "stampedDim" /\ metaId[w] = db.embId
        /\ pc'[w] = IF Stamped(db.embId, db.embDim) THEN "list" ELSE "stampId"
        /\ EmbedderAccepted(db.embId, db.embDim, job[w].emb)
    BY <1>1, <1>2, <1>12 DEF CheckStamped, Goto, StampAgrees
  <2>2. StampAgrees(w)'
    BY <1>2, <2>1 DEF StampAgrees, EmbedderAccepted
  <2> QED BY <1>2, <1>4, <2>1, <2>2
<1>13. ASSUME NEW w \in Workers, StampId(w)
       PROVE  EmbedderInv'
  <2>1. /\ pc[w] = "stampId" /\ pc'[w] = "stampDim" /\ UNCHANGED job
        /\ db'.vec = db.vec /\ db'.embId = job[w].emb
    BY <1>1, <1>13 DEF StampId, Commit, Goto, Tables
  <2>2. DOMAIN db'.vec = {}
    BY <1>2, <2>1 DEF StampAgrees
  <2>3. StampAgrees(w)'
    BY <2>1, <2>2 DEF StampAgrees
  <2> QED BY <1>4, <2>2, <2>3
<1>14. ASSUME NEW w \in Workers, StampDim(w)
       PROVE  EmbedderInv'
  <2>1. /\ pc[w] = "stampDim" /\ pc'[w] \in {"files", "list"} /\ UNCHANGED job
        /\ db'.vec = db.vec /\ db'.embId = db.embId /\ db'.embDim = Dim[job[w].emb]
    BY <1>1, <1>14 DEF StampDim, Commit, Goto, Tables
  <2>2. DOMAIN db'.vec = {} /\ db.embId = job[w].emb
    BY <1>2, <2>1 DEF StampAgrees
  <2>3. StampAgrees(w)'
    BY <2>1, <2>2 DEF StampAgrees
  <2> QED BY <1>4, <2>2, <2>3
<1>15. ASSUME NEW w \in Workers, Wipe(w)
       PROVE  EmbedderInv'
  <2>1. pc'[w] = "stampId" /\ DOMAIN db'.vec = {}
    BY <1>1, <1>15 DEF Wipe, Commit, Goto, WipeAll, NoRows, Tables
  <2>2. StampAgrees(w)'
    BY <2>1 DEF StampAgrees
  <2> QED BY <1>4, <2>1, <2>2
<1>16. ASSUME NEW w \in Workers, NEW p \in Paths, Remove(w, p)
       PROVE  EmbedderInv'
  <2> DEFINE del == DeleteFileRows(db, p)
  <2>1. /\ db' = RemoveFile(db, p, job[w].rid)
        /\ pc[w] = "remove" /\ pc'[w] = "remove" /\ UNCHANGED job
    BY <1>16 DEF Remove, Commit
  <2>2. /\ DOMAIN del = Tables
        /\ DOMAIN del.vec \subseteq DOMAIN db.vec
        /\ \A r \in DOMAIN del.vec : del.vec[r] = db.vec[r]
        /\ del.embId = db.embId /\ del.embDim = db.embDim
    BY <1>1, DeletedTables
  <2> HIDE DEF del
  <2>3. db'.vec = del.vec /\ db'.embId = db.embId /\ db'.embDim = db.embDim
    BY <2>1, <2>2 DEF RemoveFile, Tables, del
  <2>4. Held(db')
    BY <1>2, <2>2, <2>3 DEF AllBy
  <2>5. StampAgrees(w)'
    BY <1>2, <2>1, <2>3 DEF StampAgrees
  <2> HIDE DEF Held
  <2> QED BY <1>4, <2>4, <2>5
<1>17. ASSUME NEW w \in Workers, NEW p, ReprocessFile(w, p), pc[w] \in {"files", "write"}
       PROVE  EmbedderInv'
  <2>1. CASE CanReprocess(db, p, seen[w][p], job[w].emb)
    <3> DEFINE d == Reprocess(db, p, seen[w][p], job[w].rid, job[w].emb)
    <3>1. db' = d /\ pc'[w] = "files" /\ UNCHANGED job
      BY <1>1, <1>17, <2>1 DEF ReprocessFile, Commit, Goto
    <3>2. db.embId = job[w].emb /\ db.embDim = Dim[job[w].emb]
      BY <1>2, <1>17 DEF StampAgrees
    <3>3. d.embId = db.embId /\ d.embDim = db.embDim
      BY <1>1, ReprocessedMeta
    <3>4. AllBy(d, job[w].emb)
      <4>1. AllBy(db, job[w].emb)
        BY <1>2, <3>2 DEF AllBy
      <4> QED BY <1>1, <4>1, ReprocessAllBy
    <3>5. job[w].emb \in Embedders
      BY <1>1 DEF Job
    <3> HIDE DEF d
    <3>6. Held(db')
      BY <1>1, <3>1, <3>2, <3>3, <3>4, <3>5 DEF Stamped
    <3>7. StampAgrees(w)'
      BY <3>1, <3>2, <3>3 DEF StampAgrees
    <3> HIDE DEF Held
    <3> QED BY <1>4, <3>6, <3>7
  <2>2. CASE ~ CanReprocess(db, p, seen[w][p], job[w].emb)
    BY <1>6, <1>17, <2>2 DEF ReprocessFile
  <2> QED BY <2>1, <2>2
<1>18. ASSUME NEW w \in Workers, (\E p \in Paths : ForceFile(w, p)) \/ WriteFile(w)
       PROVE  EmbedderInv'
  BY <1>17, <1>18 DEF ForceFile, WriteFile
<1>19. ASSUME NEW w \in Workers,
              \/ ListStored(w) \/ RemoveDone(w)
              \/ \E p \in Paths : SkipFile(w, p) \/ ChangedFile(w, p)
       PROVE  EmbedderInv'
  <2>1. /\ pc[w] \in {"list", "remove", "files"}
        /\ pc'[w] \in {"remove", "files", "write"} /\ UNCHANGED <<db, job>>
    BY <1>1, <1>19 DEF ListStored, RemoveDone, SkipFile, ChangedFile, Goto
  <2>2. StampAgrees(w)'
    BY <1>2, <2>1 DEF StampAgrees
  <2> QED BY <1>2, <1>4, <2>1, <2>2
<1>20. ASSUME NEW w \in Workers, Finish(w) \/ Abort(w)
       PROVE  EmbedderInv'
  BY <1>6, <1>20 DEF Finish, Abort
<1>21. ASSUME UNCHANGED <<db, pc, job, metaId>>
       PROVE  EmbedderInv'
  BY <1>21 DEF EmbedderInv, StampAgrees, AllBy
<1>22. ASSUME NEW w \in Workers, Step(w)
       PROVE  EmbedderInv'
  BY <1>8, <1>9, <1>10, <1>11, <1>12, <1>13, <1>14, <1>15, <1>16, <1>18, <1>19, <1>20, <1>22
     DEF Step
<1> QED BY <1>7, <1>20, <1>21, <1>22 DEF Next, Edit, MoveRepo, Rest, vars, workerVars

(***************************************************************************)
(* One process at a time keeps all vectors of a stamped index of the       *)
(* embedder in its stamp, wherever it dies: between the wipe and the two   *)
(* statements of the stamp, between the stamp and the first insert.        *)
(***************************************************************************)
THEOREM StampIsTrue ==
  ASSUME OneWorker, LegacyEmbedders = {}
  PROVE  Spec => []OneEmbedder
<1>1. Init => TypeInv /\ EmbedderInv
  <2>1. Init => DOMAIN db.vec = {}
    BY DEF Init, MissingDb, NoRows
  <2> QED BY <2>1, Initially DEF Init, EmbedderInv, StampAgrees
<1>2. TypeInv /\ EmbedderInv /\ [Next]_vars => TypeInv' /\ EmbedderInv'
  BY StepKeepsType, StepKeepsEmbedder
<1>3. EmbedderInv => OneEmbedder
  BY DEF EmbedderInv, OneEmbedder, AllBy
<1> QED BY <1>1, <1>2, <1>3, PTL DEF Spec
=============================================================================
