---------------------------- MODULE VectorProofs ----------------------------
(***************************************************************************)
(* Proofs about VectorIndex for every set of entities, vectors and         *)
(* metadata and for every bound: the rows and the maps agree, what is      *)
(* saved is restored, a search without a filter is exact, and the index is *)
(* a map (VectorMap).                                                      *)
(***************************************************************************)
EXTENDS VectorIndex, FiniteSetTheorems, SequenceTheorems, TLAPS

\* Row i of ids is the last one of entity e.
IsLast(ids, i, e) ==
  /\ i \in DOMAIN ids /\ ids[i] = e
  /\ \A j \in DOMAIN ids : ids[j] = e => j <= i

\* What was saved last is accepted, only entities that have a row are tombstoned
\* in it, and each of its live entities has a last row.
SavedAgrees ==
  saved # NotSaved =>
    /\ Acceptable(saved)
    /\ Len(saved.faiss) <= MaxRows
    /\ saved.tombstoned \subseteq Range(saved.faiss_ids)
    /\ \A e \in LiveIds(saved) : \E i \in 1..Len(saved.faiss_ids) : IsLast(saved.faiss_ids, i, e)

\* The inductive invariant.
IInv == TypeInvariant /\ RowsAgree /\ SavedAgrees

-----------------------------------------------------------------------------
(***************************************************************************)
(* Lemmas about the operators the index is built from.                     *)
(***************************************************************************)
\* A batch is a nonempty sequence, and without its head a batch or empty.
LEMMA BatchFact ==
  ASSUME NEW batch \in Batch
  PROVE  /\ batch \in Seq(Embedding) /\ batch # <<>>
         /\ Head(batch) \in Embedding
         /\ Tail(batch) \in Batch \cup {<<>>}
         /\ Len(batch) \in Nat /\ Len(Tail(batch)) = Len(batch) - 1
<1>1. PICK n \in 1..MaxBatch : batch \in [1..n -> Embedding]
  BY DEF Batch
<1>2. n \in Nat /\ n >= 1 /\ n <= MaxBatch /\ MaxBatch \in Nat
  BY <1>1, IndexAssumption
<1>3. batch \in Seq(Embedding) /\ Len(batch) = n
  BY <1>1, <1>2
<1>4. batch # <<>>
  BY <1>2, <1>3
<1>5. /\ Head(batch) \in Embedding
      /\ Tail(batch) \in Seq(Embedding) /\ Len(Tail(batch)) = n - 1
  BY <1>3, <1>4, HeadTailProperties
<1>6. Tail(batch) \in Batch \cup {<<>>}
  <2>1. CASE n = 1
    <3>1. Len(Tail(batch)) = 0
      BY <2>1, <1>5
    <3>2. Tail(batch) = <<>>
      BY <3>1, <1>5, EmptySeq
    <3>3. QED
      BY <3>2
  <2>2. CASE n # 1
    <3>1. n - 1 \in 1..MaxBatch
      BY <2>2, <1>2
    <3>2. Tail(batch) \in [1..n - 1 -> Embedding]
      BY <1>5, LenProperties
    <3>3. QED
      BY <3>1, <3>2 DEF Batch
  <2>3. QED
    BY <2>1, <2>2
<1>7. QED
  BY <1>2, <1>3, <1>4, <1>5, <1>6

\* Putting an entity into a map keeps the map's range.
LEMMA PutFact ==
  ASSUME NEW S, NEW T, NEW f \in Partial(S, T), NEW e \in S, NEW x \in T
  PROVE  Put(f, e, x) \in Partial(S, T)
<1>1. PICK D \in SUBSET S : f \in [D -> T]
  BY DEF Partial
<1>2. D \cup {e} \in SUBSET S /\ Put(f, e, x) \in [D \cup {e} -> T]
  BY <1>1 DEF Put
<1>3. QED
  BY <1>1, <1>2 DEF Partial

\* So does taking entities out.
LEMMA WithoutFact ==
  ASSUME NEW S, NEW T, NEW f \in Partial(S, T), NEW R
  PROVE  Without(f, R) \in Partial(S, T)
<1>1. PICK D \in SUBSET S : f \in [D -> T]
  BY DEF Partial
<1>2. D \ R \in SUBSET S /\ Without(f, R) \in [D \ R -> T]
  BY <1>1 DEF Without
<1>3. QED
  BY <1>1, <1>2 DEF Partial

\* A map is a function on a part of the entities.
LEMMA PartialFact ==
  ASSUME NEW S, NEW T, NEW f \in Partial(S, T)
  PROVE  /\ DOMAIN f \subseteq S /\ f \in [DOMAIN f -> T]
         /\ \A d \in DOMAIN f : f[d] \in T
BY DEF Partial

\* A function on a part of the entities is a map.
LEMMA PartialIntro ==
  ASSUME NEW S, NEW T, NEW D \in SUBSET S, NEW f \in [D -> T]
  PROVE  f \in Partial(S, T)
BY DEF Partial

\* LastRow is the last row.
LEMMA LastRowFact ==
  ASSUME NEW state, NEW e, NEW i, state.faiss_ids \in Seq(Entity), IsLast(state.faiss_ids, i, e)
  PROVE  LastRow(state, e) = i
<1>1. DOMAIN state.faiss_ids \subseteq Int
  BY LenProperties
<1>2. \A j \in DOMAIN state.faiss_ids : IsLast(state.faiss_ids, j, e) => j = i
  BY <1>1 DEF IsLast
<1>3. QED
  BY <1>2 DEF IsLast, LastRow

-----------------------------------------------------------------------------
(***************************************************************************)
(* What a save writes is what a load gives back.                           *)
(***************************************************************************)
\* The row a live entity is mapped to is its last one.
LEMMA CurrentRow ==
  ASSUME TypeInvariant, RowsAgree, NEW e \in DOMAIN live
  PROVE  row_of[e] \in 1..Len(faiss_ids) /\ IsLast(faiss_ids, row_of[e], e)
BY LenProperties DEF TypeInvariant, RowsAgree, IsLast

\* A save writes a state, whose live entities are those of the index, and which
\* a load restores: the last row of an entity is its current one.
LEMMA PersistedFact ==
  ASSUME TypeInvariant, RowsAgree
  PROVE  /\ Persisted \in State
         /\ LiveIds(Persisted) = DOMAIN live
         /\ SaveRestores
<1>1. Persisted \in State
  BY DEF Persisted, State, TypeInvariant
<1>2. LiveIds(Persisted) = DOMAIN live
  BY DEF Persisted, LiveIds, RowsAgree
<1>3. Acceptable(Persisted)
  BY <1>2 DEF Acceptable, Persisted, RowsAgree
<1>4. ASSUME NEW e \in DOMAIN live
      PROVE  LastRow(Persisted, e) = row_of[e] /\ faiss[row_of[e]] = live[e]
  <2>1. Persisted.faiss_ids = faiss_ids
    BY DEF Persisted
  <2>2. LastRow(Persisted, e) = row_of[e]
    BY <2>1, CurrentRow, LastRowFact DEF TypeInvariant
  <2>3. QED
    BY <2>2 DEF RowsAgree
<1>5. /\ live = [e \in DOMAIN live |-> live[e]]
      /\ row_of = [e \in DOMAIN live |-> row_of[e]]
  BY PartialFact DEF TypeInvariant, RowsAgree
<1>6. RestoredLive(Persisted) = live /\ RestoredRows(Persisted) = row_of
  <2>1. Persisted.faiss = faiss
    BY DEF Persisted
  <2>2. RestoredLive(Persisted) = [e \in DOMAIN live |-> live[e]]
    BY <1>2, <1>4, <2>1 DEF RestoredLive
  <2>3. RestoredRows(Persisted) = [e \in DOMAIN live |-> row_of[e]]
    BY <1>2, <1>4 DEF RestoredRows
  <2>4. QED
    BY <1>5, <2>2, <2>3
<1>7. QED
  BY <1>1, <1>2, <1>3, <1>6 DEF SaveRestores

\* A load makes of what was saved maps that agree with its rows.
LEMMA SavedFact ==
  ASSUME TypeInvariant, SavedAgrees, saved # NotSaved
  PROVE  /\ saved \in State
         /\ Len(saved.faiss) = Len(saved.faiss_ids)
         /\ Len(saved.faiss) <= MaxRows
         /\ saved.tombstoned \subseteq Range(saved.faiss_ids)
         /\ DOMAIN saved.meta = LiveIds(saved)
         /\ \A e \in LiveIds(saved) : /\ LastRow(saved, e) \in 1..Len(saved.faiss)
                                      /\ IsLast(saved.faiss_ids, LastRow(saved, e), e)
                                      /\ saved.faiss[LastRow(saved, e)] \in Vector
<1>1. saved \in State
  BY DEF TypeInvariant
<1>2. /\ Len(saved.faiss) = Len(saved.faiss_ids) /\ Len(saved.faiss) <= MaxRows
      /\ saved.tombstoned \subseteq Range(saved.faiss_ids)
      /\ DOMAIN saved.meta = LiveIds(saved)
  BY DEF SavedAgrees, Acceptable
<1>3. saved.faiss \in Seq(Vector) /\ saved.faiss_ids \in Seq(Entity)
  BY <1>1 DEF State
<1>4. ASSUME NEW e \in LiveIds(saved)
      PROVE  /\ LastRow(saved, e) \in 1..Len(saved.faiss)
             /\ IsLast(saved.faiss_ids, LastRow(saved, e), e)
             /\ saved.faiss[LastRow(saved, e)] \in Vector
  <2>1. PICK i \in 1..Len(saved.faiss_ids) : IsLast(saved.faiss_ids, i, e)
    BY DEF SavedAgrees
  <2>2. LastRow(saved, e) = i
    BY <2>1, <1>3, LastRowFact
  <2>3. QED
    BY <2>1, <2>2, <1>2, <1>3, ElementOfSeq
<1>5. QED
  BY <1>1, <1>2, <1>4

-----------------------------------------------------------------------------
(***************************************************************************)
(* Every operation keeps the invariant.                                    *)
(***************************************************************************)
LEMMA InitHolds == Init => IInv
<1> SUFFICES ASSUME Init PROVE IInv
  OBVIOUS
<1>1. Empty \in Partial(Entity, Vector) /\ Empty \in Partial(Entity, Meta)
      /\ Empty \in Partial(Entity, 1..0) /\ DOMAIN Empty = {}
  <2>1. {} \in SUBSET Entity /\ DOMAIN Empty = {} /\ \A T : Empty \in [{} -> T]
    BY DEF Empty
  <2>2. QED
    BY <2>1, PartialIntro
<1>2. Len(faiss) = 0 /\ Len(pending) = 0 /\ DOMAIN faiss_ids = {}
  BY EmptySeq DEF Init
<1>3. TypeInvariant
  BY <1>1, <1>2, IndexAssumption, EmptySeq DEF Init, TypeInvariant
<1>4. RowsAgree
  BY <1>1, <1>2 DEF Init, RowsAgree, Range
<1>5. SavedAgrees
  BY DEF Init, SavedAgrees
<1>6. QED
  BY <1>3, <1>4, <1>5 DEF IInv

\* A step that changes no row, no map and not what is saved.
LEMMA PendingStep ==
  ASSUME IInv, UNCHANGED <<rows, maps, saved>>,
         pending' \in Batch \cup {<<>>}, Len(faiss) + Len(pending') <= MaxRows
  PROVE  IInv'
<1> USE DEF rows, maps
<1>1. TypeInvariant'
  BY DEF IInv, TypeInvariant
<1>2. RowsAgree'
  BY DEF IInv, RowsAgree
<1>3. SavedAgrees'
  BY DEF IInv, SavedAgrees, Acceptable, LiveIds, IsLast
<1>4. QED
  BY <1>1, <1>2, <1>3 DEF IInv

\* An entity gets the row at the end, which is therefore its last one.
LEMMA AddOneHolds ==
  ASSUME IInv, AddOne
  PROVE  IInv'
<1> DEFINE x == Head(pending)
<1>1. TypeInvariant /\ RowsAgree /\ SavedAgrees
  BY DEF IInv
<1>2. pending \in Batch
  BY <1>1 DEF AddOne, LockFree, TypeInvariant
<1>3. /\ x \in Embedding
      /\ pending' \in Batch \cup {<<>>}
      /\ Len(pending) \in Nat /\ Len(pending') = Len(pending) - 1
  BY <1>2, BatchFact DEF AddOne
<1>4. /\ x.entity \in Entity /\ x.vector \in Vector /\ x.meta \in Meta
      /\ x.entity \notin DOMAIN live
  BY <1>3 DEF AddOne, Refused, Embedding
<1>5. /\ faiss \in Seq(Vector) /\ faiss_ids \in Seq(Entity)
      /\ Len(faiss) = Len(faiss_ids) /\ Len(faiss) \in Nat
  BY <1>1, LenProperties DEF TypeInvariant, RowsAgree
<1>6. /\ faiss' \in Seq(Vector) /\ Len(faiss') = Len(faiss) + 1
      /\ faiss'[Len(faiss) + 1] = x.vector
      /\ \A i \in 1..Len(faiss) : faiss'[i] = faiss[i]
  BY <1>4, <1>5, AppendProperties DEF AddOne
<1>7. /\ faiss_ids' \in Seq(Entity) /\ Len(faiss_ids') = Len(faiss) + 1
      /\ faiss_ids'[Len(faiss) + 1] = x.entity
      /\ \A i \in 1..Len(faiss) : faiss_ids'[i] = faiss_ids[i]
  BY <1>4, <1>5, AppendProperties DEF AddOne
<1>8. /\ DOMAIN faiss_ids = 1..Len(faiss) /\ DOMAIN faiss_ids' = 1..Len(faiss) + 1
      /\ DOMAIN faiss = 1..Len(faiss) /\ DOMAIN faiss' = 1..Len(faiss) + 1
  BY <1>5, <1>6, <1>7, LenProperties
<1>9. /\ live' \in Partial(Entity, Vector)
      /\ DOMAIN live' = DOMAIN live \cup {x.entity}
      /\ live'[x.entity] = x.vector
      /\ \A d \in DOMAIN live : live'[d] = live[d]
  <2>1. live \in Partial(Entity, Vector)
    BY <1>1 DEF TypeInvariant
  <2>2. live' = Put(live, x.entity, x.vector)
    BY DEF AddOne
  <2>3. live' \in Partial(Entity, Vector)
    BY <1>4, <2>1, <2>2, PutFact
  <2>4. QED
    BY <1>4, <2>2, <2>3 DEF Put
<1>10. /\ meta' \in Partial(Entity, Meta)
       /\ DOMAIN meta' = DOMAIN live \cup {x.entity}
  <2>1. meta \in Partial(Entity, Meta) /\ DOMAIN meta = DOMAIN live
    BY <1>1 DEF TypeInvariant, RowsAgree
  <2>2. meta' = Put(meta, x.entity, x.meta)
    BY DEF AddOne
  <2>3. meta' \in Partial(Entity, Meta)
    BY <1>4, <2>1, <2>2, PutFact
  <2>4. QED
    BY <2>1, <2>2, <2>3 DEF Put
<1>11. /\ row_of' \in Partial(Entity, 1..Len(faiss'))
       /\ DOMAIN row_of' = DOMAIN live \cup {x.entity}
       /\ row_of'[x.entity] = Len(faiss) + 1
       /\ \A d \in DOMAIN live : row_of'[d] = row_of[d]
  <2>1. row_of \in [DOMAIN row_of -> 1..Len(faiss)] /\ DOMAIN row_of \subseteq Entity
    BY <1>1, PartialFact DEF TypeInvariant
  <2>2. 1..Len(faiss) \subseteq 1..Len(faiss') /\ Len(faiss) + 1 \in 1..Len(faiss')
    BY <1>5, <1>6
  <2>3. row_of \in [DOMAIN row_of -> 1..Len(faiss')]
    BY <2>1, <2>2
  <2>4. row_of \in Partial(Entity, 1..Len(faiss'))
    BY <2>1, <2>3, PartialIntro
  <2>5. row_of' = Put(row_of, x.entity, Len(faiss) + 1) /\ DOMAIN row_of = DOMAIN live
    BY <1>1, <1>7 DEF AddOne, RowsAgree
  <2>6. row_of' \in Partial(Entity, 1..Len(faiss'))
    BY <1>4, <2>2, <2>4, <2>5, PutFact
  <2>7. QED
    BY <1>4, <2>5, <2>6 DEF Put
<1>12. tombstoned' = tombstoned \ {x.entity} /\ saved' = saved
  BY DEF AddOne
<1>13. TypeInvariant'
  <2>1. Len(faiss') + Len(pending') <= MaxRows
    BY <1>1, <1>3, <1>5, <1>6, IndexAssumption DEF TypeInvariant
  <2>2. QED
    BY <1>1, <1>3, <1>6, <1>7, <1>9, <1>10, <1>11, <1>12, <2>1 DEF TypeInvariant
<1>14. RowsAgree'
  <2>1. ASSUME NEW e \in DOMAIN live'
        PROVE  /\ row_of'[e] \in DOMAIN faiss_ids'
               /\ faiss_ids'[row_of'[e]] = e
               /\ faiss'[row_of'[e]] = live'[e]
               /\ \A j \in DOMAIN faiss_ids' : faiss_ids'[j] = e => j <= row_of'[e]
    <3>1. CASE e = x.entity
      BY <3>1, <1>5, <1>6, <1>7, <1>8, <1>9, <1>11
    <3>2. CASE e # x.entity
      <4>1. e \in DOMAIN live
        BY <3>2, <1>9
      <4>2. /\ row_of[e] \in 1..Len(faiss) /\ faiss_ids[row_of[e]] = e
            /\ faiss[row_of[e]] = live[e]
            /\ \A j \in 1..Len(faiss) : faiss_ids[j] = e => j <= row_of[e]
        BY <4>1, <1>1, <1>8 DEF RowsAgree
      <4>3. row_of'[e] = row_of[e] /\ live'[e] = live[e]
        BY <4>1, <1>9, <1>11
      <4>4. ASSUME NEW j \in 1..Len(faiss) + 1, faiss_ids'[j] = e
            PROVE  j \in 1..Len(faiss) /\ faiss_ids[j] = e
        BY <4>4, <3>2, <1>5, <1>7
      <4>5. row_of[e] \in 1..Len(faiss) + 1
        BY <4>2, <1>5
      <4>6. QED
        BY <4>2, <4>3, <4>4, <4>5, <1>6, <1>7, <1>8
    <3>3. QED
      BY <3>1, <3>2
  <2>2. Range(faiss_ids') = Range(faiss_ids) \cup {x.entity}
    <3>1. 1..Len(faiss) + 1 = 1..Len(faiss) \cup {Len(faiss) + 1}
      BY <1>5
    <3>2. QED
      BY <3>1, <1>7, <1>8 DEF Range
  <2>3. /\ Range(faiss_ids') = DOMAIN live' \cup tombstoned'
        /\ DOMAIN live' \cap tombstoned' = {}
    BY <2>2, <1>1, <1>9, <1>12 DEF RowsAgree
  <2>4. QED
    BY <2>1, <2>3, <1>5, <1>6, <1>7, <1>9, <1>10, <1>11 DEF RowsAgree
<1>15. SavedAgrees'
  BY <1>1, <1>12 DEF SavedAgrees, Acceptable, LiveIds, IsLast
<1>16. QED
  BY <1>13, <1>14, <1>15 DEF IInv

\* The rows of deleted entities stay and belong to tombstoned ones.
LEMMA DeleteHolds ==
  ASSUME IInv, NEW ids \in SUBSET Entity, NEW filter \in Filter, Delete(ids, filter)
  PROVE  IInv'
<1> DEFINE gone == ids \cap Passing(filter)
<1>1. TypeInvariant /\ RowsAgree /\ SavedAgrees
  BY DEF IInv
<1>2. /\ live' = Without(live, gone) /\ meta' = Without(meta, gone)
      /\ row_of' = Without(row_of, gone) /\ tombstoned' = tombstoned \cup gone
      /\ UNCHANGED <<faiss, faiss_ids, pending, saved>>
  BY DEF Delete, rows
<1>3. gone \subseteq DOMAIN live /\ gone \subseteq Entity
  BY DEF Passing
<1>4. /\ live' \in Partial(Entity, Vector) /\ meta' \in Partial(Entity, Meta)
      /\ row_of' \in Partial(Entity, 1..Len(faiss))
  BY <1>1, <1>2, WithoutFact DEF TypeInvariant
<1>5. /\ DOMAIN live' = DOMAIN live \ gone /\ DOMAIN meta' = DOMAIN live \ gone
      /\ DOMAIN row_of' = DOMAIN live \ gone
  BY <1>1, <1>2 DEF RowsAgree, Without
<1>6. \A d \in DOMAIN live' : live'[d] = live[d] /\ row_of'[d] = row_of[d]
  BY <1>1, <1>2, <1>5 DEF RowsAgree, Without
<1>7. TypeInvariant'
  BY <1>1, <1>2, <1>3, <1>4, <1>5, <1>6 DEF TypeInvariant
<1>8. RowsAgree'
  <2>1. /\ Len(faiss') = Len(faiss_ids')
        /\ DOMAIN row_of' = DOMAIN live' /\ DOMAIN meta' = DOMAIN live'
    BY <1>1, <1>2, <1>5 DEF RowsAgree
  <2>2. ASSUME NEW d \in DOMAIN live'
        PROVE  /\ row_of'[d] \in DOMAIN faiss_ids'
               /\ faiss_ids'[row_of'[d]] = d
               /\ faiss'[row_of'[d]] = live'[d]
               /\ \A j \in DOMAIN faiss_ids' : faiss_ids'[j] = d => j <= row_of'[d]
    <3>1. d \in DOMAIN live /\ live'[d] = live[d] /\ row_of'[d] = row_of[d]
      BY <1>5, <1>6
    <3>2. QED
      BY <1>1, <1>2, <3>1 DEF RowsAgree
  <2>3. Range(faiss_ids') = DOMAIN live' \cup tombstoned' /\ DOMAIN live' \cap tombstoned' = {}
    BY <1>1, <1>2, <1>3, <1>5 DEF RowsAgree
  <2>4. QED
    BY <2>1, <2>2, <2>3 DEF RowsAgree
<1>9. SavedAgrees'
  BY <1>1, <1>2 DEF SavedAgrees, Acceptable, LiveIds, IsLast
<1>10. QED
  BY <1>7, <1>8, <1>9 DEF IInv

\* There are no more live entities than rows.
LEMMA LiveCount ==
  ASSUME TypeInvariant, RowsAgree
  PROVE  /\ Cardinality(DOMAIN live) \in Nat
         /\ Cardinality(DOMAIN live) <= Len(faiss)
<1> DEFINE N == Len(faiss)
<1>1. N \in Nat
  BY LenProperties DEF TypeInvariant
<1>2. IsFiniteSet(1..N) /\ Cardinality(1..N) = N
  <2>1. IsFiniteSet(1..N) /\ Cardinality(1..N) = IF 1 > N THEN 0 ELSE N - 1 + 1
    BY <1>1, FS_Interval
  <2>2. QED
    BY <1>1, <2>1
<1>3. row_of \in Injection(DOMAIN live, 1..N)
  <2>1. row_of \in [DOMAIN live -> 1..N]
    BY PartialFact DEF TypeInvariant, RowsAgree
  <2>2. \A a, b \in DOMAIN live : row_of[a] = row_of[b] => a = b
    BY DEF RowsAgree
  <2>3. QED
    BY <2>1, <2>2 DEF Injection, IsInjective
<1>4. IsFiniteSet(DOMAIN live) /\ Cardinality(DOMAIN live) <= N
  BY <1>2, <1>3, FS_Injection
<1>5. QED
  BY <1>4, FS_CardinalityType

\* After a rebuild each live entity has one row, and no row is dead.
LEMMA RebuildHolds ==
  ASSUME IInv, Rebuild
  PROVE  IInv'
<1> DEFINE C == Cardinality(DOMAIN live)
<1>1. TypeInvariant /\ RowsAgree /\ SavedAgrees
  BY DEF IInv
<1>2. PICK survivors \in Bijection(1..C, DOMAIN live) :
        /\ faiss_ids' = survivors
        /\ faiss' = [i \in DOMAIN survivors |-> live[survivors[i]]]
        /\ row_of' = Inverse(survivors, DOMAIN survivors, DOMAIN live)
  BY DEF Rebuild
<1>3. /\ tombstoned' = {} /\ UNCHANGED <<live, meta, pending, saved>>
  BY DEF Rebuild
<1>4. C \in Nat /\ C <= Len(faiss)
  BY <1>1, LiveCount
<1>5. /\ DOMAIN live \subseteq Entity
      /\ \A e \in DOMAIN live : live[e] \in Vector
  BY <1>1, PartialFact DEF TypeInvariant
<1>6. /\ survivors \in [1..C -> DOMAIN live]
      /\ \A i, j \in 1..C : survivors[i] = survivors[j] => i = j
      /\ \A e \in DOMAIN live : \E i \in 1..C : survivors[i] = e
  BY DEF Bijection, Injection, Surjection, IsInjective
<1>7. /\ faiss_ids' \in Seq(Entity) /\ Len(faiss_ids') = C /\ DOMAIN faiss_ids' = 1..C
      /\ faiss' \in Seq(Vector) /\ Len(faiss') = C /\ DOMAIN faiss' = 1..C
  <2>1. faiss_ids' \in [1..C -> Entity]
    BY <1>2, <1>5, <1>6
  <2>2. faiss' \in [1..C -> Vector]
    BY <1>2, <1>5, <1>6
  <2>3. QED
    BY <1>4, <2>1, <2>2
<1>8. /\ row_of' \in [DOMAIN live -> 1..C]
      /\ \A e \in DOMAIN live : survivors[row_of'[e]] = e
  <2>1. ASSUME NEW e \in DOMAIN live
        PROVE  LET i == CHOOSE i \in 1..C : e \in Range(survivors) => survivors[i] = e
               IN  i \in 1..C /\ survivors[i] = e
    <3>1. \E i \in 1..C : e \in Range(survivors) => survivors[i] = e
      BY <1>6
    <3>2. e \in Range(survivors)
      BY <1>6 DEF Range
    <3>3. QED
      BY <3>1, <3>2
  <2>2. DOMAIN survivors = 1..C
    BY <1>6
  <2>3. QED
    BY <1>2, <2>1, <2>2 DEF Inverse
<1>9. TypeInvariant'
  <2>1. row_of' \in Partial(Entity, 1..Len(faiss'))
    BY <1>5, <1>7, <1>8, PartialIntro
  <2>2. Len(faiss') + Len(pending') <= MaxRows
    <3>1. Len(faiss) \in Nat
      BY <1>1, LenProperties DEF TypeInvariant
    <3>2. Len(pending) \in Nat
      BY <1>1, BatchFact, EmptySeq DEF TypeInvariant
    <3>3. Len(faiss) + Len(pending) <= MaxRows /\ MaxRows \in Nat
      BY <1>1, IndexAssumption DEF TypeInvariant
    <3>4. QED
      BY <3>1, <3>2, <3>3, <1>3, <1>4, <1>7
  <2>3. QED
    BY <1>1, <1>3, <1>7, <2>1, <2>2 DEF TypeInvariant
<1>10. RowsAgree'
  <2>1. Range(faiss_ids') = DOMAIN live
    <3>1. DOMAIN survivors = 1..C /\ \A i \in 1..C : survivors[i] \in DOMAIN live
      BY <1>6
    <3>2. Range(survivors) = {survivors[i] : i \in 1..C}
      BY <3>1 DEF Range
    <3>3. \A e \in DOMAIN live : e \in {survivors[i] : i \in 1..C}
      BY <1>6
    <3>4. \A e \in {survivors[i] : i \in 1..C} : e \in DOMAIN live
      BY <3>1
    <3>5. QED
      BY <3>2, <3>3, <3>4, <1>2
  <2>2. DOMAIN row_of' = DOMAIN live /\ DOMAIN meta' = DOMAIN live
    BY <1>1, <1>3, <1>8 DEF RowsAgree
  <2>3. ASSUME NEW e \in DOMAIN live
        PROVE  /\ row_of'[e] \in 1..C
               /\ faiss_ids'[row_of'[e]] = e
               /\ faiss'[row_of'[e]] = live[e]
               /\ \A j \in 1..C : faiss_ids'[j] = e => j <= row_of'[e]
    <3>1. row_of'[e] \in 1..C /\ survivors[row_of'[e]] = e
      BY <1>8
    <3>2. faiss'[row_of'[e]] = live[e]
      BY <3>1, <1>2, <1>6
    <3>3. ASSUME NEW j \in 1..C, faiss_ids'[j] = e
          PROVE  j <= row_of'[e]
      <4>1. j = row_of'[e]
        BY <3>1, <3>3, <1>2, <1>6
      <4>2. QED
        BY <4>1, <1>4
    <3>4. QED
      BY <3>1, <3>2, <3>3, <1>2
  <2>4. QED
    BY <2>1, <2>2, <2>3, <1>3, <1>7 DEF RowsAgree
<1>11. SavedAgrees'
  BY <1>1, <1>3 DEF SavedAgrees, Acceptable, LiveIds, IsLast
<1>12. QED
  BY <1>9, <1>10, <1>11 DEF IInv

\* What is saved agrees with the index it was saved from.
LEMMA SaveHolds ==
  ASSUME IInv, Save
  PROVE  IInv'
<1>1. TypeInvariant /\ RowsAgree
  BY DEF IInv
<1>2. saved' = Persisted /\ UNCHANGED <<faiss, faiss_ids, live, row_of, meta, tombstoned, pending>>
  BY DEF Save, rows, maps
<1>3. TypeInvariant'
  BY <1>1, <1>2, PersistedFact DEF TypeInvariant
<1>4. RowsAgree'
  BY <1>1, <1>2 DEF RowsAgree
<1>5. SavedAgrees'
  <2>1. Acceptable(Persisted) /\ LiveIds(Persisted) = DOMAIN live
    BY <1>1, PersistedFact DEF SaveRestores
  <2>2. \A e \in DOMAIN live : \E i \in 1..Len(faiss_ids) : IsLast(faiss_ids, i, e)
    BY <1>1, CurrentRow
  <2>3. Persisted.faiss_ids = faiss_ids
    BY DEF Persisted
  <2>4. \A e \in LiveIds(Persisted) :
          \E i \in 1..Len(Persisted.faiss_ids) : IsLast(Persisted.faiss_ids, i, e)
    BY <2>1, <2>2, <2>3
  <2>5. Len(Persisted.faiss) <= MaxRows
    <3>1. Len(faiss) \in Nat /\ pending = <<>>
      BY <1>1, LenProperties DEF TypeInvariant, Save, LockFree
    <3>2. Len(faiss) + Len(pending) <= MaxRows /\ Len(pending) = 0
      BY <1>1, <3>1, EmptySeq DEF TypeInvariant
    <3>3. QED
      BY <3>1, <3>2 DEF Persisted
  <2>6. Persisted.tombstoned \subseteq Range(Persisted.faiss_ids)
    BY <1>1 DEF Persisted, RowsAgree
  <2>7. QED
    BY <1>2, <2>1, <2>4, <2>5, <2>6 DEF SavedAgrees
<1>6. QED
  BY <1>3, <1>4, <1>5 DEF IInv

\* What is loaded is what was saved, with each entity at its last row.
LEMMA LoadHolds ==
  ASSUME IInv, Load
  PROVE  IInv'
<1>1. TypeInvariant /\ SavedAgrees /\ saved # NotSaved /\ pending = <<>>
  BY DEF IInv, Load, LockFree
<1>2. /\ faiss' = saved.faiss /\ faiss_ids' = saved.faiss_ids
      /\ tombstoned' = saved.tombstoned /\ meta' = saved.meta
      /\ live' = RestoredLive(saved) /\ row_of' = RestoredRows(saved)
      /\ UNCHANGED <<pending, saved>>
  BY DEF Load
<1>3. /\ faiss' \in Seq(Vector) /\ faiss_ids' \in Seq(Entity)
      /\ tombstoned' \subseteq Entity /\ meta' \in Partial(Entity, Meta)
      /\ Len(faiss') = Len(faiss_ids') /\ Len(faiss') \in Nat
      /\ DOMAIN faiss_ids' = 1..Len(faiss')
  BY <1>1, <1>2, SavedFact, LenProperties DEF State
<1>4. LiveIds(saved) \subseteq Entity /\ DOMAIN meta' = LiveIds(saved)
  BY <1>1, <1>2, <1>3, SavedFact, ElementOfSeq DEF LiveIds, Range
<1>5. /\ live' \in [LiveIds(saved) -> Vector]
      /\ row_of' \in [LiveIds(saved) -> 1..Len(faiss')]
      /\ \A e \in LiveIds(saved) :
           live'[e] = faiss'[row_of'[e]] /\ IsLast(faiss_ids', row_of'[e], e)
  BY <1>1, <1>2, SavedFact DEF RestoredLive, RestoredRows
<1>6. TypeInvariant'
  <2>1. live' \in Partial(Entity, Vector) /\ row_of' \in Partial(Entity, 1..Len(faiss'))
    BY <1>4, <1>5, PartialIntro
  <2>2. Len(faiss') + Len(pending') <= MaxRows
    <3>1. Len(faiss') <= MaxRows /\ Len(pending') = 0
      BY <1>1, <1>2, SavedFact, EmptySeq
    <3>2. QED
      BY <3>1, <1>3
  <2>3. QED
    BY <1>1, <1>2, <1>3, <2>1, <2>2 DEF TypeInvariant
<1>7. RowsAgree'
  <2>1. /\ Range(faiss_ids') = LiveIds(saved) \cup tombstoned'
        /\ LiveIds(saved) \cap tombstoned' = {}
    BY <1>1, <1>2, SavedFact DEF LiveIds
  <2>2. QED
    BY <2>1, <1>3, <1>4, <1>5 DEF RowsAgree, IsLast
<1>8. SavedAgrees'
  BY <1>1, <1>2 DEF SavedAgrees, Acceptable, LiveIds, IsLast
<1>9. QED
  BY <1>6, <1>7, <1>8 DEF IInv

-----------------------------------------------------------------------------
(***************************************************************************)
(* Theorems.                                                               *)
(***************************************************************************)
LEMMA StepHolds ==
  ASSUME IInv, [Next]_vars
  PROVE  IInv'
<1>1. ASSUME NEW batch \in Batch, Insert(batch)
      PROVE  IInv'
  BY <1>1, PendingStep DEF Insert
<1>2. CASE InsertFails
  <2>1. pending' = <<>> /\ UNCHANGED <<rows, maps, saved>>
    BY <1>2 DEF InsertFails
  <2>2. Len(faiss) + Len(pending') <= MaxRows
    <3>1. Len(faiss) \in Nat /\ Len(pending) \in Nat /\ Len(faiss) + Len(pending) <= MaxRows
      BY LenProperties, BatchFact, EmptySeq DEF IInv, TypeInvariant
    <3>2. Len(pending') = 0 /\ MaxRows \in Nat
      BY <2>1, EmptySeq, IndexAssumption
    <3>3. QED
      BY <3>1, <3>2
  <2>3. QED
    BY <2>1, <2>2, PendingStep
<1>3. CASE UNCHANGED vars
  BY <1>3, PendingStep DEF vars, IInv, TypeInvariant
<1>4. QED
  BY <1>1, <1>2, <1>3, AddOneHolds, DeleteHolds, RebuildHolds, SaveHolds, LoadHolds DEF Next

\* The invariant is inductive: nothing the index does breaks it.
THEOREM InvariantHolds == Spec => []IInv
<1>1. Init => IInv
  BY InitHolds
<1>2. IInv /\ [Next]_vars => IInv'
  BY StepHolds
<1>3. QED
  BY <1>1, <1>2, PTL DEF Spec

\* Every variable keeps to its range, for all values of the constants.
THEOREM TypeCorrect == Spec => []TypeInvariant
<1>1. IInv => TypeInvariant
  BY DEF IInv
<1>2. QED
  BY <1>1, InvariantHolds, PTL

\* After any inserts, failed inserts, deletes, rebuilds and loads, the maps and
\* the rows of the index say the same.
THEOREM RowsAlwaysAgree == Spec => []RowsAgree
<1>1. IInv => RowsAgree
  BY DEF IInv
<1>2. QED
  BY <1>1, InvariantHolds, PTL

\* An index saved at any time is accepted by a load and restored as it was.
THEOREM SavesRestore == Spec => []SaveRestores
<1>1. IInv => SaveRestores
  BY PersistedFact DEF IInv
<1>2. QED
  BY <1>1, InvariantHolds, PTL

-----------------------------------------------------------------------------
(***************************************************************************)
(* A search is exact.                                                      *)
(***************************************************************************)
\* The rows that still count: the current rows of the live entities.
LiveRows == {i \in DOMAIN faiss : Candidate(i, Meta)}

\* As many rows as k and the dead ones together, or all rows, hold k of the
\* rows that count, or all of those.
LEMMA EnoughFetched ==
  ASSUME NEW S, IsFiniteSet(S), NEW L \in SUBSET S, NEW T \in SUBSET S, NEW k \in Nat,
         Cardinality(T) = Lesser(Cardinality(S), k + (Cardinality(S) - Cardinality(L)))
  PROVE  /\ IsFiniteSet(T \cap L) /\ IsFiniteSet(L)
         /\ Cardinality(T \cap L) \in Nat /\ Cardinality(L) \in Nat
         /\ Lesser(k, Cardinality(T \cap L)) = Lesser(k, Cardinality(L))
<1>1. IsFiniteSet(T) /\ IsFiniteSet(L) /\ IsFiniteSet(S \ L)
  BY FS_Subset, FS_Difference
<1>2. Cardinality(S \ L) = Cardinality(S) - Cardinality(L)
  <2>1. S \cap L = L
    OBVIOUS
  <2>2. Cardinality(S \ L) = Cardinality(S) - Cardinality(S \cap L)
    BY FS_Difference
  <2>3. QED
    BY <2>1, <2>2
<1>3. Cardinality(T \ L) = Cardinality(T) - Cardinality(T \cap L)
  BY <1>1, FS_Difference
<1>4. Cardinality(T \ L) <= Cardinality(S \ L)
  <2>1. T \ L \in SUBSET (S \ L)
    OBVIOUS
  <2>2. QED
    BY <1>1, <2>1, FS_Subset
<1>5. IsFiniteSet(T \cap L) /\ Cardinality(T \cap L) <= Cardinality(L)
  <2>1. T \cap L \in SUBSET L
    OBVIOUS
  <2>2. QED
    BY <1>1, <2>1, FS_Subset
<1>6. /\ Cardinality(S) \in Nat /\ Cardinality(T) \in Nat
      /\ Cardinality(L) \in Nat /\ Cardinality(T \cap L) \in Nat
  BY <1>1, <1>5, FS_CardinalityType
<1>7. QED
  BY <1>1, <1>2, <1>3, <1>4, <1>5, <1>6 DEF Lesser

\* The live entities and the rows that count stand for each other, and so do
\* the entities that pass a filter and the rows that it leaves.
LEMMA LiveRowsFact ==
  ASSUME TypeInvariant, RowsAgree
  PROVE  /\ \A i \in LiveRows : faiss_ids[i] \in DOMAIN live /\ row_of[faiss_ids[i]] = i
         /\ \A e \in DOMAIN live :
              row_of[e] \in LiveRows /\ faiss_ids[row_of[e]] = e /\ faiss[row_of[e]] = live[e]
         /\ \A filter : \A i \in LiveRows : Candidate(i, filter) <=> faiss_ids[i] \in Passing(filter)
         /\ \A filter : \A i \in DOMAIN faiss : Candidate(i, filter) => i \in LiveRows
<1>1. \A e \in DOMAIN live : meta[e] \in Meta
  BY PartialFact DEF TypeInvariant, RowsAgree
<1>2. DOMAIN faiss_ids = DOMAIN faiss
  BY LenProperties DEF TypeInvariant, RowsAgree
<1>3. \A e \in DOMAIN live :
        row_of[e] \in DOMAIN faiss /\ faiss_ids[row_of[e]] = e /\ faiss[row_of[e]] = live[e]
  BY <1>2 DEF RowsAgree
<1>4. \A i \in LiveRows : faiss_ids[i] \in DOMAIN live /\ row_of[faiss_ids[i]] = i
  BY DEF LiveRows, Candidate, RowsAgree
<1>5. \A e \in DOMAIN live : row_of[e] \in LiveRows
  BY <1>1, <1>3 DEF LiveRows, Candidate, RowsAgree
<1>6. ASSUME NEW filter, NEW i \in LiveRows
      PROVE  Candidate(i, filter) <=> faiss_ids[i] \in Passing(filter)
  BY <1>4 DEF Candidate, Passing, RowsAgree
<1>7. ASSUME NEW filter, NEW i \in DOMAIN faiss, Candidate(i, filter)
      PROVE  i \in LiveRows
  BY <1>1, <1>7 DEF LiveRows, Candidate, RowsAgree
<1>8. QED
  BY <1>3, <1>4, <1>5, <1>6, <1>7

\* Rows that count belong to as many entities.
LEMMA EntitiesOfRows ==
  ASSUME TypeInvariant, RowsAgree, NEW R \in SUBSET LiveRows, IsFiniteSet(R)
  PROVE  /\ IsFiniteSet({faiss_ids[i] : i \in R})
         /\ Cardinality({faiss_ids[i] : i \in R}) = Cardinality(R)
<1> DEFINE E == {faiss_ids[i] : i \in R}
           f == [i \in R |-> faiss_ids[i]]
<1>1. f \in [R -> E]
  OBVIOUS
<1>2. \A i, j \in R : f[i] = f[j] => i = j
  BY LiveRowsFact
<1>3. \A e \in E : \E i \in R : f[i] = e
  OBVIOUS
<1>4. f \in Bijection(R, E)
  BY <1>1, <1>2, <1>3 DEF Bijection, Injection, Surjection, IsInjective
<1>5. ExistsBijection(R, E)
  BY <1>4 DEF ExistsBijection
<1>6. QED
  BY <1>5, FS_Bijection

\* The rows are finitely many, and those that count as many as live entities.
LEMMA RowCounts ==
  ASSUME TypeInvariant, RowsAgree
  PROVE  /\ IsFiniteSet(DOMAIN faiss) /\ Cardinality(DOMAIN faiss) = Len(faiss)
         /\ IsFiniteSet(LiveRows) /\ Cardinality(LiveRows) = Cardinality(DOMAIN live)
<1>1. IsFiniteSet(DOMAIN faiss) /\ Cardinality(DOMAIN faiss) = Len(faiss)
  <2> DEFINE S == DOMAIN faiss
  <2>1. PICK m \in Nat : m = Len(faiss) /\ S = 1..m
    BY LenProperties DEF TypeInvariant
  <2>2. IsFiniteSet(1..m) /\ Cardinality(1..m) = IF 1 > m THEN 0 ELSE m - 1 + 1
    BY FS_Interval
  <2>3. Cardinality(1..m) = m
    BY <2>2
  <2> HIDE DEF S
  <2>4. IsFiniteSet(S) /\ Cardinality(S) = Len(faiss)
    BY <2>1, <2>2, <2>3, Zenon
  <2>5. QED
    BY <2>4 DEF S
<1>2. LiveRows \in SUBSET DOMAIN faiss
  BY DEF LiveRows
<1>3. IsFiniteSet(LiveRows)
  BY <1>1, <1>2, FS_Subset
<1>4. {faiss_ids[i] : i \in LiveRows} = DOMAIN live
  BY LiveRowsFact
<1>5. QED
  BY <1>1, <1>3, <1>4, EntitiesOfRows

\* What a filter leaves of the rows that count, and what it drops, are as many as
\* the entities that pass it, and that do not.
LEMMA FilteredCounts ==
  ASSUME TypeInvariant, RowsAgree, NEW filter,
         NEW P, P = {i \in LiveRows : Candidate(i, filter)}
  PROVE  /\ IsFiniteSet(P) /\ IsFiniteSet(LiveRows \ P)
         /\ Cardinality(P) = Cardinality(Passing(filter))
         /\ Cardinality(LiveRows \ P) = Cardinality(DOMAIN live \ Passing(filter))
<1>1. P \in SUBSET LiveRows /\ LiveRows \ P \in SUBSET LiveRows
  OBVIOUS
<1>2. IsFiniteSet(P) /\ IsFiniteSet(LiveRows \ P)
  BY <1>1, RowCounts, FS_Subset
<1>3. \A i \in LiveRows : faiss_ids[i] \in DOMAIN live /\ (i \in P <=> faiss_ids[i] \in Passing(filter))
  BY LiveRowsFact
<1>4. \A e \in DOMAIN live : row_of[e] \in LiveRows /\ faiss_ids[row_of[e]] = e
  BY LiveRowsFact
<1>5. Passing(filter) \subseteq DOMAIN live
  BY DEF Passing
<1>6. {faiss_ids[i] : i \in P} = Passing(filter)
  BY <1>1, <1>3, <1>4, <1>5
<1>7. {faiss_ids[i] : i \in LiveRows \ P} = DOMAIN live \ Passing(filter)
  BY <1>3, <1>4, <1>5
<1>8. QED
  BY <1>1, <1>2, <1>6, <1>7, EntitiesOfRows

\* Of the rows that are fetched, those that a filter drops are at most as many as
\* it drops at all.
LEMMA DroppedBounded ==
  ASSUME NEW L, IsFiniteSet(L), NEW P \in SUBSET L, NEW T, NEW k \in Nat,
         Lesser(k, Cardinality(T \cap L)) = Lesser(k, Cardinality(L))
  PROVE  /\ IsFiniteSet(T \cap P) /\ Cardinality(T \cap P) \in Nat
         /\ Lesser(k, Cardinality(T \cap P)) + Cardinality(L \ P) >= Lesser(k, Cardinality(P))
<1>1. /\ IsFiniteSet(T \cap L) /\ IsFiniteSet(T \cap P) /\ IsFiniteSet(P)
      /\ IsFiniteSet(L \ P) /\ IsFiniteSet((T \cap L) \ P)
  <2>1. /\ T \cap L \in SUBSET L /\ T \cap P \in SUBSET L
        /\ L \ P \in SUBSET L /\ (T \cap L) \ P \in SUBSET L
    OBVIOUS
  <2>2. QED
    BY <2>1, FS_Subset
<1>2. Cardinality(P) <= Cardinality(L)
  BY FS_Subset
<1>3. Cardinality((T \cap L) \ P) <= Cardinality(L \ P)
  <2>1. (T \cap L) \ P \in SUBSET (L \ P)
    OBVIOUS
  <2>2. QED
    BY <1>1, <2>1, FS_Subset
<1>4. Cardinality((T \cap L) \ P) = Cardinality(T \cap L) - Cardinality(T \cap P)
  <2>1. (T \cap L) \cap P = T \cap P
    OBVIOUS
  <2>2. Cardinality((T \cap L) \ P) = Cardinality(T \cap L) - Cardinality((T \cap L) \cap P)
    BY <1>1, FS_Difference
  <2>3. QED
    BY <2>1, <2>2
<1>5. /\ Cardinality(L) \in Nat /\ Cardinality(P) \in Nat /\ Cardinality(T \cap L) \in Nat
      /\ Cardinality(T \cap P) \in Nat /\ Cardinality(L \ P) \in Nat
  BY <1>1, FS_CardinalityType
<1>6. QED
  BY <1>1, <1>2, <1>3, <1>4, <1>5 DEF Lesser

\* An answer is sound: at most k of the entities that pass, each once, and none
\* that is left out is nearer; it falls short of k, or of all there are, by no
\* more than the live entities that the filter drops.
Sound(answer, k, filter) ==
  LET hits == {faiss_ids[i] : i \in answer} IN
  /\ hits \subseteq Passing(filter)
  /\ Cardinality(answer) = Cardinality(hits)
  /\ Cardinality(hits) <= k
  /\ Cardinality(hits) + Cardinality(DOMAIN live \ Passing(filter))
       >= Lesser(k, Cardinality(Passing(filter)))
  /\ \A e \in hits, d \in Passing(filter) \ hits : live[e] >= live[d]

\* A search with a filter is sound, although the fetch does not count the live
\* rows that the filter drops (_search_sync, _candidate).
FilteredSearchSound ==
  \A k \in 1..MaxRows, filter \in Filter : \A answer \in Search(k, filter) :
    Sound(answer, k, filter)

\* A search asks for k rows and as many more as are dead, so whatever the rows it
\* gets, and whichever of equal ones, what it answers is sound.
LEMMA AnswerIsSound ==
  ASSUME TypeInvariant, RowsAgree, NEW k \in Nat, NEW filter, NEW answer \in Search(k, filter)
  PROVE  Sound(answer, k, filter)
<1> DEFINE S == DOMAIN faiss
           n == Lesser(Len(faiss), k + DeadRows)
           P == {i \in LiveRows : Candidate(i, filter)}
<1>1. PICK T \in NearestRows(S, n) :
        LET hits == {i \in T : Candidate(i, filter)}
        IN  answer \in NearestRows(hits, Lesser(k, Cardinality(hits)))
  BY DEF Search
<1>2. /\ T \in SUBSET S /\ Cardinality(T) = n
      /\ \A i \in T, j \in S \ T : faiss[i] >= faiss[j]
  BY <1>1 DEF NearestRows, kSubset
<1>3. LiveRows \in SUBSET S /\ P \in SUBSET LiveRows
  BY DEF LiveRows
<1> DEFINE H == T \cap P
<1>4. /\ answer \in SUBSET H /\ Cardinality(answer) = Lesser(k, Cardinality(H))
      /\ \A i \in answer, j \in H \ answer : faiss[i] >= faiss[j]
  <2>1. H = {i \in T : Candidate(i, filter)}
    BY <1>2, LiveRowsFact
  <2>2. answer \in NearestRows(H, Lesser(k, Cardinality(H)))
    BY <1>1, <2>1
  <2>3. QED
    BY <2>2 DEF NearestRows, kSubset
<1>5. Lesser(k, Cardinality(T \cap LiveRows)) = Lesser(k, Cardinality(LiveRows))
  <2>1. Cardinality(T) = Lesser(Cardinality(S), k + (Cardinality(S) - Cardinality(LiveRows)))
    BY <1>2, RowCounts DEF DeadRows
  <2>2. IsFiniteSet(S) /\ T \in SUBSET S
    BY <1>2, RowCounts
  <2> HIDE DEF S, n
  <2>3. QED
    BY <1>3, <2>1, <2>2, EnoughFetched
<1>6. /\ IsFiniteSet(H) /\ Cardinality(H) \in Nat
      /\ Lesser(k, Cardinality(H)) + Cardinality(LiveRows \ P) >= Lesser(k, Cardinality(P))
  <2>1. IsFiniteSet(LiveRows)
    BY RowCounts
  <2> HIDE DEF P
  <2>2. QED
    BY <1>3, <1>5, <2>1, DroppedBounded
<1>7. IsFiniteSet(answer) /\ answer \in SUBSET LiveRows
  BY <1>3, <1>4, <1>6, FS_Subset
<1> DEFINE hits == {faiss_ids[i] : i \in answer}
<1>8. hits \subseteq Passing(filter)
  BY <1>4, LiveRowsFact
<1>9. Cardinality(answer) = Cardinality(hits)
  BY <1>7, EntitiesOfRows
<1>10. /\ Cardinality(hits) <= k
       /\ Cardinality(hits) + Cardinality(DOMAIN live \ Passing(filter))
            >= Lesser(k, Cardinality(Passing(filter)))
  <2>1. /\ Cardinality(P) = Cardinality(Passing(filter))
        /\ Cardinality(LiveRows \ P) = Cardinality(DOMAIN live \ Passing(filter))
    BY FilteredCounts
  <2> HIDE DEF P, H, hits
  <2>2. Cardinality(hits) = Lesser(k, Cardinality(H))
    BY <1>4, <1>9
  <2>3. Lesser(k, Cardinality(H)) <= k
    BY <1>6 DEF Lesser
  <2>4. QED
    BY <1>6, <2>1, <2>2, <2>3
<1>11. ASSUME NEW e \in hits, NEW d \in Passing(filter) \ hits
       PROVE  live[e] >= live[d]
  <2>1. PICK i \in answer : e = faiss_ids[i]
    OBVIOUS
  <2>2. live[e] = faiss[i] /\ i \in T
    BY <1>4, <1>7, <2>1, LiveRowsFact
  <2>3. /\ row_of[d] \in P /\ live[d] = faiss[row_of[d]]
        /\ row_of[d] \notin answer
    <3>1. d \in DOMAIN live
      BY DEF Passing
    <3>2. row_of[d] \in LiveRows /\ faiss_ids[row_of[d]] = d /\ live[d] = faiss[row_of[d]]
      BY <3>1, LiveRowsFact
    <3>3. QED
      BY <3>2, LiveRowsFact
  <2>4. CASE row_of[d] \in T
    BY <1>4, <2>2, <2>3, <2>4
  <2>5. CASE row_of[d] \notin T
    BY <1>2, <1>3, <2>2, <2>3, <2>5
  <2>6. QED
    BY <2>4, <2>5
<1>12. QED
  BY <1>8, <1>9, <1>10, <1>11 DEF Sound

\* Without a filter nothing is dropped, so an answer that is sound is exact.
LEMMA AnswerIsExact ==
  ASSUME TypeInvariant, RowsAgree, NEW k \in Nat, NEW answer \in Search(k, Meta)
  PROVE  Exact(answer, k, Meta)
<1> DEFINE hits == {faiss_ids[i] : i \in answer}
<1>1. Passing(Meta) = DOMAIN live /\ IsFiniteSet(DOMAIN live)
  <2>1. \A e \in DOMAIN live : meta[e] \in Meta
    BY PartialFact DEF TypeInvariant, RowsAgree
  <2>2. IsFiniteSet({faiss_ids[i] : i \in LiveRows})
    BY RowCounts, EntitiesOfRows
  <2>3. {faiss_ids[i] : i \in LiveRows} = DOMAIN live
    BY LiveRowsFact
  <2>4. QED
    BY <2>1, <2>2, <2>3 DEF Passing
<1>2. Sound(answer, k, Meta)
  BY AnswerIsSound
<1>3. Cardinality(DOMAIN live \ Passing(Meta)) = 0
  BY <1>1, FS_EmptySet
<1>4. /\ IsFiniteSet(hits) /\ Cardinality(hits) <= Cardinality(Passing(Meta))
      /\ Cardinality(hits) \in Nat /\ Cardinality(Passing(Meta)) \in Nat
  <2>1. hits \in SUBSET Passing(Meta)
    BY <1>2 DEF Sound
  <2> HIDE DEF hits
  <2>2. QED
    BY <1>1, <2>1, FS_Subset, FS_CardinalityType
<1>5. /\ Cardinality(hits) <= k
      /\ Cardinality(hits) + 0 >= Lesser(k, Cardinality(Passing(Meta)))
  BY <1>2, <1>3 DEF Sound
<1>6. Cardinality(hits) = Lesser(k, Cardinality(Passing(Meta)))
  BY <1>4, <1>5 DEF Lesser
<1>7. QED
  BY <1>2, <1>6 DEF Sound, Exact

\* After any inserts, deletes, reinsertions, rebuilds and loads, a search without
\* a filter returns the k nearest live entities, each once, or all there are.
THEOREM SearchesAreExact == Spec => []SearchExact
<1>1. IInv => SearchExact
  <2> SUFFICES ASSUME IInv, NEW k \in 1..MaxRows, NEW answer \in Search(k, Meta)
               PROVE  Exact(answer, k, Meta)
    BY DEF SearchExact
  <2>1. k \in Nat
    BY IndexAssumption
  <2>2. QED
    BY <2>1, AnswerIsExact DEF IInv
<1>2. QED
  BY <1>1, InvariantHolds, PTL

\* With a filter a search answers only with entities that pass, each once and
\* the nearest first, and what it falls short of is no more than the filter drops.
THEOREM FilteredSearchesAreSound == Spec => []FilteredSearchSound
<1>1. IInv => FilteredSearchSound
  <2> SUFFICES ASSUME IInv, NEW k \in 1..MaxRows, NEW filter \in Filter,
                      NEW answer \in Search(k, filter)
               PROVE  Sound(answer, k, filter)
    BY DEF FilteredSearchSound
  <2>1. k \in Nat
    BY IndexAssumption
  <2>2. QED
    BY <2>1, AnswerIsSound DEF IInv
<1>2. QED
  BY <1>1, InvariantHolds, PTL

-----------------------------------------------------------------------------
(***************************************************************************)
(* The index is a map.                                                     *)
(***************************************************************************)
\* What the map's variables see of an index and of what was saved last.
LEMMA ContentFact ==
  ASSUME TypeInvariant, RowsAgree
  PROVE  Content \in Partial(Entity, Item)
<1>1. /\ DOMAIN live \subseteq Entity /\ DOMAIN meta = DOMAIN live
      /\ \A e \in DOMAIN live : live[e] \in Vector /\ meta[e] \in Meta
  BY PartialFact DEF TypeInvariant, RowsAgree
<1>2. Content \in [DOMAIN live -> Item]
  BY <1>1 DEF Content, Item
<1>3. QED
  BY <1>1, <1>2, PartialIntro

\* A step that changes neither the live entities nor what is saved does not show.
LEMMA Stutter ==
  ASSUME UNCHANGED <<live, meta, saved>>
  PROVE  UNCHANGED Map!vars
BY DEF Map!vars, Content, Stored, LiveIds, RestoredLive, LastRow

\* An entity added is an entity put into the map.
LEMMA AddOneIsPut ==
  ASSUME IInv, AddOne
  PROVE  Map!Next
<1> DEFINE x == Head(pending)
           item == [vector |-> x.vector, meta |-> x.meta]
<1>1. pending \in Batch
  BY DEF AddOne, LockFree, IInv, TypeInvariant
<1>2. /\ x.entity \in Entity /\ item \in Map!Item
      /\ x.entity \notin DOMAIN live
  BY <1>1, BatchFact DEF AddOne, Refused, Embedding, Map!Item
<1>3. /\ live' = Put(live, x.entity, x.vector)
      /\ meta' = Put(meta, x.entity, x.meta)
      /\ DOMAIN meta = DOMAIN live
      /\ saved' = saved
  BY DEF AddOne, IInv, RowsAgree
<1>4. DOMAIN Content = DOMAIN live
  BY DEF Content
<1>5. DOMAIN live' = DOMAIN live \cup {x.entity}
  BY <1>3 DEF Put
<1>6. ASSUME NEW d \in DOMAIN live'
      PROVE  [vector |-> live'[d], meta |-> meta'[d]] = IF d = x.entity THEN item ELSE Content[d]
  BY <1>3, <1>5 DEF Put, Content
<1>7. Content' = [d \in DOMAIN Content \cup {x.entity} |-> IF d = x.entity THEN item ELSE Content[d]]
  BY <1>4, <1>5, <1>6 DEF Content
<1>8. Stored' = Stored
  BY <1>3 DEF Stored, LiveIds, RestoredLive, LastRow
<1>9. Map!Put(x.entity, item)
  BY <1>2, <1>4, <1>7, <1>8 DEF Map!Put
<1>10. QED
  BY <1>2, <1>9 DEF Map!Next

\* Deleted entities are removed from the map, or nothing is.
LEMMA DeleteIsRemove ==
  ASSUME IInv, NEW ids \in SUBSET Entity, NEW filter \in Filter, Delete(ids, filter)
  PROVE  Map!Next
<1> DEFINE gone == ids \cap Passing(filter)
<1>1. /\ live' = Without(live, gone) /\ meta' = Without(meta, gone) /\ saved' = saved
      /\ DOMAIN meta = DOMAIN live
  BY DEF Delete, IInv, RowsAgree
<1>2. DOMAIN Content = DOMAIN live
  BY DEF Content
<1>3. Content' = [d \in DOMAIN Content \ gone |-> Content[d]]
  BY <1>1, <1>2 DEF Content, Without
<1>4. Stored' = Stored
  BY <1>1 DEF Stored, LiveIds, RestoredLive, LastRow
<1>5. Map!Remove(gone) /\ gone \in SUBSET Entity
  BY <1>3, <1>4 DEF Map!Remove
<1>6. QED
  BY <1>5 DEF Map!Next

\* A save stores the map.
LEMMA SaveIsStore ==
  ASSUME IInv, Save
  PROVE  Map!Next
<1>1. TypeInvariant /\ RowsAgree
  BY DEF IInv
<1>2. saved' = Persisted /\ UNCHANGED <<live, meta>>
  BY DEF Save, maps
<1>3. /\ Persisted # NotSaved
      /\ LiveIds(Persisted) = DOMAIN live /\ RestoredLive(Persisted) = live
  BY <1>1, PersistedFact, IndexAssumption DEF SaveRestores
<1>4. Persisted.meta = meta
  BY DEF Persisted
<1>5. Stored' = [e \in DOMAIN live |-> [vector |-> live[e], meta |-> meta[e]]]
  <2>1. Stored' = [e \in LiveIds(saved') |-> [vector |-> RestoredLive(saved')[e], meta |-> saved'.meta[e]]]
    BY <1>2, <1>3 DEF Stored
  <2>2. QED
    BY <2>1, <1>2, <1>3, <1>4
<1>6. Content' = Content /\ Stored' = Content
  BY <1>2, <1>5 DEF Content
<1>7. Map!Store
  BY <1>6 DEF Map!Store
<1>8. QED
  BY <1>7 DEF Map!Next

\* A load restores the map that was stored.
LEMMA LoadIsRestore ==
  ASSUME IInv, Load
  PROVE  Map!Next
<1>1. TypeInvariant /\ SavedAgrees /\ saved # NotSaved
  BY DEF IInv, Load
<1>2. live' = RestoredLive(saved) /\ meta' = saved.meta /\ saved' = saved
  BY DEF Load
<1>3. DOMAIN live' = LiveIds(saved)
  BY <1>2 DEF RestoredLive
<1>4. Stored = [e \in LiveIds(saved) |-> [vector |-> RestoredLive(saved)[e], meta |-> saved.meta[e]]]
  BY <1>1 DEF Stored
<1>5. Content' = Stored
  BY <1>2, <1>3, <1>4 DEF Content
<1>6. Stored' = Stored
  BY <1>2 DEF Stored, LiveIds, RestoredLive, LastRow
<1>7. Stored # NotSaved
  <2>1. LiveIds(saved) \subseteq Entity
    BY <1>1, SavedFact, ElementOfSeq, LenProperties DEF LiveIds, Range, State
  <2>2. ASSUME NEW e \in LiveIds(saved)
        PROVE  RestoredLive(saved)[e] \in Vector /\ saved.meta[e] \in Meta
    <3>1. RestoredLive(saved)[e] \in Vector
      BY <1>1, SavedFact DEF RestoredLive
    <3>2. saved.meta \in Partial(Entity, Meta) /\ e \in DOMAIN saved.meta
      BY <1>1, SavedFact DEF State
    <3>3. QED
      BY <3>1, <3>2, PartialFact
  <2>3. Stored \in [LiveIds(saved) -> Item]
    BY <1>4, <2>2 DEF Item
  <2>4. Stored \in Partial(Entity, Item)
    BY <2>1, <2>3, PartialIntro
  <2>5. QED
    BY <2>4, IndexAssumption
<1>8. Map!Restore
  BY <1>5, <1>6, <1>7 DEF Map!Restore
<1>9. QED
  BY <1>8 DEF Map!Next

\* For every set of entities, vectors and metadata the index does what VectorMap
\* says: an insert adds entities one by one, a delete removes them, a rebuild
\* does not show, and a load gives back what the last save stored.
THEOREM MapImplemented == Spec => ImplementsMap
<1>1. Init => Map!Init
  <2>1. SUFFICES ASSUME Init PROVE Content = [e \in {} |-> NotSaved] /\ Stored = NotSaved
    BY DEF Map!Init
  <2>2. DOMAIN live = {} /\ saved = NotSaved
    BY <2>1 DEF Init, Empty
  <2>3. Content = [e \in {} |-> [vector |-> live[e], meta |-> meta[e]]]
    BY <2>2 DEF Content
  <2>4. [e \in {} |-> [vector |-> live[e], meta |-> meta[e]]] = [e \in {} |-> NotSaved]
    OBVIOUS
  <2>5. QED
    BY <2>2, <2>3, <2>4 DEF Stored
<1>2. IInv /\ [Next]_vars => [Map!Next]_Map!vars
  <2> SUFFICES ASSUME IInv, [Next]_vars PROVE Map!Next \/ UNCHANGED Map!vars
    OBVIOUS
  <2>1. ASSUME NEW batch \in Batch, Insert(batch)
        PROVE  UNCHANGED Map!vars
    BY <2>1, Stutter DEF Insert, maps
  <2>2. CASE InsertFails
    BY <2>2, Stutter DEF InsertFails, maps
  <2>3. CASE Rebuild
    BY <2>3, Stutter DEF Rebuild
  <2>4. CASE UNCHANGED vars
    BY <2>4, Stutter DEF vars, maps
  <2>5. QED
    BY <2>1, <2>2, <2>3, <2>4, AddOneIsPut, DeleteIsRemove, SaveIsStore, LoadIsRestore DEF Next
<1>3. QED
  BY <1>1, <1>2, InvariantHolds, PTL DEF Spec, ImplementsMap, Map!Spec
=============================================================================
