---------------------------- MODULE VectorIndex ----------------------------
(***************************************************************************)
(* One in-memory vector index (edgeproc/localvec/faiss_index.py): a FAISS  *)
(* index whose rows are only ever appended, the entity of each row, and    *)
(* the maps that say which rows still count.  A deleted entity leaves its  *)
(* row behind until a rebuild; inserted again, it gets another row.        *)
(*                                                                         *)
(* Every operation runs under the index's lock; an insert adds the         *)
(* entities of its batch one after the other and stops at the first that   *)
(* it refuses.  A vector is its similarity to the query of a search, a     *)
(* filter the set of metadata that pass it.  Rows count from 1.            *)
(***************************************************************************)
EXTENDS Integers, Sequences, FiniteSetsExt, Functions

CONSTANTS
  Entity,
  Vector,    \* similarities to the query
  Meta,      \* what an entity's metadata can be
  MaxRows,   \* bound: rows of the index
  MaxBatch,  \* bound: entities of one insert
  MaxSaved,  \* bound: rows of an index that is saved
  WrongSize, \* an embedding of another dimension than the index's
  NotSaved

Partial(S, T) == UNION {[D -> T] : D \in SUBSET S}
Item == [vector : Vector, meta : Meta]
State == [faiss : Seq(Vector), faiss_ids : Seq(Entity), tombstoned : SUBSET Entity, meta : Partial(Entity, Meta)]

ASSUME IndexAssumption ==
  /\ Vector \subseteq Int
  /\ WrongSize \notin Vector
  /\ NotSaved \notin State /\ NotSaved \notin Partial(Entity, Item)
  /\ MaxRows \in Nat /\ MaxBatch \in Nat /\ MaxSaved \in Nat

VARIABLES
  faiss, faiss_ids,  \* the vector of each row, and its entity
  live, row_of,      \* the vector of each live entity, and its row
  meta,
  tombstoned,
  pending,           \* what the insert inside the lock has yet to add
  saved              \* what was saved last

rows == <<faiss, faiss_ids>>
maps == <<live, row_of, meta, tombstoned>>
vars == <<rows, maps, pending, saved>>

Embedding == [entity : Entity, vector : Vector \cup {WrongSize}, meta : Meta]
Batch == UNION {[1..n -> Embedding] : n \in 1..MaxBatch}
Filter == SUBSET Meta

Empty == [e \in {} |-> 0]
Put(f, e, x) == [d \in DOMAIN f \cup {e} |-> IF d = e THEN x ELSE f[d]]
Without(f, S) == [d \in DOMAIN f \ S |-> f[d]]

Init ==
  /\ faiss = <<>> /\ faiss_ids = <<>>
  /\ live = Empty /\ row_of = Empty /\ meta = Empty
  /\ tombstoned = {}
  /\ pending = <<>>
  /\ saved = NotSaved

-----------------------------------------------------------------------------
(***************************************************************************)
(* Insert and delete.                                                      *)
(***************************************************************************)
LockFree == pending = <<>>

Insert(batch) ==
  /\ LockFree
  /\ Len(faiss) + Len(batch) <= MaxRows
  /\ pending' = batch
  /\ UNCHANGED <<rows, maps, saved>>

\* _validate_new
Refused(x) == x.entity \in DOMAIN live \/ x.vector = WrongSize

\* Mutant: an entity that was deleted keeps its tombstone.
AddOneEntombed ==
  /\ ~LockFree
  /\ LET x == Head(pending) IN
     /\ ~Refused(x)
     /\ faiss' = Append(faiss, x.vector)
     /\ faiss_ids' = Append(faiss_ids, x.entity)
     /\ row_of' = Put(row_of, x.entity, Len(faiss_ids'))
     /\ live' = Put(live, x.entity, x.vector)
     /\ meta' = Put(meta, x.entity, x.meta)
  /\ pending' = Tail(pending)
  /\ UNCHANGED <<tombstoned, saved>>

AddOne ==
  /\ ~LockFree
  /\ LET x == Head(pending) IN
     /\ ~Refused(x)
     /\ faiss' = Append(faiss, x.vector)
     /\ faiss_ids' = Append(faiss_ids, x.entity)
     /\ row_of' = Put(row_of, x.entity, Len(faiss_ids'))
     /\ live' = Put(live, x.entity, x.vector)
     /\ meta' = Put(meta, x.entity, x.meta)
     /\ tombstoned' = tombstoned \ {x.entity}
  /\ pending' = Tail(pending)
  /\ UNCHANGED saved

\* The entities added before the refused one stay.
InsertFails ==
  /\ ~LockFree
  /\ Refused(Head(pending))
  /\ pending' = <<>>
  /\ UNCHANGED <<rows, maps, saved>>

Passing(filter) == {e \in DOMAIN live : meta[e] \in filter}

Delete(ids, filter) ==
  LET gone == ids \cap Passing(filter) IN
  /\ LockFree
  /\ live' = Without(live, gone)
  /\ meta' = Without(meta, gone)
  /\ row_of' = Without(row_of, gone)
  /\ tombstoned' = tombstoned \cup gone
  /\ UNCHANGED <<rows, pending, saved>>

-----------------------------------------------------------------------------
(***************************************************************************)
(* Rebuild, save and load.                                                 *)
(***************************************************************************)
\* Mutant: the rows are renumbered but not the map to them.
RebuildRowsOnly ==
  /\ LockFree
  /\ \E survivors \in Bijection(1..Cardinality(DOMAIN live), DOMAIN live) :
       /\ faiss_ids' = survivors
       /\ faiss' = [i \in DOMAIN survivors |-> live[survivors[i]]]
  /\ tombstoned' = {}
  /\ UNCHANGED <<live, row_of, meta, pending, saved>>

\* The order of the survivors, that of a dict, only decides between equals.
Rebuild ==
  /\ LockFree
  /\ \E survivors \in Bijection(1..Cardinality(DOMAIN live), DOMAIN live) :
       /\ faiss_ids' = survivors
       /\ faiss' = [i \in DOMAIN survivors |-> live[survivors[i]]]
       /\ row_of' = Inverse(survivors, DOMAIN survivors, DOMAIN live)
  /\ tombstoned' = {}
  /\ UNCHANGED <<live, meta, pending, saved>>

Persisted == [faiss |-> faiss, faiss_ids |-> faiss_ids, tombstoned |-> tombstoned, meta |-> meta]

Save ==
  /\ LockFree
  /\ Len(faiss) <= MaxSaved
  /\ saved' = Persisted
  /\ UNCHANGED <<rows, maps, pending>>

LiveIds(state) == Range(state.faiss_ids) \ state.tombstoned

\* _validate_persisted_index
Acceptable(state) ==
  /\ Len(state.faiss) = Len(state.faiss_ids)
  /\ DOMAIN state.meta = LiveIds(state)

\* Mutant: the first row of an entity wins.
FirstRow(state, e) == CHOOSE i \in DOMAIN state.faiss_ids :
  state.faiss_ids[i] = e /\ \A j \in DOMAIN state.faiss_ids : state.faiss_ids[j] = e => i <= j

\* _reconstruct_live_rows
LastRow(state, e) == CHOOSE i \in DOMAIN state.faiss_ids :
  state.faiss_ids[i] = e /\ \A j \in DOMAIN state.faiss_ids : state.faiss_ids[j] = e => j <= i

RestoredRows(state) == [e \in LiveIds(state) |-> LastRow(state, e)]
RestoredLive(state) == [e \in LiveIds(state) |-> state.faiss[LastRow(state, e)]]

\* The host goes on with a new instance in place of this one.
Load ==
  /\ LockFree
  /\ saved # NotSaved
  /\ Acceptable(saved)
  /\ faiss' = saved.faiss /\ faiss_ids' = saved.faiss_ids
  /\ tombstoned' = saved.tombstoned /\ meta' = saved.meta
  /\ live' = RestoredLive(saved) /\ row_of' = RestoredRows(saved)
  /\ UNCHANGED <<pending, saved>>

Next ==
  \/ \E batch \in Batch : Insert(batch)
  \/ AddOne
  \/ InsertFails
  \/ \E ids \in SUBSET Entity, filter \in Filter : Delete(ids, filter)
  \/ Rebuild
  \/ Save
  \/ Load

Spec == Init /\ [][Next]_vars

-----------------------------------------------------------------------------
(***************************************************************************)
(* Search.                                                                 *)
(***************************************************************************)
Lesser(m, n) == IF m <= n THEN m ELSE n

\* The sets of n of these rows that no other of them is nearer than.
NearestRows(S, n) ==
  {T \in kSubset(n, S) : \A i \in T, j \in S \ T : faiss[i] >= faiss[j]}

\* Mutant: the rows of deleted entities, without the superseded ones.
DeadRowsDeleted == Cardinality(tombstoned)

DeadRows == Len(faiss) - Cardinality(DOMAIN live)

\* _candidate: the entity's current row, if its metadata pass.
Candidate(i, filter) ==
  LET e == faiss_ids[i] IN
  e \in DOMAIN row_of /\ row_of[e] = i /\ meta[e] \in filter

\* The sets of rows that a search may return; ties leave it a choice.
Search(k, filter) ==
  UNION {LET hits == {i \in fetched : Candidate(i, filter)}
         IN  NearestRows(hits, Lesser(k, Cardinality(hits)))
         : fetched \in NearestRows(DOMAIN faiss, Lesser(Len(faiss), k + DeadRows))}

-----------------------------------------------------------------------------
(***************************************************************************)
(* Properties.                                                             *)
(***************************************************************************)
\* Every variable keeps to its range; a map points to a row that is there.
TypeInvariant ==
  /\ faiss \in Seq(Vector) /\ faiss_ids \in Seq(Entity)
  /\ Len(faiss) + Len(pending) <= MaxRows
  /\ live \in Partial(Entity, Vector)
  /\ row_of \in Partial(Entity, 1..Len(faiss))
  /\ meta \in Partial(Entity, Meta)
  /\ tombstoned \subseteq Entity
  /\ pending \in Batch \cup {<<>>}
  /\ saved \in State \cup {NotSaved}

\* The three maps and the rows say the same: a live entity's row is its last
\* one and holds its vector, and every other row belongs to no live entity or
\* was superseded (_row_of, _live, _meta, _tombstoned against _faiss_ids).
RowsAgree ==
  /\ Len(faiss) = Len(faiss_ids)
  /\ DOMAIN row_of = DOMAIN live /\ DOMAIN meta = DOMAIN live
  /\ \A e \in DOMAIN live :
       /\ row_of[e] \in DOMAIN faiss_ids
       /\ faiss_ids[row_of[e]] = e
       /\ faiss[row_of[e]] = live[e]
       /\ \A j \in DOMAIN faiss_ids : faiss_ids[j] = e => j <= row_of[e]
  /\ Range(faiss_ids) = DOMAIN live \cup tombstoned
  /\ DOMAIN live \cap tombstoned = {}

\* What a save would write now is accepted by a load, which restores every live
\* entity with its own row and vector (_restore, _validate_persisted_index).
SaveRestores ==
  /\ Acceptable(Persisted)
  /\ RestoredLive(Persisted) = live
  /\ RestoredRows(Persisted) = row_of

\* An answer is exact: k of the entities that pass, or all there are, each once,
\* and none that is left out is nearer.
Exact(answer, k, filter) ==
  LET hits == {faiss_ids[i] : i \in answer} IN
  /\ hits \subseteq Passing(filter)
  /\ Cardinality(answer) = Cardinality(hits)
  /\ Cardinality(hits) = Lesser(k, Cardinality(Passing(filter)))
  /\ \A e \in hits, d \in Passing(filter) \ hits : live[e] >= live[d]

\* A search without a filter is exact, however many rows deletions and
\* reinsertions have left dead (_search_sync, _collect).
SearchExact == \A k \in 1..MaxRows : \A answer \in Search(k, Meta) : Exact(answer, k, Meta)

\* A search with a filter, too, surfaces k live hits after filtering, or all
\* there are: the fetch is past every row that is filtered out (_search_sync).
FilteredSearchFull ==
  \A k \in 1..MaxRows, filter \in Filter : \A answer \in Search(k, filter) :
    Cardinality(answer) = Lesser(k, Cardinality(Passing(filter)))

Content == [e \in DOMAIN live |-> [vector |-> live[e], meta |-> meta[e]]]
Stored ==
  IF saved = NotSaved THEN NotSaved
  ELSE [e \in LiveIds(saved) |-> [vector |-> RestoredLive(saved)[e], meta |-> saved.meta[e]]]

Map == INSTANCE VectorMap WITH content <- Content, stored <- Stored, Nothing <- NotSaved

\* The index is a map (VectorMap): rebuilds do not show, and a load gives back
\* what was saved.
ImplementsMap == Map!Spec
=============================================================================
