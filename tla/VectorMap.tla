----------------------------- MODULE VectorMap -----------------------------
(***************************************************************************)
(* What a vector index promises, with no rows, no tombstones and no        *)
(* rebuild: a finite map from entities to their vector and metadata, into  *)
(* which a new entity is put, from which entities are removed, and which   *)
(* is stored and restored as it was.  VectorIndex implements it.           *)
(***************************************************************************)
CONSTANTS
  Entity, Vector, Meta,
  Nothing               \* no stored map

VARIABLES content, stored

vars == <<content, stored>>

Item == [vector : Vector, meta : Meta]

Init ==
  /\ content = [e \in {} |-> Nothing]
  /\ stored = Nothing

Put(e, x) ==
  /\ e \notin DOMAIN content
  /\ content' = [d \in DOMAIN content \cup {e} |-> IF d = e THEN x ELSE content[d]]
  /\ UNCHANGED stored

Remove(S) ==
  /\ content' = [d \in DOMAIN content \ S |-> content[d]]
  /\ UNCHANGED stored

Store ==
  /\ stored' = content
  /\ UNCHANGED content

Restore ==
  /\ stored # Nothing
  /\ content' = stored
  /\ UNCHANGED stored

Next ==
  \/ \E e \in Entity, x \in Item : Put(e, x)
  \/ \E S \in SUBSET Entity : Remove(S)
  \/ Store
  \/ Restore

Spec == Init /\ [][Next]_vars
=============================================================================
