----------------------------- MODULE MCDelivery -----------------------------
(***************************************************************************)
(* Instances for TLC of what brings a release from the publisher to the    *)
(* files of a device, the cache and its sync (CacheSync) aside: how a file *)
(* is cut into chunks, the origin directory, the trust root, and the       *)
(* materialized files.  They share no state: a behaviour is one of one     *)
(* part, and the others stay as they begin.                                *)
(***************************************************************************)
EXTENDS Origin, Materialize, Keyring, Chunking, TLC

CONSTANTS k1, k2, k3, r1, r2, d1, a, b, f1, f2, f3, old, new, newer, o1, o2, c1, c2

MCChunk == {k1, k2, k3}
MCRelease == {r1, r2}
\* The releases share a chunk.
MCChunksOf == (r1 :> {k1, k2}) @@ (r2 :> {k2, k3})

MCPath == {f1, f2, f3}
\* A file comes and goes; f3 needs a directory where the first has f1.
MCFilesOf == <<{f1, f2}, {f2, f3}, {f1, f2}>>
MCClash == {<<f1, f3>>}

\* Bytes whose hashes are refused, taken by one mask only, and by both.
MCGear == (0 :> 5) @@ (1 :> 11)

VARIABLE part

DeliveryInit ==
  /\ part \in {"origin", "materialize", "keyring", "chunking"}
  /\ OriginInit /\ MaterializeInit /\ KeyringInit
  /\ IF part = "chunking" THEN ChunkingInit
     ELSE /\ text = [v \in Version |-> <<>>]
          /\ offset = [v \in Version |-> 0] /\ chunks = [v \in Version |-> {}]

DeliveryNext ==
  /\ UNCHANGED part
  /\ \/ /\ part = "origin" /\ OriginNext
        /\ UNCHANGED <<materializeVars, keyringVars, chunkingVars>>
     \/ /\ part = "materialize" /\ MaterializeNext
        /\ UNCHANGED <<originVars, keyringVars, chunkingVars>>
     \/ /\ part = "keyring" /\ KeyringNext
        /\ UNCHANGED <<originVars, materializeVars, chunkingVars>>
     \/ /\ part = "chunking" /\ ChunkingNext
        /\ UNCHANGED <<originVars, materializeVars, keyringVars>>

deliveryVars == <<originVars, materializeVars, keyringVars, chunkingVars, part>>

DeliverySpec == DeliveryInit /\ [][DeliveryNext]_deliveryVars

\* The type invariants of the four parts; a keyring among them that trusts no
\* key would not load.
DeliveryTypeOK == OriginTypeOK /\ MaterializeTypeOK /\ KeyringTypeOK /\ ChunkingTypeOK

MCSymmetry == Permutations({a, b}) \cup Permutations({o1, o2}) \cup Permutations({c1, c2})
=============================================================================
