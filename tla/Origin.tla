------------------------------- MODULE Origin -------------------------------
(***************************************************************************)
(* The publisher: `edgeproc publish` lays a release out into an origin     *)
(* directory that a CDN serves file by file (edgeproc/bundles/publish.py   *)
(* and the producer's half of cas.py).                                     *)
(*                                                                         *)
(* The directory holds every chunk twice: in the publisher's own store,    *)
(* `chunks/<aa>/<hash>`, and flat, `chunk/<hash>`, as a hard link to the   *)
(* first where the file system links and as a copy where it does not.      *)
(* What a write leaves in memory only, a power loss can take away.         *)
(*                                                                         *)
(* A publish holds the mutation lock from its first write to its last, and *)
(* the lock dies with its process: there is one publish in progress or     *)
(* none, so its local variables are those of the module.                   *)
(***************************************************************************)
EXTENDS Naturals, FiniteSets

CONSTANTS
  Chunk,
  Release,      \* a release stands for its signed pointer and its manifest
  ChunksOf,     \* the chunks the manifest of a release refers to
  Device,       \* those who sync from the origin; they take no lock
  NoRelease, NoChunk,
  MaxPublishes, \* bound: publishes begun in one behaviour
  MaxStops,     \* bound: publishes that die or give up
  MaxOutages,   \* bound: power losses
  MaxRots       \* bound: chunks damaged on the publisher's disk

ASSUME OriginAssumption ==
  /\ ChunksOf \in [Release -> SUBSET Chunk]
  /\ NoRelease \notin Release /\ NoChunk \notin Chunk
  /\ {MaxPublishes, MaxStops, MaxOutages, MaxRots} \subseteq Nat

VARIABLES
  store,      \* store[c]: the publisher's copy of a chunk
  flat,       \* flat[c]: the served copy
  linked,     \* chunks whose two copies are one file
  unsynced,   \* flat entries that only the directory in memory has
  unflushed,  \* flat copies whose bytes were never flushed
  manifests,  \* <<place, release>> of every manifest file
  latest,     \* the release that the served pointer names
  step, release, todo, copying,  \* the publish in progress
  look,       \* look[d]: what a device has read of the origin
  troubles,   \* bounds: how often each kind of trouble happened
  rotted,     \* history: was a chunk damaged?
  cut         \* history: did a publish die between a copy and its flush?

disk == <<store, flat, linked, unsynced, unflushed, manifests, latest>>
publish == <<step, release, todo, copying>>
history == <<troubles, rotted, cut>>
originVars == <<disk, publish, look, history>>

Content == {"absent", "whole", "bad"}
Step == {"idle", "storing", "laying", "linking", "copying", "flushing", "naming"}
Look == [at : {"idle", "manifest", "chunks", "served", "failed"},
         release : Release \cup {NoRelease}, rest : SUBSET Chunk]
NoLook == [at |-> "idle", release |-> NoRelease, rest |-> {}]
Trouble == [publishes : 0..MaxPublishes, stops : 0..MaxStops,
            outages : 0..MaxOutages, rots : 0..MaxRots]

OriginInit ==
  /\ store = [c \in Chunk |-> "absent"]
  /\ flat = [c \in Chunk |-> "absent"]
  /\ linked = {} /\ unsynced = {} /\ unflushed = {} /\ manifests = {}
  /\ latest = NoRelease
  /\ step = "idle" /\ release = NoRelease /\ todo = {} /\ copying = NoChunk
  /\ look = [d \in Device |-> NoLook]
  /\ troubles = [publishes |-> 0, stops |-> 0, outages |-> 0, rots |-> 0]
  /\ rotted = FALSE /\ cut = FALSE

-----------------------------------------------------------------------------
(***************************************************************************)
(* One publish.  Nothing compares a release with the one `latest` names:   *)
(* the devices do.                                                         *)
(***************************************************************************)
Begin(r) ==
  /\ step = "idle"
  /\ troubles.publishes < MaxPublishes
  /\ troubles' = [troubles EXCEPT !.publishes = @ + 1]
  /\ step' = "storing" /\ release' = r /\ todo' = ChunksOf[r]
  /\ UNCHANGED <<disk, copying, look, rotted, cut>>

\* Mutant: a chunk that is there is taken for good.
StoreTrusting(c) ==
  /\ step = "storing" /\ c \in todo
  /\ store' = [store EXCEPT ![c] = IF @ = "absent" THEN "whole" ELSE @]
  /\ todo' = todo \ {c}
  /\ UNCHANGED <<flat, linked, unsynced, unflushed, manifests, latest, step, release,
                 copying, look, history>>

\* put_chunk keeps a file that reads back as the chunk and replaces any other:
\* a replaced file is a new one, which the flat copy is no link to.
StoreChunk(c) ==
  /\ step = "storing" /\ c \in todo
  /\ store' = [store EXCEPT ![c] = "whole"]
  /\ linked' = IF store[c] = "whole" THEN linked ELSE linked \ {c}
  /\ todo' = todo \ {c}
  /\ UNCHANGED <<flat, unsynced, unflushed, manifests, latest, step, release, copying,
                 look, history>>

\* The publisher's own manifest, once every chunk is stored.
PutManifest ==
  /\ step = "storing" /\ todo = {}
  /\ manifests' = manifests \cup {<<"store", release>>}
  /\ step' = "laying"
  /\ UNCHANGED <<store, flat, linked, unsynced, unflushed, latest, release, todo, copying,
                 look, history>>

\* Mutant: `latest` moves with the manifest, ahead of the chunks.
NameAhead ==
  /\ step = "laying"
  /\ manifests' = manifests \cup {<<"flat", release>>}
  /\ latest' = release
  /\ step' = "linking" /\ todo' = ChunksOf[release]
  /\ UNCHANGED <<store, flat, linked, unsynced, unflushed, release, copying, look, history>>

\* The served manifest; then the flat chunks, in no particular order.
LayManifest ==
  /\ step = "laying"
  /\ manifests' = manifests \cup {<<"flat", release>>}
  /\ step' = "linking" /\ todo' = ChunksOf[release]
  /\ UNCHANGED <<store, flat, linked, unsynced, unflushed, latest, release, copying, look,
                 history>>

LinkChunk(c) ==
  /\ step = "linking" /\ c \in todo
  /\ flat[c] = "absent"
  /\ flat' = [flat EXCEPT ![c] = store[c]]
  /\ linked' = linked \cup {c}
  /\ unsynced' = unsynced \cup {c}
  /\ todo' = todo \ {c}
  /\ UNCHANGED <<store, unflushed, manifests, latest, step, release, copying, look, history>>

\* Where the file system refuses the link: the copy grows in place, under its
\* final name.
StartCopy(c) ==
  /\ step = "linking" /\ c \in todo
  /\ flat[c] = "absent"
  /\ flat' = [flat EXCEPT ![c] = "bad"]
  /\ unsynced' = unsynced \cup {c}
  /\ step' = "copying" /\ copying' = c
  /\ UNCHANGED <<store, linked, unflushed, manifests, latest, release, todo, look, history>>

FinishCopy ==
  /\ step = "copying"
  /\ flat' = [flat EXCEPT ![copying] = store[copying]]
  /\ unflushed' = unflushed \cup {copying}
  /\ step' = "flushing"
  /\ UNCHANGED <<store, linked, unsynced, manifests, latest, release, todo, copying, look,
                 history>>

FlushCopy ==
  /\ step = "flushing"
  /\ unflushed' = unflushed \ {copying}
  /\ todo' = todo \ {copying}
  /\ step' = "linking" /\ copying' = NoChunk
  /\ UNCHANGED <<store, flat, linked, unsynced, manifests, latest, release, look, history>>

\* Mutant: a published chunk is never looked at again.
KeepPublished(c) ==
  /\ step = "linking" /\ c \in todo
  /\ flat[c] # "absent"
  /\ todo' = todo \ {c}
  /\ UNCHANGED <<disk, step, release, copying, look, history>>

\* A chunk that is there is compared with the store's, and replaced (durably,
\* by write_atomic) when it differs.
CompareChunk(c) ==
  /\ step = "linking" /\ c \in todo
  /\ flat[c] # "absent"
  /\ flat' = [flat EXCEPT ![c] = store[c]]
  /\ IF flat[c] = store[c]
     THEN UNCHANGED <<linked, unsynced, unflushed>>
     ELSE /\ linked' = linked \ {c}
          /\ unsynced' = {}
          /\ unflushed' = unflushed \ {c}
  /\ todo' = todo \ {c}
  /\ UNCHANGED <<store, manifests, latest, step, release, copying, look, history>>

\* Mutant: the directory of the flat chunks is not flushed.
SkipDirectory ==
  /\ step = "linking" /\ todo = {}
  /\ step' = "naming"
  /\ UNCHANGED <<disk, release, todo, copying, look, history>>

SyncDirectory ==
  /\ step = "linking" /\ todo = {}
  /\ unsynced' = {}
  /\ step' = "naming"
  /\ UNCHANGED <<store, flat, linked, unflushed, manifests, latest, release, todo, copying,
                 look, history>>

\* A power loss between the rename and the flush of its directory is one
\* before the rename.
MoveLatest ==
  /\ step = "naming"
  /\ latest' = release
  /\ step' = "idle" /\ release' = NoRelease
  /\ UNCHANGED <<store, flat, linked, unsynced, unflushed, manifests, todo, copying, look,
                 history>>

-----------------------------------------------------------------------------
(***************************************************************************)
(* Trouble: an error or a kill ends the publish and leaves its files; a    *)
(* power loss also takes entries and bytes that were never flushed; a disk *)
(* damages a chunk, in both places when they are one file.                 *)
(***************************************************************************)
Abandon == step' = "idle" /\ release' = NoRelease /\ todo' = {} /\ copying' = NoChunk

Stop ==
  /\ step # "idle"
  /\ troubles.stops < MaxStops
  /\ troubles' = [troubles EXCEPT !.stops = @ + 1]
  /\ cut' = (cut \/ step = "flushing")
  /\ Abandon
  /\ UNCHANGED <<disk, look, rotted>>

PowerLoss ==
  /\ troubles.outages < MaxOutages
  /\ troubles' = [troubles EXCEPT !.outages = @ + 1]
  /\ \E lost \in SUBSET unsynced, zeroed \in SUBSET unflushed :
       /\ flat' = [c \in Chunk |-> IF c \in lost THEN "absent"
                                   ELSE IF c \in zeroed THEN "bad" ELSE flat[c]]
       /\ linked' = linked \ lost
  /\ unsynced' = {} /\ unflushed' = {}
  /\ Abandon
  /\ UNCHANGED <<store, manifests, latest, look, rotted, cut>>

\* Bound: between two publishes.
Rot(c) ==
  /\ step = "idle"
  /\ troubles.rots < MaxRots
  /\ troubles' = [troubles EXCEPT !.rots = @ + 1]
  /\ rotted' = TRUE
  /\ \E place \in {"store", "flat"} :
       LET both == c \in linked IN
       /\ (IF place = "store" THEN store[c] ELSE flat[c]) = "whole"
       /\ store' = IF both \/ place = "store" THEN [store EXCEPT ![c] = "bad"] ELSE store
       /\ flat' = IF both \/ place = "flat" THEN [flat EXCEPT ![c] = "bad"] ELSE flat
  /\ UNCHANGED <<linked, unsynced, unflushed, manifests, latest, publish, look, cut>>

-----------------------------------------------------------------------------
(***************************************************************************)
(* A device with an empty cache that follows the pointer it read, however  *)
(* far the publisher has gone since.                                       *)
(***************************************************************************)
ReadLatest(d) ==
  /\ look[d].at = "idle" /\ latest # NoRelease
  /\ look' = [look EXCEPT ![d] = [at |-> "manifest", release |-> latest, rest |-> {}]]
  /\ UNCHANGED <<disk, publish, history>>

ReadManifest(d) ==
  /\ look[d].at = "manifest"
  /\ look' = [look EXCEPT ![d] =
       IF <<"flat", @.release>> \in manifests
       THEN [@ EXCEPT !.at = "chunks", !.rest = ChunksOf[look[d].release]]
       ELSE [@ EXCEPT !.at = "failed"]]
  /\ UNCHANGED <<disk, publish, history>>

ReadChunk(d, c) ==
  /\ look[d].at = "chunks" /\ c \in look[d].rest
  /\ look' = [look EXCEPT ![d] =
       IF flat[c] = "whole" THEN [@ EXCEPT !.rest = look[d].rest \ {c}]
       ELSE [@ EXCEPT !.at = "failed"]]
  /\ UNCHANGED <<disk, publish, history>>

\* The sync is over; the device comes back for the next release.
EndRead(d) ==
  /\ \/ look[d].at = "chunks" /\ look[d].rest = {}
     \/ look[d].at = "failed"
  /\ look' = [look EXCEPT ![d] = NoLook]
  /\ UNCHANGED <<disk, publish, history>>

PublishStep ==
  \/ \E r \in Release : Begin(r)
  \/ \E c \in Chunk : StoreChunk(c) \/ LinkChunk(c) \/ StartCopy(c) \/ CompareChunk(c)
  \/ PutManifest \/ LayManifest \/ FinishCopy \/ FlushCopy \/ SyncDirectory \/ MoveLatest

TroubleStep == Stop \/ PowerLoss \/ \E c \in Chunk : Rot(c)

DeviceStep(d) ==
  \/ ReadLatest(d) \/ ReadManifest(d) \/ EndRead(d)
  \/ \E c \in Chunk : ReadChunk(d, c)

OriginNext == PublishStep \/ TroubleStep \/ \E d \in Device : DeviceStep(d)

OriginSpec == OriginInit /\ [][OriginNext]_originVars

-----------------------------------------------------------------------------
OriginTypeOK ==
  /\ store \in [Chunk -> Content] /\ flat \in [Chunk -> Content]
  /\ linked \subseteq Chunk /\ unsynced \subseteq Chunk /\ unflushed \subseteq Chunk
  /\ manifests \subseteq {"store", "flat"} \X Release
  /\ latest \in Release \cup {NoRelease}
  /\ step \in Step /\ release \in Release \cup {NoRelease}
  /\ todo \subseteq Chunk /\ copying \in Chunk \cup {NoChunk}
  /\ look \in [Device -> Look]
  /\ troubles \in Trouble
  /\ rotted \in BOOLEAN /\ cut \in BOOLEAN

\* In place for good: the manifest and every chunk are served, and no power
\* loss can take a chunk away again.
Durable(c) == flat[c] = "whole" /\ c \notin unsynced \cup unflushed
Complete(r) == <<"flat", r>> \in manifests /\ \A c \in ChunksOf[r] : Durable(c)

\* `latest` never outlives the objects it refers to (CHANGELOG.md:189),
\* whatever died or lost its power at any point of any publish: but for a
\* damaged disk, and for a publish that died between a copy and its flush,
\* whose file the next publish finds equal and does not flush either.
LatestComplete == latest # NoRelease /\ ~rotted /\ ~cut => Complete(latest)

\* A device that follows the pointer it read finds the manifest and every
\* chunk, although it takes no lock and newer publishes overtake it.
DevicesServed == \A d \in Device : look[d].at = "failed" => rotted \/ cut

\* A publish heals: whatever an earlier publish left half done and whatever
\* the disk damaged, every chunk is whole, in the store and as served, when
\* `latest` is about to move to the release (CHANGELOG.md:203).
PublishHeals ==
  step = "naming" => \A c \in ChunksOf[release] : store[c] = "whole" /\ flat[c] = "whole"
=============================================================================
