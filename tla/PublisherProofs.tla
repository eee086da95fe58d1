-------------------------- MODULE PublisherProofs --------------------------
(***************************************************************************)
(* Proofs about the publisher.  Its directory (Origin): for any chunks,    *)
(* releases and devices, and however many publishes die or lose their      *)
(* power.  How it cuts files (Chunking): for any bytes, gear table, masks, *)
(* sizes and versions.                                                     *)
(***************************************************************************)
EXTENDS Origin, Chunking, SequenceTheorems, WellFoundedInduction, TLAPS

-----------------------------------------------------------------------------
(***************************************************************************)
(* The origin directory.                                                   *)
(***************************************************************************)

\* What the publish in progress has done so far.
Stored ==
  /\ step # "idle" => release \in Release /\ todo \subseteq ChunksOf[release]
  /\ step = "storing" => \A c \in ChunksOf[release] \ todo : store[c] = "whole"
  /\ step \in {"laying", "linking", "copying", "flushing", "naming"} =>
       \A c \in ChunksOf[release] : store[c] = "whole"

Laid ==
  /\ step \in {"linking", "copying", "flushing", "naming"} =>
       /\ <<"flat", release>> \in manifests
       /\ \A c \in ChunksOf[release] \ todo : flat[c] = "whole"
  /\ step \in {"copying", "flushing"} => copying \in todo
  /\ step = "copying" => flat[copying] = "bad"
  /\ step = "flushing" => flat[copying] = "whole"
  /\ step = "naming" => todo = {} /\ unsynced = {}

\* Only the copy that is about to be flushed is not, unless a publish died
\* there.
Flushed == ~cut => unflushed \subseteq (IF step = "flushing" THEN {copying} ELSE {})

\* The releases that anybody may still ask for.
Wanted == {latest} \cup {look[d].release : d \in {e \in Device : look[e].at \in {"manifest", "chunks"}}}

WantedComplete == ~rotted /\ ~cut => \A r \in Wanted \cap Release : Complete(r)

Looks ==
  \A d \in Device :
    /\ look[d].at \in {"manifest", "chunks"} => look[d].release \in Release
    /\ look[d].at = "chunks" => look[d].rest \subseteq ChunksOf[look[d].release]
    /\ look[d].at = "failed" => rotted \/ cut

OriginInv == OriginTypeOK /\ Stored /\ Laid /\ Flushed /\ WantedComplete /\ Looks

-----------------------------------------------------------------------------
\* The bounds are numbers.
LEMMA BoundsAreNat ==
  MaxPublishes \in Nat /\ MaxStops \in Nat /\ MaxOutages \in Nat /\ MaxRots \in Nat
  BY OriginAssumption

\* The initial states satisfy the invariant.
LEMMA OriginInitInv == OriginInit => OriginInv
  <1> SUFFICES ASSUME OriginInit PROVE OriginInv
    OBVIOUS
  <1>1. OriginTypeOK
    <2>1. troubles \in Trouble
      BY BoundsAreNat DEF OriginInit, Trouble
    <2>2. look \in [Device -> Look]
      BY DEF OriginInit, Look, NoLook
    <2> QED
      BY <2>1, <2>2 DEF OriginInit, OriginTypeOK, Content, Step
  <1>2. Stored /\ Laid /\ Flushed /\ Looks
    BY DEF OriginInit, Stored, Laid, Flushed, Looks, NoLook
  <1>3. Wanted \cap Release = {}
    BY OriginAssumption DEF OriginInit, Wanted, NoLook
  <1> QED
    BY <1>1, <1>2, <1>3 DEF OriginInv, WantedComplete

\* Every step keeps the types.
LEMMA OriginTypes == OriginInv /\ [OriginNext]_originVars => OriginTypeOK'
  <1> SUFFICES ASSUME OriginInv, [OriginNext]_originVars PROVE OriginTypeOK'
    OBVIOUS
  <1>a. OriginTypeOK /\ Stored /\ Laid
    BY DEF OriginInv
  <1>b. /\ step # "idle" => release \in Release
        /\ step \in {"copying", "flushing"} => copying \in Chunk
    BY <1>a DEF Stored, Laid, OriginTypeOK
  <1> USE <1>a
  <1> USE OriginAssumption, BoundsAreNat DEF OriginTypeOK, Content, Step, Trouble
  <1>1. ASSUME NEW r \in Release, Begin(r) PROVE OriginTypeOK'
    BY <1>1 DEF Begin, disk
  <1>2. ASSUME NEW c \in Chunk, StoreChunk(c) PROVE OriginTypeOK'
    BY <1>2 DEF StoreChunk, history
  <1>3. ASSUME NEW c \in Chunk, LinkChunk(c) PROVE OriginTypeOK'
    BY <1>3 DEF LinkChunk, history
  <1>4. ASSUME NEW c \in Chunk, StartCopy(c) PROVE OriginTypeOK'
    BY <1>4 DEF StartCopy, history
  <1>5. ASSUME NEW c \in Chunk, CompareChunk(c) PROVE OriginTypeOK'
    BY <1>5 DEF CompareChunk, history
  <1>6. CASE PutManifest
    BY <1>6, <1>b DEF PutManifest, history
  <1>7. CASE LayManifest
    BY <1>7, <1>b, OriginAssumption DEF LayManifest, history
  <1>8. CASE FinishCopy
    BY <1>8, <1>b DEF FinishCopy, history
  <1>9. CASE FlushCopy
    BY <1>9 DEF FlushCopy, history
  <1>10. CASE SyncDirectory
    BY <1>10 DEF SyncDirectory, history
  <1>11. CASE MoveLatest
    BY <1>11 DEF MoveLatest, history
  <1>12. CASE Stop
    <2>1. troubles' \in Trouble
      BY <1>12 DEF Stop
    <2> QED
      BY <1>12, <2>1 DEF Stop, Abandon, disk
  <1>13. CASE PowerLoss
    <2>1. PICK lost \in SUBSET unsynced, zeroed \in SUBSET unflushed :
            /\ flat' = [c \in Chunk |-> IF c \in lost THEN "absent"
                                        ELSE IF c \in zeroed THEN "bad" ELSE flat[c]]
            /\ linked' = linked \ lost
      BY <1>13 DEF PowerLoss
    <2>2. flat' \in [Chunk -> Content] /\ linked' \subseteq Chunk
      BY <2>1
    <2>3. troubles' \in Trouble
      BY <1>13 DEF PowerLoss
    <2> QED
      BY <1>13, <2>2, <2>3 DEF PowerLoss, Abandon
  <1>14. ASSUME NEW c \in Chunk, Rot(c) PROVE OriginTypeOK'
    <2>1. troubles' \in Trouble
      BY <1>14 DEF Rot
    <2>2. store' \in [Chunk -> Content] /\ flat' \in [Chunk -> Content]
      BY <1>14 DEF Rot
    <2> QED
      BY <1>14, <2>1, <2>2 DEF Rot, publish
  <1>15. ASSUME NEW d \in Device, DeviceStep(d) PROVE OriginTypeOK'
    <2>1. look[d] \in Look /\ latest \in Release \cup {NoRelease}
      OBVIOUS
    <2>2. \E new \in Look : look' = [look EXCEPT ![d] = new]
      <3>1. CASE ReadLatest(d)
        BY <2>1, <3>1 DEF ReadLatest, Look
      <3>2. CASE ReadManifest(d)
        <4> DEFINE to == IF <<"flat", look[d].release>> \in manifests
                         THEN [look[d] EXCEPT !.at = "chunks", !.rest = ChunksOf[look[d].release]]
                         ELSE [look[d] EXCEPT !.at = "failed"]
        <4>1. look' = [look EXCEPT ![d] = to]
          BY <3>2 DEF ReadManifest
        <4>2. <<"flat", look[d].release>> \in manifests => look[d].release \in Release
          BY <2>1
        <4>3. to \in Look
          BY <2>1, <4>2 DEF Look
        <4> QED
          BY <4>1, <4>3
      <3>3. CASE EndRead(d)
        BY <3>3 DEF EndRead, Look, NoLook
      <3>4. ASSUME NEW c \in Chunk, ReadChunk(d, c)
            PROVE  \E new \in Look : look' = [look EXCEPT ![d] = new]
        <4>1. look' = [look EXCEPT ![d] = [look[d] EXCEPT !.rest = look[d].rest \ {c}]]
              \/ look' = [look EXCEPT ![d] = [look[d] EXCEPT !.at = "failed"]]
          BY <3>4 DEF ReadChunk
        <4>2. /\ [look[d] EXCEPT !.rest = look[d].rest \ {c}] \in Look
              /\ [look[d] EXCEPT !.at = "failed"] \in Look
          BY <2>1 DEF Look
        <4> QED
          BY <4>1, <4>2
      <3> QED
        BY <1>15, <3>1, <3>2, <3>3, <3>4 DEF DeviceStep
    <2>3. UNCHANGED <<disk, publish, history>>
      BY <1>15 DEF DeviceStep, ReadLatest, ReadManifest, EndRead, ReadChunk
    <2> QED
      BY <2>2, <2>3 DEF disk, publish, history
  <1>16. CASE UNCHANGED originVars
    BY <1>16 DEF originVars, disk, publish, history
  <1> QED
    BY <1>1, <1>2, <1>3, <1>4, <1>5, <1>6, <1>7, <1>8, <1>9, <1>10, <1>11, <1>12, <1>13,
       <1>14, <1>15, <1>16 DEF OriginNext, PublishStep, TroubleStep

\* The publish goes on with its chunks stored.
LEMMA StoredKept == OriginInv /\ [OriginNext]_originVars => Stored'
  <1> SUFFICES ASSUME OriginInv, [OriginNext]_originVars PROVE Stored'
    OBVIOUS
  <1>a. OriginTypeOK /\ Stored
    BY DEF OriginInv
  <1> USE <1>a, OriginAssumption DEF Stored, OriginTypeOK
  <1>1. ASSUME NEW r \in Release, Begin(r) PROVE Stored'
    BY <1>1 DEF Begin, disk
  <1>2. ASSUME NEW c \in Chunk, StoreChunk(c) PROVE Stored'
    BY <1>2 DEF StoreChunk
  <1>3. ASSUME NEW c \in Chunk, LinkChunk(c) \/ StartCopy(c) \/ CompareChunk(c) PROVE Stored'
    BY <1>3 DEF LinkChunk, StartCopy, CompareChunk
  <1>4. CASE PutManifest \/ LayManifest \/ SyncDirectory \/ MoveLatest
    BY <1>4 DEF PutManifest, LayManifest, SyncDirectory, MoveLatest
  <1>5. CASE FinishCopy \/ FlushCopy
    BY <1>5 DEF FinishCopy, FlushCopy
  <1>6. CASE Stop \/ PowerLoss
    BY <1>6 DEF Stop, PowerLoss, Abandon
  <1>7. ASSUME NEW c \in Chunk, Rot(c) PROVE Stored'
    BY <1>7 DEF Rot, publish
  <1>8. ASSUME NEW d \in Device, DeviceStep(d) PROVE Stored'
    BY <1>8 DEF DeviceStep, ReadLatest, ReadManifest, EndRead, ReadChunk, disk, publish
  <1>9. CASE UNCHANGED originVars
    BY <1>9 DEF originVars, disk, publish
  <1> QED
    BY <1>1, <1>2, <1>3, <1>4, <1>5, <1>6, <1>7, <1>8, <1>9
       DEF OriginNext, PublishStep, TroubleStep

\* The publish goes on with its chunks laid out.
LEMMA LaidKept == OriginInv /\ [OriginNext]_originVars => Laid'
  <1> SUFFICES ASSUME OriginInv, [OriginNext]_originVars PROVE Laid'
    OBVIOUS
  <1>a. OriginTypeOK /\ Stored /\ Laid
    BY DEF OriginInv
  <1>b. step # "idle" => release \in Release /\ todo \subseteq ChunksOf[release]
    BY <1>a DEF Stored
  <1>c. step \in {"linking", "copying", "flushing"} =>
          \A c \in ChunksOf[release] : store[c] = "whole"
    BY <1>a DEF Stored
  <1> USE <1>a, <1>b, <1>c, OriginAssumption DEF Laid, OriginTypeOK
  <1>1. ASSUME NEW r \in Release, Begin(r) PROVE Laid'
    BY <1>1 DEF Begin, disk
  <1>2. ASSUME NEW c \in Chunk, StoreChunk(c) PROVE Laid'
    BY <1>2 DEF StoreChunk
  <1>3. ASSUME NEW c \in Chunk, LinkChunk(c) \/ CompareChunk(c) PROVE Laid'
    BY <1>3 DEF LinkChunk, CompareChunk
  <1>4. ASSUME NEW c \in Chunk, StartCopy(c) PROVE Laid'
    BY <1>4 DEF StartCopy
  <1>5. CASE PutManifest \/ LayManifest \/ SyncDirectory \/ MoveLatest
    BY <1>5 DEF PutManifest, LayManifest, SyncDirectory, MoveLatest
  <1>6. CASE FinishCopy \/ FlushCopy
    BY <1>6 DEF FinishCopy, FlushCopy
  <1>7. CASE Stop \/ PowerLoss
    BY <1>7 DEF Stop, PowerLoss, Abandon
  <1>8. ASSUME NEW c \in Chunk, Rot(c) PROVE Laid'
    BY <1>8 DEF Rot, publish
  <1>9. ASSUME NEW d \in Device, DeviceStep(d) PROVE Laid'
    BY <1>9 DEF DeviceStep, ReadLatest, ReadManifest, EndRead, ReadChunk, disk, publish
  <1>10. CASE UNCHANGED originVars
    BY <1>10 DEF originVars, disk, publish
  <1> QED
    BY <1>1, <1>2, <1>3, <1>4, <1>5, <1>6, <1>7, <1>8, <1>9, <1>10
       DEF OriginNext, PublishStep, TroubleStep

\* Nothing but the copy in hand goes unflushed.
LEMMA FlushedKept == OriginInv /\ [OriginNext]_originVars => Flushed'
  <1> SUFFICES ASSUME OriginInv, [OriginNext]_originVars PROVE Flushed'
    OBVIOUS
  <1>a. Flushed
    BY DEF OriginInv
  <1> USE <1>a DEF Flushed
  <1>1. ASSUME NEW r \in Release, Begin(r) PROVE Flushed'
    BY <1>1 DEF Begin, disk
  <1>2. ASSUME NEW c \in Chunk,
               StoreChunk(c) \/ LinkChunk(c) \/ StartCopy(c) \/ CompareChunk(c)
        PROVE  Flushed'
    BY <1>2 DEF StoreChunk, LinkChunk, StartCopy, CompareChunk, history
  <1>3. CASE PutManifest \/ LayManifest \/ SyncDirectory \/ MoveLatest
    BY <1>3 DEF PutManifest, LayManifest, SyncDirectory, MoveLatest, history
  <1>4. CASE FinishCopy \/ FlushCopy
    BY <1>4 DEF FinishCopy, FlushCopy, history
  <1>5. CASE Stop \/ PowerLoss
    BY <1>5 DEF Stop, PowerLoss, Abandon, disk
  <1>6. ASSUME NEW c \in Chunk, Rot(c) PROVE Flushed'
    BY <1>6 DEF Rot, publish
  <1>7. ASSUME NEW d \in Device, DeviceStep(d) PROVE Flushed'
    BY <1>7 DEF DeviceStep, ReadLatest, ReadManifest, EndRead, ReadChunk, disk, publish, history
  <1>8. CASE UNCHANGED originVars
    BY <1>8 DEF originVars, disk, publish, history
  <1> QED
    BY <1>1, <1>2, <1>3, <1>4, <1>5, <1>6, <1>7, <1>8 DEF OriginNext, PublishStep, TroubleStep

\* A chunk that is in place for good stays so, but on a damaged disk and for
\* a copy that is never flushed: it is never linked or copied again, and a
\* comparison can only replace it by the same.
LEMMA DurableKept ==
  ASSUME OriginInv, [OriginNext]_originVars, ~rotted', NEW c \in Chunk, Durable(c)
  PROVE  Durable(c)'
  <1>a. OriginTypeOK /\ Stored /\ Laid
    BY DEF OriginInv
  <1>b. \A e \in todo : step \in {"linking", "copying"} => store[e] = "whole"
    BY <1>a DEF Stored
  <1> USE <1>a, <1>b DEF Durable, OriginTypeOK
  <1>1. ASSUME NEW r \in Release, Begin(r) PROVE Durable(c)'
    BY <1>1 DEF Begin, disk
  <1>2. ASSUME NEW e \in Chunk, StoreChunk(e) \/ LinkChunk(e) \/ StartCopy(e) \/ CompareChunk(e)
        PROVE  Durable(c)'
    BY <1>2 DEF StoreChunk, LinkChunk, StartCopy, CompareChunk
  <1>3. CASE PutManifest \/ LayManifest \/ SyncDirectory \/ MoveLatest
    BY <1>3 DEF PutManifest, LayManifest, SyncDirectory, MoveLatest
  <1>4. CASE FinishCopy \/ FlushCopy
    BY <1>4 DEF FinishCopy, FlushCopy, Laid
  <1>5. CASE Stop
    BY <1>5 DEF Stop, disk
  <1>6. CASE PowerLoss
    BY <1>6 DEF PowerLoss
  <1>7. ASSUME NEW e \in Chunk, Rot(e) PROVE Durable(c)'
    BY <1>7 DEF Rot
  <1>8. ASSUME NEW d \in Device, DeviceStep(d) PROVE Durable(c)'
    BY <1>8 DEF DeviceStep, ReadLatest, ReadManifest, EndRead, ReadChunk, disk
  <1>9. CASE UNCHANGED originVars
    BY <1>9 DEF originVars, disk
  <1> QED
    BY <1>1, <1>2, <1>3, <1>4, <1>5, <1>6, <1>7, <1>8, <1>9
       DEF OriginNext, PublishStep, TroubleStep

\* A manifest, once there, stays.
LEMMA ManifestsGrow == [OriginNext]_originVars => manifests \subseteq manifests'
  <1> SUFFICES ASSUME [OriginNext]_originVars PROVE manifests \subseteq manifests'
    OBVIOUS
  <1>1. ASSUME PublishStep PROVE manifests \subseteq manifests'
    BY <1>1 DEF PublishStep, Begin, StoreChunk, LinkChunk, StartCopy, CompareChunk, PutManifest,
       LayManifest, FinishCopy, FlushCopy, SyncDirectory, MoveLatest, disk
  <1>2. ASSUME TroubleStep PROVE manifests \subseteq manifests'
    BY <1>2 DEF TroubleStep, Stop, PowerLoss, Rot, disk
  <1>3. ASSUME NEW d \in Device, DeviceStep(d) PROVE manifests \subseteq manifests'
    BY <1>3 DEF DeviceStep, ReadLatest, ReadManifest, EndRead, ReadChunk, disk
  <1>4. CASE UNCHANGED originVars
    BY <1>4 DEF originVars, disk
  <1> QED
    BY <1>1, <1>2, <1>3, <1>4 DEF OriginNext

\* A damage and an unflushed copy are never forgotten.
LEMMA HistoryKept == OriginInv /\ [OriginNext]_originVars => (rotted => rotted') /\ (cut => cut')
  <1> SUFFICES ASSUME OriginInv, [OriginNext]_originVars
               PROVE  (rotted => rotted') /\ (cut => cut')
    OBVIOUS
  <1>a. rotted \in BOOLEAN /\ cut \in BOOLEAN
    BY DEF OriginInv, OriginTypeOK
  <1>1. CASE PublishStep
    BY <1>1 DEF PublishStep, Begin, StoreChunk, LinkChunk, StartCopy, CompareChunk, PutManifest,
       LayManifest, FinishCopy, FlushCopy, SyncDirectory, MoveLatest, history
  <1>2. CASE TroubleStep
    BY <1>2, <1>a DEF TroubleStep, Stop, PowerLoss, Rot
  <1>3. ASSUME NEW d \in Device, DeviceStep(d) PROVE (rotted => rotted') /\ (cut => cut')
    BY <1>3 DEF DeviceStep, ReadLatest, ReadManifest, EndRead, ReadChunk, history
  <1>4. CASE UNCHANGED originVars
    BY <1>4 DEF originVars, history
  <1> QED
    BY <1>1, <1>2, <1>3, <1>4 DEF OriginNext

\* What was complete stays so.
LEMMA CompleteKept ==
  ASSUME OriginInv, [OriginNext]_originVars, ~rotted', NEW r \in Release, Complete(r)
  PROVE  Complete(r)'
  <1>1. \A c \in ChunksOf[r] : Durable(c)'
    BY DurableKept, OriginAssumption DEF Complete
  <1>2. <<"flat", r>> \in manifests'
    BY ManifestsGrow DEF Complete
  <1> QED
    BY <1>1, <1>2 DEF Complete

\* A release is only wanted anew when a publish moves `latest` to it.
LEMMA NewlyWanted ==
  ASSUME OriginInv, [OriginNext]_originVars, NEW r \in Wanted', r \notin Wanted
  PROVE  MoveLatest /\ r = release
  <1>a. look \in [Device -> Look]
    BY DEF OriginInv, OriginTypeOK
  <1>1. CASE PublishStep
    <2>1. UNCHANGED look
      BY <1>1 DEF PublishStep, Begin, StoreChunk, LinkChunk, StartCopy, CompareChunk,
         PutManifest, LayManifest, FinishCopy, FlushCopy, SyncDirectory, MoveLatest
    <2>2. latest' # latest => MoveLatest
      BY <1>1 DEF PublishStep, Begin, StoreChunk, LinkChunk, StartCopy, CompareChunk,
         PutManifest, LayManifest, FinishCopy, FlushCopy, SyncDirectory, MoveLatest, disk
    <2>3. r = latest' /\ latest' # latest
      BY <2>1 DEF Wanted
    <2> QED
      BY <2>2, <2>3 DEF MoveLatest
  <1>2. CASE TroubleStep \/ UNCHANGED originVars
    <2>1. UNCHANGED <<look, latest>>
      BY <1>2 DEF TroubleStep, Stop, PowerLoss, Rot, disk, originVars
    <2> QED
      BY <2>1 DEF Wanted
  <1>3. ASSUME NEW d \in Device, DeviceStep(d) PROVE FALSE
    <2>1. UNCHANGED latest
      BY <1>3 DEF DeviceStep, ReadLatest, ReadManifest, EndRead, ReadChunk, disk
    <2>2. \A e \in Device \ {d} : look'[e] = look[e]
      BY <1>3, <1>a DEF DeviceStep, ReadLatest, ReadManifest, EndRead, ReadChunk
    <2>3. look'[d].at \in {"manifest", "chunks"} =>
            \/ look'[d].release = latest
            \/ look'[d].release = look[d].release /\ look[d].at \in {"manifest", "chunks"}
      <3>1. CASE ReadLatest(d)
        BY <3>1, <1>a DEF ReadLatest
      <3>2. CASE ReadManifest(d)
        BY <3>2, <1>a DEF ReadManifest, Look
      <3>3. CASE EndRead(d)
        BY <3>3, <1>a DEF EndRead, NoLook
      <3>4. ASSUME NEW c \in Chunk, ReadChunk(d, c)
            PROVE  look'[d].release = look[d].release /\ look[d].at \in {"manifest", "chunks"}
        BY <3>4, <1>a DEF ReadChunk, Look
      <3> QED
        BY <1>3, <3>1, <3>2, <3>3, <3>4 DEF DeviceStep
    <2>4. r # latest
      BY DEF Wanted
    <2>5. PICK e \in Device : look'[e].at \in {"manifest", "chunks"} /\ r = look'[e].release
      BY <2>1, <2>4 DEF Wanted
    <2>6. CASE e = d
      BY <2>3, <2>4, <2>5, <2>6 DEF Wanted
    <2>7. CASE e # d
      BY <2>2, <2>5, <2>7 DEF Wanted
    <2> QED
      BY <2>6, <2>7
  <1> QED
    BY <1>1, <1>2, <1>3 DEF OriginNext

\* The release that `latest` is about to name is complete.
LEMMA NamedIsComplete ==
  ASSUME OriginInv, step = "naming", ~cut
  PROVE  Complete(release)
  BY DEF OriginInv, Stored, Laid, Flushed, Complete, Durable

\* What latest or a device names stays complete: later publishes only add to the
\* directory or replace what differs.
LEMMA WantedKept == OriginInv /\ [OriginNext]_originVars => WantedComplete'
  <1> SUFFICES ASSUME OriginInv, [OriginNext]_originVars, ~rotted', ~cut',
                      NEW r \in Wanted' \cap Release
               PROVE  Complete(r)'
    BY DEF WantedComplete
  <1>1. ~rotted /\ ~cut
    BY HistoryKept
  <1>2. CASE r \in Wanted
    <2>1. Complete(r)
      BY <1>1, <1>2 DEF OriginInv, WantedComplete
    <2> QED
      BY <2>1, CompleteKept
  <1>3. CASE r \notin Wanted
    <2>1. MoveLatest /\ r = release
      BY <1>3, NewlyWanted
    <2>2. Complete(r)
      BY <1>1, <2>1, NamedIsComplete DEF MoveLatest
    <2> QED
      BY <2>2, CompleteKept
  <1> QED
    BY <1>2, <1>3

\* A device only fails to find what it asks for when it was damaged or never
\* flushed.
LEMMA LooksKept == OriginInv /\ [OriginNext]_originVars => Looks'
  <1> SUFFICES ASSUME OriginInv, [OriginNext]_originVars PROVE Looks'
    OBVIOUS
  <1>a. OriginTypeOK /\ Looks /\ WantedComplete
    BY DEF OriginInv
  <1>b. (rotted => rotted') /\ (cut => cut')
    BY HistoryKept
  <1>1. CASE UNCHANGED look
    BY <1>1, <1>a, <1>b DEF Looks
  <1>2. ASSUME NEW d \in Device, DeviceStep(d) PROVE Looks'
    <2>0. look \in [Device -> Look] /\ look[d] \in Look
      BY <1>a DEF OriginTypeOK
    <2>1. UNCHANGED <<rotted, cut>>
      BY <1>2 DEF DeviceStep, ReadLatest, ReadManifest, EndRead, ReadChunk, history
    <2>2. look[d].at \in {"manifest", "chunks"} /\ ~rotted /\ ~cut => Complete(look[d].release)
      <3>1. look[d].at \in {"manifest", "chunks"} => look[d].release \in Wanted \cap Release
        BY <1>a DEF Wanted, Looks
      <3> QED
        BY <3>1, <1>a DEF WantedComplete
    <2>3. /\ look'[d].at \in {"manifest", "chunks"} => look'[d].release \in Release
          /\ look'[d].at = "chunks" => look'[d].rest \subseteq ChunksOf[look'[d].release]
          /\ look'[d].at = "failed" => rotted \/ cut
      <3>1. CASE ReadLatest(d)
        <4>1. latest \in Release
          BY <3>1, <1>a DEF ReadLatest, OriginTypeOK
        <4> QED
          BY <3>1, <4>1, <2>0 DEF ReadLatest
      <3>2. CASE ReadManifest(d)
        <4>1. ~rotted /\ ~cut => <<"flat", look[d].release>> \in manifests
          BY <3>2, <2>2 DEF ReadManifest, Complete
        <4>2. look[d].release \in Release
          BY <3>2, <1>a DEF ReadManifest, Looks
        <4>3. CASE <<"flat", look[d].release>> \in manifests
          <5>1. look' = [look EXCEPT ![d] =
                  [look[d] EXCEPT !.at = "chunks", !.rest = ChunksOf[look[d].release]]]
            BY <3>2, <4>3 DEF ReadManifest
          <5> QED
            BY <5>1, <4>2, <2>0 DEF Look
        <4>4. CASE <<"flat", look[d].release>> \notin manifests
          <5>1. look' = [look EXCEPT ![d] = [look[d] EXCEPT !.at = "failed"]]
            BY <3>2, <4>4 DEF ReadManifest
          <5> QED
            BY <5>1, <4>1, <4>4, <2>0 DEF Look
        <4> QED
          BY <4>3, <4>4
      <3>3. CASE EndRead(d)
        BY <3>3, <2>0 DEF EndRead, NoLook
      <3>4. ASSUME NEW c \in Chunk, ReadChunk(d, c)
            PROVE  /\ look'[d].at \in {"manifest", "chunks"} => look'[d].release \in Release
                   /\ look'[d].at = "chunks" => look'[d].rest \subseteq ChunksOf[look'[d].release]
                   /\ look'[d].at = "failed" => rotted \/ cut
        <4>1. /\ look[d].at = "chunks" /\ c \in look[d].rest
              /\ look[d].release \in Release /\ look[d].rest \subseteq ChunksOf[look[d].release]
          BY <3>4, <1>a DEF ReadChunk, Looks
        <4>2. ~rotted /\ ~cut => flat[c] = "whole"
          BY <4>1, <2>2 DEF Complete, Durable
        <4>3. look' = IF flat[c] = "whole"
                THEN [look EXCEPT ![d] = [look[d] EXCEPT !.rest = look[d].rest \ {c}]]
                ELSE [look EXCEPT ![d] = [look[d] EXCEPT !.at = "failed"]]
          BY <3>4 DEF ReadChunk
        <4> QED
          BY <4>1, <4>2, <4>3, <2>0 DEF Look
      <3> QED
        BY <1>2, <3>1, <3>2, <3>3, <3>4 DEF DeviceStep
    <2>4. \A e \in Device \ {d} : look'[e] = look[e]
      BY <1>2, <2>0 DEF DeviceStep, ReadLatest, ReadManifest, EndRead, ReadChunk
    <2> QED
      BY <2>1, <2>3, <2>4, <1>a DEF Looks
  <1> QED
    BY <1>1, <1>2 DEF OriginNext, PublishStep, Begin, StoreChunk, LinkChunk, StartCopy,
       CompareChunk, PutManifest, LayManifest, FinishCopy, FlushCopy, SyncDirectory, MoveLatest,
       TroubleStep, Stop, PowerLoss, Rot, originVars

-----------------------------------------------------------------------------
\* The invariant is inductive.
THEOREM OriginInvariant == OriginSpec => []OriginInv
  <1>1. OriginInit => OriginInv
    BY OriginInitInv
  <1>2. OriginInv /\ [OriginNext]_originVars => OriginInv'
    BY OriginTypes, StoredKept, LaidKept, FlushedKept, WantedKept, LooksKept DEF OriginInv
  <1> QED
    BY <1>1, <1>2, PTL DEF OriginSpec

\* `latest` never outlives what it refers to: publish.py names a release only
\* when each object of it is in place and flushed, and never takes one away.
THEOREM LatestIsComplete == OriginSpec => []LatestComplete
  <1>1. OriginInv => LatestComplete
    BY DEF OriginInv, OriginTypeOK, WantedComplete, Wanted, LatestComplete
  <1> QED
    BY <1>1, OriginInvariant, PTL

\* A device finds what the pointer it read refers to, however many releases
\* are published meanwhile.
THEOREM EveryDeviceServed == OriginSpec => []DevicesServed
  <1>1. OriginInv => DevicesServed
    BY DEF OriginInv, Looks, DevicesServed
  <1> QED
    BY <1>1, OriginInvariant, PTL

\* A publish that gets to `latest` has healed every chunk of its release.
THEOREM PublishesHeal == OriginSpec => []PublishHeals
  <1>1. OriginInv => PublishHeals
    BY DEF OriginInv, Stored, Laid, PublishHeals
  <1> QED
    BY <1>1, OriginInvariant, PTL

-----------------------------------------------------------------------------
(***************************************************************************)
(* Where files are cut.                                                    *)
(***************************************************************************)

ChunkingInv == ChunkingTypeOK /\ ChunksTile

\* A set of numbers has a least one.
LEMMA LeastNatural ==
  ASSUME NEW S \in SUBSET Nat, S # {}
  PROVE  \E i \in S : \A j \in S : i <= j
  <1>1. \E i \in S : \A j \in S : ~(<<j, i>> \in OpToRel(<, Nat))
    BY NatLessThanWellFounded, WFMin
  <1>2. PICK i \in S : \A j \in S : ~(<<j, i>> \in OpToRel(<, Nat))
    BY <1>1
  <1>3. ASSUME NEW j \in S PROVE i <= j
    <2>1. ~(<<j, i>> \in OpToRel(<, Nat))
      BY <1>2
    <2>2. i \in Nat /\ j \in Nat
      OBVIOUS
    <2>3. ~(j < i)
      BY <2>1, <2>2 DEF OpToRel
    <2> QED
      BY <2>2, <2>3
  <1> QED
    BY <1>3

\* The sizes are numbers.
LEMMA SizesAreNat == MinSize \in Nat /\ MaxSize \in Nat /\ MaxSize > 0 /\ MaxLength \in Nat
  BY ChunkingAssumption

\* A cut is ahead, not farther than the longest chunk, and not closer than the
\* shortest one unless the file or the longest chunk ends there.
LEMMA CutPointAhead ==
  ASSUME NEW data \in Seq(Byte), NEW start \in Nat, start < Len(data)
  PROVE  LET stop == CutPoint(data, start) IN
         /\ stop \in Nat /\ start < stop /\ stop <= Len(data) /\ stop - start <= MaxSize
         /\ stop = Len(data) \/ stop - start > MinSize \/ stop - start = MaxSize
  <1> DEFINE C == Candidates(data, start)
             end == HardEnd(data, start)
             least == CHOOSE i \in C : \A j \in C : i <= j
  <1>1. Len(data) \in Nat
    BY LenProperties
  <1>2. /\ end \in Nat /\ start < end /\ end <= Len(data) /\ end - start <= MaxSize
        /\ end = Len(data) \/ end - start = MaxSize
    BY <1>1, SizesAreNat DEF HardEnd, Least
  <1>3. \A i \in C : i \in Nat /\ start + MinSize <= i /\ i < end
    BY <1>2, SizesAreNat DEF Candidates
  <1> HIDE DEF C, end
  <1>4. CASE C = {}
    BY <1>2, <1>4 DEF CutPoint, C, end
  <1>5. CASE C # {}
    <2>1. C \in SUBSET Nat
      BY <1>3
    <2>2. least \in C
      BY <2>1, <1>5, LeastNatural
    <2> HIDE DEF least
    <2>3. CutPoint(data, start) = least + 1
      BY <1>5 DEF CutPoint, C, least
    <2>4. least \in Nat /\ start + MinSize <= least /\ least < end
      BY <1>3, <2>2
    <2> QED
      BY <1>1, <1>2, <2>3, <2>4, SizesAreNat
  <1> QED
    BY <1>4, <1>5

-----------------------------------------------------------------------------
(***************************************************************************)
(* The hash depends on the bytes since it was begun, and on nothing else.  *)
(***************************************************************************)
\* One step of the hash, by a byte.
Roll(h, byte) == (2 * h + Gear[byte]) % (2^Width)

\* h is the hash of the bytes up to n, begun at `from`.
IsHash(h, data, from, n) ==
  h = [i \in from..n |-> IF i = from THEN 0 ELSE Roll(h[i - 1], data[i])]

\* The K bytes after two places are the same.
Agree(data, a, other, b, K) == \A k \in 1..K : data[a + k] = other[b + k]

\* So are two hashes, at the places and after each of the K bytes.
SameHash(h, a, g, b, K) == \A k \in 0..K : h[a + k] = g[b + k]

\* However long the data, it has a hash: there is no shortest that has none.
LEMMA HashExists ==
  ASSUME NEW data, NEW from \in Nat, NEW n \in Nat
  PROVE  \E h : IsHash(h, data, from, n)
  <1> DEFINE Bad == {m \in Nat : \A h : ~IsHash(h, data, from, m)}
  <1>1. ASSUME Bad # {} PROVE FALSE
    <2>1. PICK m \in Bad : \A j \in Bad : m <= j
      BY <1>1, LeastNatural
    <2>2. m \in Nat /\ \A h : ~IsHash(h, data, from, m)
      BY <2>1
    <2>3. CASE m <= from
      <3> DEFINE h == [i \in from..m |-> 0]
      <3>1. \A i \in from..m : i = from
        BY <2>2, <2>3
      <3>2. h = [i \in from..m |-> IF i = from THEN 0 ELSE Roll(h[i - 1], data[i])]
        BY <3>1
      <3> QED
        BY <2>2, <3>2 DEF IsHash
    <2>4. CASE from < m
      <3>1. m - 1 \in Nat /\ m - 1 \notin Bad
        BY <2>1, <2>2, <2>4
      <3>2. PICK g : IsHash(g, data, from, m - 1)
        BY <3>1
      <3> DEFINE h == [i \in from..m |-> IF i = m THEN Roll(g[m - 1], data[m]) ELSE g[i]]
      <3>3. \A i \in from..m - 1 : g[i] = IF i = from THEN 0 ELSE Roll(g[i - 1], data[i])
        BY <3>2 DEF IsHash
      <3>4. ASSUME NEW i \in from..m
            PROVE  h[i] = IF i = from THEN 0 ELSE Roll(h[i - 1], data[i])
        <4>1. CASE i = m
          <5>1. m - 1 \in from..m /\ m - 1 # m
            BY <2>2, <2>4
          <5> QED
            BY <2>4, <4>1, <5>1
        <4>2. CASE i = from
          BY <2>2, <2>4, <3>3, <4>2
        <4>3. CASE i # m /\ i # from
          <5>1. i \in from..m - 1 /\ i - 1 \in from..m /\ i - 1 # m
            BY <2>2, <4>3
          <5> QED
            BY <3>3, <4>3, <5>1
        <4> QED
          BY <4>1, <4>2, <4>3
      <3> HIDE DEF h
      <3>5. h = [i \in from..m |-> IF i = from THEN 0 ELSE Roll(h[i - 1], data[i])]
        <4>1. h = [i \in from..m |-> h[i]]
          BY DEF h
        <4> QED
          BY <3>4, <4>1
      <3> QED
        BY <2>2, <3>5 DEF IsHash
    <2> QED
      BY <2>2, <2>3, <2>4
  <1> QED
    BY <1>1

\* Two hashes of the same bytes agree: there is no first place where they part.
LEMMA SameBytesSameHash ==
  ASSUME NEW data, NEW a \in Nat, NEW m \in Nat, NEW h, IsHash(h, data, a, m),
         NEW other, NEW b \in Nat, NEW n \in Nat, NEW g, IsHash(g, other, b, n),
         NEW K \in Nat, a + K <= m, b + K <= n,
         Agree(data, a, other, b, K)
  PROVE  SameHash(h, a, g, b, K)
  <1> DEFINE Bad == {k \in 0..K : h[a + k] # g[b + k]}
  <1>1. ASSUME Bad # {} PROVE FALSE
    <2>0. Bad \in SUBSET Nat
      OBVIOUS
    <2>1. PICK k \in Bad : \A j \in Bad : k <= j
      <3> HIDE DEF Bad
      <3> QED
        BY <1>1, <2>0, LeastNatural
    <2>2. k \in 0..K /\ a + k \in a..m /\ b + k \in b..n
      BY <2>1
    <2>3. /\ h[a + k] = IF a + k = a THEN 0 ELSE Roll(h[a + k - 1], data[a + k])
          /\ g[b + k] = IF b + k = b THEN 0 ELSE Roll(g[b + k - 1], other[b + k])
      BY <2>2 DEF IsHash
    <2>4. CASE k = 0
      BY <2>1, <2>2, <2>3, <2>4
    <2>5. CASE k # 0
      <3>1. k - 1 \in 0..K /\ k - 1 \notin Bad /\ k \in 1..K
        BY <2>1, <2>2, <2>5
      <3>2. h[a + (k - 1)] = g[b + (k - 1)] /\ data[a + k] = other[b + k]
        BY <3>1 DEF Agree
      <3>3. a + (k - 1) = a + k - 1 /\ b + (k - 1) = b + k - 1 /\ a + k # a /\ b + k # b
        BY <2>2, <2>5
      <3>4. h[a + k - 1] = g[b + k - 1]
        BY <3>2, <3>3
      <3> QED
        BY <2>1, <2>3, <3>2, <3>3, <3>4
    <2> QED
      BY <2>4, <2>5
  <1> QED
    BY <1>1 DEF SameHash

\* What the model's recursive function computes is such a hash.
LEMMA HashFact ==
  ASSUME NEW data \in Seq(Byte), NEW from \in Nat
  PROVE  \E h : /\ IsHash(h, data, from, Len(data))
                /\ Hash(data, from) = [i \in from..Len(data) - 1 |-> h[i + 1]]
  <1> DEFINE h == CHOOSE f : IsHash(f, data, from, Len(data))
  <1>1. Len(data) \in Nat
    BY LenProperties
  <1>2. IsHash(h, data, from, Len(data))
    BY <1>1, HashExists
  <1>3. Hash(data, from) = [i \in from..Len(data) - 1 |-> h[i + 1]]
    BY DEF Hash, IsHash, Roll
  <1> QED
    BY <1>2, <1>3

\* The hash of a byte depends on the bytes since the start of its chunk only.
LEMMA HashLocal ==
  ASSUME NEW data \in Seq(Byte), NEW a \in Nat, NEW other \in Seq(Byte), NEW b \in Nat,
         NEW K \in Nat, a + K <= Len(data), b + K <= Len(other),
         Agree(data, a, other, b, K)
  PROVE  \A k \in 0..K - 1 : Hash(data, a)[a + k] = Hash(other, b)[b + k]
  <1>1. Len(data) \in Nat /\ Len(other) \in Nat
    BY LenProperties
  <1>2. PICK h : /\ IsHash(h, data, a, Len(data))
                 /\ Hash(data, a) = [i \in a..Len(data) - 1 |-> h[i + 1]]
    BY HashFact
  <1>3. PICK g : /\ IsHash(g, other, b, Len(other))
                 /\ Hash(other, b) = [i \in b..Len(other) - 1 |-> g[i + 1]]
    BY HashFact
  <1>4. SameHash(h, a, g, b, K)
    BY <1>1, <1>2, <1>3, SameBytesSameHash
  <1> SUFFICES ASSUME NEW k \in 0..K - 1
               PROVE  Hash(data, a)[a + k] = Hash(other, b)[b + k]
    OBVIOUS
  <1>5. /\ a + k \in a..Len(data) - 1 /\ b + k \in b..Len(other) - 1 /\ k + 1 \in 0..K
        /\ a + k + 1 = a + (k + 1) /\ b + k + 1 = b + (k + 1)
    BY <1>1
  <1>6. Hash(data, a)[a + k] = h[a + (k + 1)] /\ Hash(other, b)[b + k] = g[b + (k + 1)]
    BY <1>2, <1>3, <1>5
  <1> QED
    BY <1>4, <1>5, <1>6 DEF SameHash

\* The least of some numbers.
First(S) == CHOOSE i \in S : \A j \in S : i <= j

\* What the next cut depends on: the bytes up to it, and whether the file ends.
LEMMA CutLocal ==
  ASSUME NEW data \in Seq(Byte), NEW s \in Nat, s < Len(data),
         NEW other \in Seq(Byte), NEW t \in Nat, t < Len(other),
         NEW K \in Nat, CutPoint(data, s) = s + K, t + K <= Len(other),
         Agree(data, s, other, t, K),
         K <= HardEnd(other, t) - t,
         K = HardEnd(data, s) - s => HardEnd(other, t) - t = K
  PROVE  CutPoint(other, t) = t + K
  <1> DEFINE C == Candidates(data, s)
             D == Candidates(other, t)
  <1>1. /\ Len(data) \in Nat /\ Len(other) \in Nat
        /\ s + K <= Len(data) /\ K > 0 /\ K <= MaxSize
    BY CutPointAhead, SizesAreNat, LenProperties
  <1>0. HardEnd(data, s) \in Nat /\ HardEnd(other, t) \in Nat
    BY <1>1, SizesAreNat DEF HardEnd, Least
  <1>a. PICK e \in Nat : e = HardEnd(data, s)
    BY <1>0
  <1>b. PICK f \in Nat : f = HardEnd(other, t)
    BY <1>0
  <1>2. /\ e <= Len(data) /\ f <= Len(other)
        /\ K <= f - t /\ (K = e - s => f - t = K)
    BY <1>1, <1>a, <1>b, SizesAreNat DEF HardEnd, Least
  <1>3. ASSUME NEW k \in 0..K - 1, k < e - s
        PROVE  s + k \in C <=> t + k \in D
    <2>1. s + k < e /\ t + k < f
      BY <1>1, <1>2, <1>3
    <2>2. s + k < NormEnd(data, s) <=> t + k < NormEnd(other, t)
      <3>1. /\ NormEnd(data, s) = IF s + AvgSize <= e THEN s + AvgSize ELSE e
            /\ NormEnd(other, t) = IF t + AvgSize <= f THEN t + AvgSize ELSE f
        BY <1>a, <1>b DEF NormEnd, Least
      <3>2. k \in Nat /\ AvgSize \in Nat
        BY ChunkingAssumption
      <3>3. s + k < NormEnd(data, s) <=> k < AvgSize
        BY <2>1, <3>1, <3>2
      <3>4. t + k < NormEnd(other, t) <=> k < AvgSize
        BY <2>1, <3>1, <3>2
      <3> QED
        BY <3>3, <3>4
    <2>3. CASE k < MinSize
      BY <1>1, <1>2, <1>a, <1>b, <2>3, SizesAreNat DEF Candidates
    <2>4. CASE k >= MinSize
      <3> DEFINE a == s + MinSize
                 b == t + MinSize
                 L == K - MinSize
      <3>1. a \in Nat /\ b \in Nat /\ L \in Nat /\ a + L <= Len(data) /\ b + L <= Len(other)
        BY <1>1, <2>4, SizesAreNat
      <3>2. Agree(data, a, other, b, L)
        <4> SUFFICES ASSUME NEW j \in 1..L
                     PROVE  data[a + j] = other[b + j]
          BY DEF Agree
        <4>1. MinSize + j \in 1..K /\ s + (MinSize + j) = a + j /\ t + (MinSize + j) = b + j
          BY <3>1, SizesAreNat
        <4> QED
          BY <4>1 DEF Agree
      <3> HIDE DEF a, b, L
      <3>3. \A j \in 0..L - 1 : Hash(data, a)[a + j] = Hash(other, b)[b + j]
        BY <3>1, <3>2, HashLocal
      <3>4. k - MinSize \in 0..L - 1 /\ a + (k - MinSize) = s + k /\ b + (k - MinSize) = t + k
        BY <1>1, <2>4, SizesAreNat DEF a, b, L
      <3>5. Hash(data, a)[s + k] = Hash(other, b)[t + k]
        BY <3>3, <3>4
      <3>6. s + k \in a..e - 1 /\ t + k \in b..f - 1
        BY <1>1, <1>2, <2>1, <2>4, SizesAreNat DEF a, b
      <3>7. s + k \in C <=>
              Clear(Hash(data, a)[s + k], IF s + k < NormEnd(data, s) THEN StrictMask ELSE LooseMask)
        BY <1>a, <1>b, <3>6 DEF Candidates, a
      <3>8. t + k \in D <=>
              Clear(Hash(other, b)[t + k], IF t + k < NormEnd(other, t) THEN StrictMask ELSE LooseMask)
        BY <1>a, <1>b, <3>6 DEF Candidates, b
      <3> QED
        BY <2>2, <3>5, <3>7, <3>8
    <2> QED
      BY <1>1, <2>3, <2>4, SizesAreNat
  <1>4. /\ \A i \in C : i \in Nat /\ s <= i /\ i < e
        /\ \A i \in D : i \in Nat /\ t <= i /\ i < f
    <2>1. \A i \in C : i \in s + MinSize..e - 1
      BY <1>a DEF Candidates
    <2>2. \A i \in D : i \in t + MinSize..f - 1
      BY <1>b DEF Candidates
    <2> HIDE DEF C, D
    <2>3. QED
      BY <1>1, <2>1, <2>2, SizesAreNat
  <1>5. s + K = IF C = {} THEN e ELSE First(C) + 1
    BY <1>a, <1>b DEF CutPoint, First
  <1>6. CutPoint(other, t) = IF D = {} THEN f ELSE First(D) + 1
    BY <1>a, <1>b DEF CutPoint, First
  <1> HIDE DEF C, D
  <1>7. CASE C = {}
    <2>1. K = e - s /\ f = t + K
      BY <1>1, <1>2, <1>5, <1>7
    <2>2. ASSUME NEW i \in D PROVE FALSE
      <3>1. i - t \in 0..K - 1 /\ i - t < e - s /\ t + (i - t) = i
        BY <1>1, <1>2, <1>4, <2>1
      <3> QED
        BY <1>3, <1>7, <2>2, <3>1
    <2> QED
      BY <1>6, <2>1, <2>2
  <1>8. CASE C # {}
    <2> DEFINE m == First(C)
    <2>1. m \in C /\ \A j \in C : m <= j
      <3>1. C \in SUBSET Nat
        BY <1>4
      <3> QED
        BY <1>8, <3>1, LeastNatural DEF First
    <2>2. m = s + (K - 1) /\ K - 1 \in 0..K - 1 /\ K - 1 < e - s
      BY <1>1, <1>2, <1>4, <1>5, <1>8, <2>1
    <2> HIDE DEF m
    <2>3. t + (K - 1) \in D
      BY <1>3, <2>1, <2>2
    <2>4. ASSUME NEW j \in D PROVE t + (K - 1) <= j
      <3>1. CASE j - t < K - 1
        <4>1. j - t \in 0..K - 1 /\ j - t < e - s /\ t + (j - t) = j
          BY <1>1, <1>2, <1>4, <2>2, <3>1
        <4>2. s + (j - t) \in C
          BY <1>3, <4>1
        <4>3. m <= s + (j - t)
          BY <2>1, <4>2
        <4> QED
          BY <1>1, <1>4, <2>2, <3>1, <4>3
      <3> QED
        BY <1>1, <1>4, <3>1
    <2>5. First(D) = t + (K - 1)
      <3>1. \A i \in D : (\A j \in D : i <= j) <=> i = t + (K - 1)
        BY <1>1, <1>4, <2>3, <2>4
      <3> QED
        BY <2>3, <3>1 DEF First
    <2> QED
      BY <1>1, <1>6, <2>3, <2>5
  <1> QED
    BY <1>7, <1>8

-----------------------------------------------------------------------------
\* Before the first chunk there is nothing to tile.
LEMMA ChunkingInitInv == ChunkingInit => ChunkingInv
  <1> SUFFICES ASSUME ChunkingInit PROVE ChunkingInv
    OBVIOUS
  <1>1. File \subseteq Seq(Byte)
    BY DEF File
  <1>2. ChunkingTypeOK
    BY <1>1 DEF ChunkingInit, ChunkingTypeOK
  <1>3. ASSUME NEW v \in Version PROVE Tiles(v)
    <2>1. Len(text[v]) \in Nat /\ offset[v] = 0 /\ chunks[v] = {}
      BY <1>2, LenProperties DEF ChunkingInit, ChunkingTypeOK
    <2> QED
      BY <2>1 DEF Tiles
  <1> QED
    BY <1>2, <1>3 DEF ChunkingInv, ChunksTile

\* A chunk more begins where the tiled part ends and is of a size it may have.
LEMMA NextChunkTiles ==
  ASSUME ChunkingInv, NEW v \in Version, NextChunk(v)
  PROVE  ChunkingInv'
  <1> DEFINE end == CutPoint(text[v], offset[v])
             new == <<offset[v], end>>
  <1>1. /\ text \in [Version -> Seq(Byte)] /\ offset \in [Version -> Nat]
        /\ chunks \in [Version -> SUBSET (Nat \X Nat)]
        /\ Tiles(v)
    BY DEF ChunkingInv, ChunkingTypeOK, ChunksTile
  <1>2. /\ offset[v] < Len(text[v]) /\ text' = text
        /\ chunks' = [chunks EXCEPT ![v] = chunks[v] \cup {new}]
        /\ offset' = [offset EXCEPT ![v] = end]
    BY DEF NextChunk
  <1>3. /\ end \in Nat /\ offset[v] < end /\ end <= Len(text[v]) /\ end - offset[v] <= MaxSize
        /\ end = Len(text[v]) \/ end - offset[v] > MinSize \/ end - offset[v] = MaxSize
    BY <1>1, <1>2, CutPointAhead
  <1> HIDE DEF end
  <1>4. ChunkingTypeOK'
    BY <1>1, <1>2, <1>3 DEF ChunkingTypeOK
  <1>5. ASSUME NEW w \in Version, w # v PROVE Tiles(w)'
    BY <1>1, <1>2, <1>5 DEF ChunkingInv, ChunksTile, Tiles
  <1>6. Tiles(v)'
    <2>1. /\ text'[v] = text[v] /\ offset'[v] = end /\ chunks'[v] = chunks[v] \cup {new}
          /\ offset[v] \in Nat /\ Len(text[v]) \in Nat
          /\ new \in Nat \X Nat /\ new[1] = offset[v] /\ new[2] = end
      BY <1>1, <1>2, <1>3, LenProperties
    <2> HIDE DEF new
    <2>2. ASSUME NEW c \in chunks[v]
          PROVE  /\ 0 <= c[1] /\ c[1] < c[2] /\ c[2] <= offset'[v]
                 /\ c[2] - c[1] <= MaxSize
                 /\ c[2] = Len(text[v]) \/ c[2] - c[1] > MinSize \/ c[2] - c[1] = MaxSize
                 /\ c[1] = 0 \/ \E d \in chunks'[v] : d[2] = c[1]
                 /\ c[2] = offset'[v] \/ \E d \in chunks'[v] : d[1] = c[2]
      <3>1. c[1] \in Nat /\ c[2] \in Nat
        BY <1>1
      <3>2. /\ 0 <= c[1] /\ c[1] < c[2] /\ c[2] <= offset[v] /\ c[2] - c[1] <= MaxSize
            /\ c[2] = Len(text[v]) \/ c[2] - c[1] > MinSize \/ c[2] - c[1] = MaxSize
            /\ c[1] = 0 \/ \E d \in chunks[v] : d[2] = c[1]
            /\ c[2] = offset[v] \/ \E d \in chunks[v] : d[1] = c[2]
        BY <1>1 DEF Tiles
      <3>3. c[2] <= offset'[v]
        BY <1>3, <2>1, <3>1, <3>2
      <3>4. c[1] = 0 \/ \E d \in chunks'[v] : d[2] = c[1]
        BY <2>1, <3>2
      <3>5. \E d \in chunks'[v] : d[1] = c[2]
        BY <2>1, <3>2
      <3> QED
        BY <3>2, <3>3, <3>4, <3>5
    <2>3. new[1] = 0 \/ \E d \in chunks'[v] : d[2] = new[1]
      BY <1>1, <2>1 DEF Tiles
    <2>4. offset'[v] \in 0..Len(text'[v])
      BY <1>3, <2>1
    <2> QED
      BY <1>3, <2>1, <2>2, <2>3, <2>4 DEF Tiles
  <1> QED
    BY <1>4, <1>5, <1>6 DEF ChunkingInv, ChunksTile

-----------------------------------------------------------------------------
\* The invariant is inductive: every file is tiled up to its offset.
LEMMA ChunkingInvariant == ChunkingSpec => []ChunkingInv
  <1>1. ChunkingInv /\ [ChunkingNext]_chunkingVars => ChunkingInv'
    <2>1. ASSUME ChunkingInv, UNCHANGED chunkingVars PROVE ChunkingInv'
      BY <2>1 DEF chunkingVars, ChunkingInv, ChunkingTypeOK, ChunksTile, Tiles
    <2> QED
      BY <2>1, NextChunkTiles DEF ChunkingNext
  <1> QED
    BY <1>1, ChunkingInitInv, PTL DEF ChunkingSpec

\* What GearCDC yields rejoins to the file, in chunks of the profile's sizes.
THEOREM ChunksAlwaysTile == ChunkingSpec => []ChunksTile
  BY ChunkingInvariant, PTL DEF ChunkingInv

\* Every chunk is what the cut point of its start says.
CutsFollow ==
  \A v \in Version : \A c \in chunks[v] :
    c[1] < Len(text[v]) /\ c[2] = CutPoint(text[v], c[1])

\* The end of a chunk more is the cut point of its start.
LEMMA CutsFollowKept ==
  ASSUME ChunkingInv, CutsFollow, NEW v \in Version, NextChunk(v)
  PROVE  CutsFollow'
  <1> SUFFICES ASSUME NEW w \in Version, NEW c \in chunks'[w]
               PROVE  c[1] < Len(text[w]) /\ c[2] = CutPoint(text[w], c[1])
    BY DEF CutsFollow, NextChunk
  <1>1. chunks \in [Version -> SUBSET (Nat \X Nat)]
    BY DEF ChunkingInv, ChunkingTypeOK
  <1>2. CASE c \in chunks[w]
    BY <1>2 DEF CutsFollow
  <1>3. CASE c \notin chunks[w]
    <2>1. w = v /\ c = <<offset[v], CutPoint(text[v], offset[v])>> /\ offset[v] < Len(text[v])
      BY <1>1, <1>3 DEF NextChunk
    <2> QED
      BY <2>1
  <1> QED
    BY <1>2, <1>3

\* Two chunks that begin alike, in files that agree for as long as the first
\* one goes and do not end within it.
LEMMA SamePrefixSameCut ==
  ASSUME NEW data \in Seq(Byte), NEW other \in Seq(Byte), NEW s \in Nat, s < Len(data), NEW stop,
         stop = CutPoint(data, s), stop < Len(data), stop < Len(other),
         SubSeq(data, 1, stop) = SubSeq(other, 1, stop)
  PROVE  CutPoint(other, s) = stop
  <1>1. /\ Len(data) \in Nat /\ Len(other) \in Nat
        /\ stop \in Nat /\ s < stop /\ stop - s <= MaxSize
    BY CutPointAhead, LenProperties
  <1>2. PICK K \in Nat : stop = s + K
    <2>1. stop - s \in Nat /\ stop = s + (stop - s)
      BY <1>1
    <2> QED
      BY <2>1
  <1>3. Agree(data, s, other, s, K)
    <2> SUFFICES ASSUME NEW k \in 1..K
                 PROVE  data[s + k] = other[s + k]
      BY DEF Agree
    <2>1. s + k \in 1..stop /\ \A i \in 1..stop : i \in 1..Len(data) /\ i \in 1..Len(other)
      BY <1>1, <1>2
    <2>2. SubSeq(data, 1, stop)[s + k] = data[s + k] /\ SubSeq(other, 1, stop)[s + k] = other[s + k]
      BY <1>1, <2>1, SubSeqProperties
    <2> QED
      BY <2>2
  <1>4. /\ HardEnd(data, s) = IF s + MaxSize <= Len(data) THEN s + MaxSize ELSE Len(data)
        /\ HardEnd(other, s) = IF s + MaxSize <= Len(other) THEN s + MaxSize ELSE Len(other)
    BY DEF HardEnd, Least
  <1>5. K <= HardEnd(other, s) - s /\ (K = HardEnd(data, s) - s => HardEnd(other, s) - s = K)
    BY <1>1, <1>2, <1>4, SizesAreNat
  <1>6. s < Len(other) /\ s + K <= Len(other)
    BY <1>1, <1>2
  <1>7. CutPoint(data, s) = s + K
    BY <1>2
  <1>8. CutPoint(other, s) = s + K
    BY <1>3, <1>5, <1>6, <1>7, CutLocal
  <1> QED
    BY <1>2, <1>8

\* Two chunks from which on the files are the same.
LEMMA SameRestSameCut ==
  ASSUME NEW data \in Seq(Byte), NEW s \in Nat, s < Len(data),
         NEW other \in Seq(Byte), NEW t \in Nat, t < Len(other),
         Rest(data, s) = Rest(other, t)
  PROVE  CutPoint(other, t) - t = CutPoint(data, s) - s
  <1> DEFINE stop == CutPoint(data, s)
  <1>1. /\ Len(data) \in Nat /\ Len(other) \in Nat
        /\ stop \in Nat /\ s < stop /\ stop <= Len(data) /\ stop - s <= MaxSize
    BY CutPointAhead, LenProperties
  <1> HIDE DEF stop
  <1>2. PICK K \in Nat : stop = s + K
    <2>1. stop - s \in Nat /\ stop = s + (stop - s)
      BY <1>1
    <2> QED
      BY <2>1
  <1>3. /\ s + 1 \in 1..Len(data) + 1 /\ \A i \in s + 1..Len(data) : i \in 1..Len(data)
        /\ t + 1 \in 1..Len(other) + 1 /\ \A i \in t + 1..Len(other) : i \in 1..Len(other)
    BY <1>1
  <1>4. /\ Len(Rest(data, s)) = Len(data) - s /\ Len(Rest(other, t)) = Len(other) - t
        /\ \A i \in 1..Len(data) - s : Rest(data, s)[i] = data[s + i]
        /\ \A i \in 1..Len(other) - t : Rest(other, t)[i] = other[t + i]
    BY <1>1, <1>3, SubSeqProperties DEF Rest
  <1>5. Len(data) - s = Len(other) - t
    BY <1>4
  <1>6. Agree(data, s, other, t, K)
    <2> SUFFICES ASSUME NEW k \in 1..K
                 PROVE  data[s + k] = other[t + k]
      BY DEF Agree
    <2>1. k \in 1..Len(data) - s /\ k \in 1..Len(other) - t
      BY <1>1, <1>2, <1>5
    <2> QED
      BY <1>4, <2>1
  <1>7. /\ HardEnd(data, s) = IF s + MaxSize <= Len(data) THEN s + MaxSize ELSE Len(data)
        /\ HardEnd(other, t) = IF t + MaxSize <= Len(other) THEN t + MaxSize ELSE Len(other)
    BY DEF HardEnd, Least
  <1>8. K <= HardEnd(other, t) - t /\ (K = HardEnd(data, s) - s => HardEnd(other, t) - t = K)
    BY <1>1, <1>2, <1>5, <1>7, SizesAreNat
  <1>9. t + K <= Len(other)
    BY <1>1, <1>2, <1>5
  <1>10. CutPoint(other, t) = t + K
    BY <1>2, <1>6, <1>8, <1>9, CutLocal DEF stop
  <1> QED
    BY <1>2, <1>10 DEF stop

\* What two versions have in common up to an edit, and from a common cut on, is
\* cut alike: a device fetches only the chunks an edit reaches.
THEOREM EditsAreLocal == ChunkingSpec => []EditIsLocal
  <1>1. ChunkingInit => CutsFollow
    BY DEF ChunkingInit, CutsFollow
  <1>2. ChunkingInv /\ CutsFollow /\ [ChunkingNext]_chunkingVars => CutsFollow'
    <2>1. ASSUME CutsFollow, UNCHANGED chunkingVars PROVE CutsFollow'
      BY <2>1 DEF chunkingVars, CutsFollow
    <2> QED
      BY <2>1, CutsFollowKept DEF ChunkingNext
  <1>3. ChunkingInv /\ CutsFollow => EditIsLocal
    <2> SUFFICES ASSUME ChunkingInv, CutsFollow,
                        NEW v \in Version, NEW w \in Version, NEW c \in chunks[v], NEW d \in chunks[w],
                        \/ /\ c[1] = d[1] /\ c[2] < Len(text[v]) /\ c[2] < Len(text[w])
                           /\ SubSeq(text[v], 1, c[2]) = SubSeq(text[w], 1, c[2])
                        \/ Rest(text[v], c[1]) = Rest(text[w], d[1])
                 PROVE  c[2] - c[1] = d[2] - d[1]
      BY DEF EditIsLocal
    <2>1. /\ text[v] \in Seq(Byte) /\ text[w] \in Seq(Byte) /\ c[1] \in Nat /\ d[1] \in Nat
          /\ c[1] < Len(text[v]) /\ c[2] = CutPoint(text[v], c[1])
          /\ d[1] < Len(text[w]) /\ d[2] = CutPoint(text[w], d[1])
      BY DEF ChunkingInv, ChunkingTypeOK, CutsFollow
    <2>2. CASE /\ c[1] = d[1] /\ c[2] < Len(text[v]) /\ c[2] < Len(text[w])
               /\ SubSeq(text[v], 1, c[2]) = SubSeq(text[w], 1, c[2])
      <3>1. c[2] = CutPoint(text[w], c[1])
        <4>1. /\ c[2] < Len(text[v]) /\ c[2] < Len(text[w])
              /\ SubSeq(text[v], 1, c[2]) = SubSeq(text[w], 1, c[2])
          BY <2>2
        <4> QED
          BY <2>1, <4>1, SamePrefixSameCut, Zenon
      <3> QED
        BY <2>1, <2>2, <3>1
    <2>3. CASE Rest(text[v], c[1]) = Rest(text[w], d[1])
      BY <2>1, <2>3, SameRestSameCut
    <2> QED
      BY <2>2, <2>3
  <1>4. ChunkingSpec => []ChunkingInv
    BY ChunkingInvariant
  <1> QED
    BY <1>1, <1>2, <1>3, <1>4, PTL DEF ChunkingSpec
=============================================================================
