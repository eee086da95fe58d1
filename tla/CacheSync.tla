----------------------------- MODULE CacheSync -----------------------------
(***************************************************************************)
(* One device's content-addressed bundle cache and the processes that work *)
(* on it: `sync_index` (fetch, verify, promote) and `gc`, serialized by    *)
(* the store's mutation lock (edgeproc/bundles/sync.py and cas.py).        *)
(*                                                                         *)
(* Every persistent effect is a step of its own, so that a process may die *)
(* between any two of them.  A file is written by opening an exclusive     *)
(* temporary `<name>.tmp.<pid>` and renaming it.  The origin and the       *)
(* transport may misbehave MaxFaults times, disks included.                *)
(***************************************************************************)
EXTENDS Freshness, Sequences

CONSTANTS
  Pid,            \* process ids that may work on the store
  Chunk, Manifest,
  Release,        \* the pointers the publisher ships, in order
  Foreign,        \* other pointers a misbehaving origin may serve
  ChunksOf,       \* the chunks a manifest refers to
  BundleOf,       \* the bundle id a manifest declares
  Admissible,     \* manifests that parse and respect the file-count cap
  Sound,          \* manifests whose files reassemble from their chunks
  Canonical,      \* manifests whose bytes are the canonical encoding
  Size,           \* compressed size of a chunk
  MaxTotalBytes,  \* aggregate ceiling of one sync
  ExpectedBundle, \* the pinned bundle id, or NoBundle
  PidReuse,       \* may a dead process's id be given to a later process?
  MaxFaults, MaxCrashes, MaxTroubles,  \* bounds: faults, deaths, and both together
  ActiveFile, NoPointer, NoBundle, NoChunk, NoPid,
  Torn            \* what a host would see of an incomplete active release

Pointer == {Release[i] : i \in DOMAIN Release} \cup Foreign

ASSUME PointerAssumption ==
  /\ Release \in Seq(Pointer) /\ Len(Release) > 0
  /\ \A q \in Pointer : /\ q.manifest \in Manifest
                        /\ q.version \in Version
                        /\ q.sequence \in Nat \cup {NoSequence}
                        /\ q.signed \in BOOLEAN
  /\ NoPointer \notin Pointer

ASSUME StoreAssumption ==
  /\ ChunksOf \in [Manifest -> SUBSET Chunk]
  /\ Size \in [Chunk -> Nat]
  /\ MaxTotalBytes \in Nat
  /\ NoChunk \notin Chunk /\ NoPid \notin Pid
  /\ PidReuse \in BOOLEAN

ASSUME BoundAssumption == MaxFaults \in Nat /\ MaxCrashes \in Nat /\ MaxTroubles \in Nat

VARIABLES
  chunks,     \* the file under each chunk's final name: absent, good or bad
  manifests,  \* the manifests in the store
  active,     \* the active pointer
  temp,       \* temp[p]: the files f for which `f.tmp.p` exists
  lock,       \* holder of the mutation lock
  pc, job,    \* where each process is, and its local variables
  published,  \* how many releases the publisher has shipped
  faults, crashes,
  replaced    \* history: every pointer that another one has replaced

store == <<chunks, manifests, active, temp, replaced>>
world == <<published, faults, crashes>>
vars == <<store, lock, pc, job, world>>

File == Chunk \cup Manifest \cup {ActiveFile}

Waiting == {"wait_sync", "wait_gc"}
Syncing == {"pointer", "manifest", "manifest_open", "manifest_replace", "diff",
            "chunks", "chunk_open", "chunk_replace", "chunk_verify",
            "reassemble", "promote", "active_open", "active_replace"}
Collecting == {"gc_load", "gc_chunks", "gc_manifests"}
Locked == Syncing \cup Collecting

Job == [pointer : Pointer \cup {NoPointer}, todo : SUBSET Chunk,
        chunk : Chunk \cup {NoChunk}, body : {"good", "bad"}, spent : Nat]

NoJob == [pointer |-> NoPointer, todo |-> {}, chunk |-> NoChunk,
          body |-> "good", spent |-> 0]

Init ==
  /\ chunks = [c \in Chunk |-> "absent"]
  /\ manifests = {}
  /\ active = NoPointer
  /\ temp = [p \in Pid |-> {}]
  /\ lock = NoPid
  /\ pc = [p \in Pid |-> "idle"]
  /\ job = [p \in Pid |-> NoJob]
  /\ published = 1
  /\ faults = 0
  /\ crashes = 0
  /\ replaced = {}

-----------------------------------------------------------------------------
(***************************************************************************)
(* Common parts of the actions.                                            *)
(***************************************************************************)
Goto(p, next) ==
  /\ pc' = [pc EXCEPT ![p] = next]
  /\ UNCHANGED lock

\* Leaving `with store.mutation()`, by a return or by an exception.
Leave(p) ==
  /\ pc' = [pc EXCEPT ![p] = "idle"]
  /\ job' = [job EXCEPT ![p] = NoJob]
  /\ lock' = NoPid

Disturb ==
  /\ faults < MaxFaults /\ faults + crashes < MaxTroubles
  /\ faults' = faults + 1
  /\ UNCHANGED <<published, crashes>>

\* The first half of _atomic_write: O_EXCL refuses a temporary that is there.
OpenTemp(p, f, next) ==
  /\ IF f \in temp[p]
     THEN Leave(p) /\ UNCHANGED temp
     ELSE /\ temp' = [temp EXCEPT ![p] = @ \cup {f}]
          /\ Goto(p, next)
          /\ UNCHANGED job
  /\ UNCHANGED <<chunks, manifests, active, replaced, world>>

\* The temporary is gone after the second half, renamed or unlinked.
CloseTemp(p, f) == temp' = [temp EXCEPT ![p] = @ \ {f}]

-----------------------------------------------------------------------------
(***************************************************************************)
(* The mutation lock.                                                      *)
(***************************************************************************)
BeginSync(p) ==
  /\ pc[p] = "idle"
  /\ Goto(p, "wait_sync")
  /\ UNCHANGED <<store, job, world>>

BeginGc(p) ==
  /\ pc[p] = "idle"
  /\ Goto(p, "wait_gc")
  /\ UNCHANGED <<store, job, world>>

\* Mutant: the lock excludes nobody.
AcquireShared(p) ==
  /\ pc[p] \in Waiting
  /\ lock' = p
  /\ pc' = [pc EXCEPT ![p] = IF @ = "wait_sync" THEN "pointer" ELSE "gc_load"]
  /\ UNCHANGED <<store, job, world>>

Acquire(p) ==
  /\ pc[p] \in Waiting
  /\ lock = NoPid
  /\ lock' = p
  /\ pc' = [pc EXCEPT ![p] = IF @ = "wait_sync" THEN "pointer" ELSE "gc_load"]
  /\ UNCHANGED <<store, job, world>>

\* Mutant: the wait has no end.
LockTimeoutNever(p) == FALSE

LockTimeout(p) ==
  /\ pc[p] \in Waiting
  /\ lock # NoPid
  /\ Goto(p, "idle")
  /\ UNCHANGED <<store, job, world>>

-----------------------------------------------------------------------------
(***************************************************************************)
(* sync_index, under the lock.                                             *)
(***************************************************************************)
\* What verify_pointer and _check_identity ask of a fetched pointer.
Authentic(q) ==
  /\ q.signed
  /\ ExpectedBundle # NoBundle => q.bundle_id = ExpectedBundle

\* Mutant: the pointer's word for the manifest's identity is taken.
DescribesUnchecked(q) == q.manifest \in Admissible

\* What is asked of the manifest it names, once that is fetched.
Describes(q) ==
  /\ q.manifest \in Admissible
  /\ q.bundle_id # NoBundle => BundleOf[q.manifest] = q.bundle_id

Receive(p, q) ==
  IF Authentic(q)
  THEN job' = [job EXCEPT ![p].pointer = q] /\ Goto(p, "manifest")
  ELSE Leave(p)

\* An honest origin serves the newest release; another may replay an older
\* one or serve a foreign one.
FetchPointer(p) ==
  /\ pc[p] = "pointer"
  /\ \/ Receive(p, Release[published]) /\ UNCHANGED world
     \/ /\ Disturb
        /\ \E q \in {Release[i] : i \in 1..published} \cup Foreign : Receive(p, q)
  /\ UNCHANGED store

\* Bytes that do not hash to the manifest's name end the sync, as Fail does.
FetchManifest(p) ==
  /\ pc[p] = "manifest"
  /\ Goto(p, "manifest_open")
  /\ UNCHANGED <<store, job, world>>

ManifestOpen(p) ==
  /\ pc[p] = "manifest_open"
  /\ OpenTemp(p, job[p].pointer.manifest, "manifest_replace")

\* A full disk fails before the rename, a directory fsync after it.
ManifestReplace(p) ==
  LET m == job[p].pointer.manifest IN
  /\ pc[p] = "manifest_replace"
  /\ CloseTemp(p, m)
  /\ \/ manifests' = manifests \cup {m} /\ Goto(p, "diff") /\ UNCHANGED <<job, world>>
     \/ manifests' \in {manifests, manifests \cup {m}} /\ Disturb /\ Leave(p)
  /\ UNCHANGED <<chunks, active, replaced>>

\* Parse, manifest identity and file cap, then the diff against the cache: a
\* chunk counts as cached when its file exists, whatever is in it.
DiffChunks(p) ==
  LET q == job[p].pointer IN
  /\ pc[p] = "diff"
  /\ IF Describes(q)
     THEN /\ job' = [job EXCEPT ![p].todo = {c \in ChunksOf[q.manifest] : chunks[c] = "absent"}]
          /\ Goto(p, "chunks")
     ELSE Leave(p)
  /\ UNCHANGED <<store, world>>

\* Mutant: the total is compared before the chunk is added.
WithinCapLate(p, c) == job[p].spent <= MaxTotalBytes

WithinCap(p, c) == job[p].spent + Size[c] <= MaxTotalBytes

FetchChunk(p) ==
  /\ pc[p] = "chunks"
  /\ \E c \in job[p].todo :
       \/ /\ WithinCap(p, c)
          /\ \/ job' = [job EXCEPT ![p].chunk = c, ![p].body = "good"] /\ UNCHANGED world
             \/ job' = [job EXCEPT ![p].chunk = c, ![p].body = "bad"] /\ Disturb
          /\ Goto(p, "chunk_open")
       \/ ~WithinCap(p, c) /\ Leave(p) /\ UNCHANGED world
  /\ UNCHANGED store

ChunkOpen(p) ==
  /\ pc[p] = "chunk_open"
  /\ OpenTemp(p, job[p].chunk, "chunk_replace")

\* The fetched bytes get their final name before anything has looked at them.
ChunkReplace(p) ==
  LET c == job[p].chunk
      written == [chunks EXCEPT ![c] = job[p].body]
  IN
  /\ pc[p] = "chunk_replace"
  /\ CloseTemp(p, c)
  /\ \/ chunks' = written /\ Goto(p, "chunk_verify") /\ UNCHANGED <<job, world>>
     \/ chunks' \in {chunks, written} /\ Disturb /\ Leave(p)
  /\ UNCHANGED <<manifests, active, replaced>>

\* Mutant: a chunk that fails its check is left behind.
ChunkVerifyKeeps(p) ==
  LET c == job[p].chunk IN
  /\ pc[p] = "chunk_verify"
  /\ IF chunks[c] = "good"
     THEN /\ job' = [job EXCEPT ![p].todo = @ \ {c}, ![p].chunk = NoChunk,
                                ![p].spent = @ + Size[c]]
          /\ Goto(p, "chunks")
     ELSE Leave(p)
  /\ UNCHANGED <<store, world>>

\* _verify_or_remove: what does not decompress to its name is removed again.
ChunkVerify(p) ==
  LET c == job[p].chunk IN
  /\ pc[p] = "chunk_verify"
  /\ IF chunks[c] = "good"
     THEN /\ job' = [job EXCEPT ![p].todo = @ \ {c}, ![p].chunk = NoChunk,
                                ![p].spent = @ + Size[c]]
          /\ Goto(p, "chunks")
          /\ UNCHANGED chunks
     ELSE chunks' = [chunks EXCEPT ![c] = "absent"] /\ Leave(p)
  /\ UNCHANGED <<manifests, active, temp, replaced, world>>

ChunksFetched(p) ==
  /\ pc[p] = "chunks"
  /\ job[p].todo = {}
  /\ Goto(p, "reassemble")
  /\ UNCHANGED <<store, job, world>>

\* Mutant: a chunk whose file exists is taken as verified.
ReassembleTrusting(p) ==
  LET m == job[p].pointer.manifest IN
  /\ pc[p] = "reassemble"
  /\ IF m \in Sound THEN Goto(p, "promote") /\ UNCHANGED job ELSE Leave(p)
  /\ UNCHANGED <<store, world>>

\* Every chunk is read back and checked, the ones found in the cache too.
Reassemble(p) ==
  LET m == job[p].pointer.manifest IN
  /\ pc[p] = "reassemble"
  /\ IF m \in Sound /\ \A c \in ChunksOf[m] : chunks[c] = "good"
     THEN Goto(p, "promote") /\ UNCHANGED job
     ELSE Leave(p)
  /\ UNCHANGED <<store, world>>

\* promote: _reject_rollback reads the active pointer before the write begins.
RejectRollback(p) ==
  /\ pc[p] = "promote"
  /\ IF active # NoPointer => MayReplace(job[p].pointer, active)
     THEN Goto(p, "active_open") /\ UNCHANGED job
     ELSE Leave(p)
  /\ UNCHANGED <<store, world>>

ActiveOpen(p) ==
  /\ pc[p] = "active_open"
  /\ OpenTemp(p, ActiveFile, "active_replace")

Retire(q) == IF active \in {NoPointer, q} THEN replaced ELSE replaced \cup {active}

ActiveReplace(p) ==
  LET q == job[p].pointer IN
  /\ pc[p] = "active_replace"
  /\ CloseTemp(p, ActiveFile)
  /\ Leave(p)
  /\ \/ active' = q /\ replaced' = Retire(q) /\ UNCHANGED world
     \/ Disturb /\ active' = q /\ replaced' = Retire(q)
     \/ Disturb /\ UNCHANGED <<active, replaced>>
  /\ UNCHANGED <<chunks, manifests>>

-----------------------------------------------------------------------------
(***************************************************************************)
(* gc, under the lock.  Its sweeps also unlink leftover temporaries in the *)
(* chunk and manifest directories; the one of `active` is in neither.      *)
(***************************************************************************)
GcLoad(p) ==
  /\ pc[p] = "gc_load"
  /\ IF active # NoPointer /\ active.manifest \in manifests \cap Canonical
     THEN job' = [job EXCEPT ![p].pointer = active] /\ Goto(p, "gc_chunks")
     ELSE Leave(p)
  /\ UNCHANGED <<store, world>>

\* Mutant: only what verifies is swept.
JunkVerified(p) == {c \in Chunk : chunks[c] = "good"} \ ChunksOf[job[p].pointer.manifest]

Junk(p) == {c \in Chunk : chunks[c] # "absent"} \ ChunksOf[job[p].pointer.manifest]

SweepChunk(p) ==
  /\ pc[p] = "gc_chunks"
  /\ \/ /\ \E c \in Junk(p) : chunks' = [chunks EXCEPT ![c] = "absent"]
        /\ UNCHANGED temp
     \/ /\ \E o \in Pid : \E c \in Chunk \cap temp[o] : CloseTemp(o, c)
        /\ UNCHANGED chunks
  /\ UNCHANGED <<manifests, active, replaced, lock, pc, job, world>>

ChunksSwept(p) ==
  /\ pc[p] = "gc_chunks"
  /\ Junk(p) = {} /\ \A o \in Pid : Chunk \cap temp[o] = {}
  /\ Goto(p, "gc_manifests")
  /\ UNCHANGED <<store, job, world>>

SweepManifest(p) ==
  /\ pc[p] = "gc_manifests"
  /\ \/ /\ \E m \in manifests \ {job[p].pointer.manifest} : manifests' = manifests \ {m}
        /\ UNCHANGED temp
     \/ /\ \E o \in Pid : \E m \in Manifest \cap temp[o] : CloseTemp(o, m)
        /\ UNCHANGED manifests
  /\ UNCHANGED <<chunks, active, replaced, lock, pc, job, world>>

ManifestsSwept(p) ==
  /\ pc[p] = "gc_manifests"
  /\ manifests \subseteq {job[p].pointer.manifest}
  /\ \A o \in Pid : Manifest \cap temp[o] = {}
  /\ Leave(p)
  /\ UNCHANGED <<store, world>>

-----------------------------------------------------------------------------
(***************************************************************************)
(* Failures, and the publisher.                                            *)
(***************************************************************************)
Renaming == {"manifest_replace", "chunk_replace", "active_replace"}

\* A fetch, a read or an unlink raises; nothing between here and the lock's
\* release catches it.  (The write steps have failures of their own.)
Fail(p) ==
  /\ pc[p] \in Locked \ Renaming
  /\ Disturb
  /\ Leave(p)
  /\ UNCHANGED store

\* Mutant: a death frees the lock, whoever holds it.
CrashFreesLock(p) ==
  /\ pc[p] \in Waiting \cup Locked
  /\ crashes < MaxCrashes /\ faults + crashes < MaxTroubles
  /\ crashes' = crashes + 1
  /\ pc' = [pc EXCEPT ![p] = IF PidReuse THEN "idle" ELSE "dead"]
  /\ job' = [job EXCEPT ![p] = NoJob]
  /\ lock' = NoPid
  /\ UNCHANGED <<store, published, faults>>

\* Mutant: a lock that its dead holder keeps.
CrashKeepsLock(p) ==
  /\ pc[p] \in Waiting \cup Locked
  /\ crashes < MaxCrashes /\ faults + crashes < MaxTroubles
  /\ crashes' = crashes + 1
  /\ pc' = [pc EXCEPT ![p] = IF PidReuse THEN "idle" ELSE "dead"]
  /\ job' = [job EXCEPT ![p] = NoJob]
  /\ UNCHANGED <<store, lock, published, faults>>

\* The process is killed: the operating system drops its lock, its files stay.
Crash(p) ==
  /\ pc[p] \in Waiting \cup Locked
  /\ crashes < MaxCrashes /\ faults + crashes < MaxTroubles
  /\ crashes' = crashes + 1
  /\ pc' = [pc EXCEPT ![p] = IF PidReuse THEN "idle" ELSE "dead"]
  /\ job' = [job EXCEPT ![p] = NoJob]
  /\ lock' = IF lock = p THEN NoPid ELSE lock
  /\ UNCHANGED <<store, published, faults>>

Publish ==
  /\ published < Len(Release)
  /\ published' = published + 1
  /\ UNCHANGED <<store, lock, pc, job, faults, crashes>>

-----------------------------------------------------------------------------
SyncStep(p) ==
  \/ FetchPointer(p) \/ FetchManifest(p) \/ ManifestOpen(p) \/ ManifestReplace(p)
  \/ DiffChunks(p) \/ FetchChunk(p) \/ ChunkOpen(p) \/ ChunkReplace(p)
  \/ ChunkVerify(p) \/ ChunksFetched(p) \/ Reassemble(p)
  \/ RejectRollback(p) \/ ActiveOpen(p) \/ ActiveReplace(p)

GcStep(p) ==
  GcLoad(p) \/ SweepChunk(p) \/ ChunksSwept(p) \/ SweepManifest(p) \/ ManifestsSwept(p)

LockStep(p) == Acquire(p) \/ LockTimeout(p)

Step(p) == BeginSync(p) \/ BeginGc(p) \/ LockStep(p) \/ SyncStep(p) \/ GcStep(p)

Next == Publish \/ \E p \in Pid : Step(p) \/ Fail(p) \/ Crash(p)

Spec == Init /\ [][Next]_vars

(***************************************************************************)
(* Inside the lock a process runs on, and a bounded wait ends.  The host   *)
(* retries: it schedules a sync again and again, while the operator's      *)
(* collections come to an end (a wait may expire behind a collection, and  *)
(* the code's polled lock has no queue).                                   *)
(***************************************************************************)
Fairness ==
  \A p \in Pid : WF_vars(SyncStep(p) \/ GcStep(p)) /\ WF_vars(LockStep(p))

Retries ==
  /\ \A p \in Pid : WF_vars(BeginSync(p))
  /\ <>[][\A p \in Pid : ~BeginGc(p)]_vars

FairSpec == Spec /\ Fairness /\ Retries

-----------------------------------------------------------------------------
(***************************************************************************)
(* Properties.                                                             *)
(***************************************************************************)
\* Every variable keeps to its range, and no sync puts more bytes into the
\* store than its aggregate ceiling (_fetch_missing).
TypeInvariant ==
  /\ chunks \in [Chunk -> {"absent", "good", "bad"}]
  /\ manifests \subseteq Manifest
  /\ active \in Pointer \cup {NoPointer}
  /\ temp \in [Pid -> SUBSET File]
  /\ lock \in Pid \cup {NoPid}
  /\ pc \in [Pid -> {"idle", "dead"} \cup Waiting \cup Locked]
  /\ job \in [Pid -> Job]
  /\ \A p \in Pid : job[p].spent <= MaxTotalBytes
  /\ published \in DOMAIN Release
  /\ faults \in 0..MaxFaults
  /\ crashes \in 0..MaxCrashes
  /\ replaced \subseteq Pointer

Readable(q) ==
  /\ q.manifest \in manifests
  /\ \A c \in ChunksOf[q.manifest] : chunks[c] = "good"

\* The active release can be read in full at every moment: through updates,
\* failed syncs, collections and deaths of processes (sync_index, gc).
ActiveComplete == active # NoPointer => Readable(active)

\* A pointer that was replaced is never active again, whatever mix of
\* sequences and versions the releases carry (_reject_rollback).
NeverReactivated == active \notin replaced

Planned == {"chunks", "chunk_open", "chunk_replace", "chunk_verify",
            "reassemble", "promote", "active_open", "active_replace"}

\* What a sync has found or verified in the store stays there until it has
\* promoted: no collection and no other sync takes it away (sync_index runs
\* as one transaction under the mutation lock).
CacheStableUnderSync ==
  [][\A p \in Pid :
       LET m == job[p].pointer.manifest IN
       pc[p] \in Planned /\ pc'[p] \in Planned =>
         /\ m \in manifests'
         /\ \A c \in ChunksOf[m] : chunks[c] = "good" => chunks'[c] = "good"]_vars

\* A collection that ran to its end leaves the active release and nothing
\* else, in the state it is in at that end (gc).
GcLeavesExactlyActive ==
  [][\A p \in Pid :
       ManifestsSwept(p) =>
         /\ manifests' = {active'.manifest}
         /\ {c \in Chunk : chunks'[c] # "absent"} = ChunksOf[active'.manifest]
         /\ \A o \in Pid : temp'[o] \subseteq {ActiveFile}]_vars

Trusted ==
  {q \in Pointer :
     /\ q.signed
     /\ q.manifest \in Admissible \cap Sound
     /\ ExpectedBundle # NoBundle => BundleOf[q.manifest] = ExpectedBundle}

Installed == IF active = NoPointer \/ Readable(active) THEN active ELSE Torn

Promise == INSTANCE Activation WITH Nothing <- NoPointer, installed <- Installed

\* The whole cache, seen by its host, is one register that signed, sound and
\* provably fresher releases of the pinned bundle are installed into in one
\* step (Activation).
ImplementsActivation == Promise!Spec

\* Once a release is the newest one, the device installs it, unless a newer
\* one is shipped meanwhile (retries of sync_index).
EventuallyCurrent ==
  \A n \in DOMAIN Release :
    published = n ~> (active = Release[n] \/ published > n)

\* No process waits for the mutation lock for ever (mutation's timeout).
WaitEnds == \A p \in Pid : pc[p] \in Waiting ~> pc[p] \notin Waiting

\* A release with a sequence that no comparison proves stale can be promoted
\* (OPERATIONS.md: binding a sequence keeps a publisher shipping).
SequencedReleaseShips ==
  \A n \in 1..published :
    LET q == Release[n] IN
    /\ active # NoPointer
    /\ q.sequence # NoSequence /\ q.sequence > active.sequence
    /\ VersionVerdict(q.version, active.version) # "stale"
    => MayReplace(q, active)

\* When nobody is inside the lock, what lies under a chunk's name is that
\* chunk (put_chunk_compressed: verified, or removed).
OnlyVerifiedChunksRemain ==
  lock = NoPid => \A c \in Chunk : chunks[c] # "bad"

-----------------------------------------------------------------------------
(***************************************************************************)
(* The inductive invariant.  Whoever is inside the lock holds it, and its  *)
(* local knowledge is still true of the store: that is all that makes      *)
(* ActiveComplete and NeverReactivated survive each step.                  *)
(***************************************************************************)
LockHeld(p) == lock = p

PointerKnown(p) ==
  /\ pc[p] \notin {"pointer", "gc_load"} => job[p].pointer \in Pointer
  /\ pc[p] \in Syncing \ {"pointer"} => Authentic(job[p].pointer)

PlanCurrent(p) ==
  /\ pc[p] \in {"diff"} \cup Planned => job[p].pointer.manifest \in manifests
  /\ pc[p] \in Planned =>
       /\ Describes(job[p].pointer)
       /\ \A c \in job[p].todo :
            chunks[c] = "absent" \/ (pc[p] = "chunk_verify" /\ c = job[p].chunk)

ChunkAllowed(p) ==
  pc[p] \in {"chunk_open", "chunk_replace", "chunk_verify"} =>
    job[p].chunk \in job[p].todo /\ WithinCap(p, job[p].chunk)

CandidateReady(p) ==
  /\ pc[p] \in {"promote", "active_open", "active_replace"} =>
       Readable(job[p].pointer) /\ job[p].pointer.manifest \in Sound
  /\ pc[p] \in {"active_open", "active_replace"} =>
       (active # NoPointer => MayReplace(job[p].pointer, active))

KeepsActive(p) == pc[p] \in {"gc_chunks", "gc_manifests"} => job[p].pointer = active

Inside(p) ==
  pc[p] \in Locked =>
    /\ LockHeld(p) /\ PointerKnown(p) /\ PlanCurrent(p)
    /\ ChunkAllowed(p) /\ CandidateReady(p) /\ KeepsActive(p)

ActiveClimbed == \A r \in replaced : active # NoPointer /\ Advances(r, active)

\* What every process inside the lock knows of the store stays true, and the
\* active pointer has climbed past every one it replaced.
IndInv ==
  /\ TypeInvariant
  /\ ActiveComplete
  /\ ActiveClimbed
  /\ \A p \in Pid : Inside(p)
=============================================================================
