-------------------------- MODULE CacheSyncProofs --------------------------
(***************************************************************************)
(* Proofs about CacheSync for every set of processes, chunks and releases, *)
(* and every bound on failures and deaths.  IndInv is inductive: a process *)
(* inside the lock is alone there, so a step disturbs no other process's   *)
(* knowledge of the store, and what the stepping process knows carries its *)
(* own step.                                                               *)
(***************************************************************************)
EXTENDS CacheSync, TLAPS

-----------------------------------------------------------------------------
(***************************************************************************)
(* The order behind the anti-rollback rule: every pointer that may replace *)
(* another one is higher in it, and the order has no cycle, so no chain of *)
(* replacements comes back to a pointer it left.                           *)
(***************************************************************************)

\* A pointer as far as freshness looks at it, whatever else it carries.
IsPointer(q) == q.version \in Version /\ q.sequence \in Nat \cup {NoSequence}

\* A replacement that is not the identical pointer climbs: the two verdicts
\* of _freshness_refusal together leave no other way (cas.py).
THEOREM ReplacementAdvances ==
  ASSUME NEW old, NEW new, IsPointer(old), IsPointer(new),
         MayReplace(new, old), new # old
  PROVE  Advances(old, new)
<1> DEFINE s == SequenceVerdict(new, old)
           v == VersionVerdict(new.version, old.version)
<1>1. FreshnessProved(s, v)
  BY DEF MayReplace
<1>2. /\ Rank[old.version] \in Nat \cup {Unparsable}
      /\ Rank[new.version] \in Nat \cup {Unparsable}
  BY RankAssumption DEF IsPointer
<1>3. CASE old.sequence = NoSequence
  <2>1. s = "undecidable"
    BY <1>3 DEF SequenceVerdict
  <2>2. v = "fresh"
    BY <1>1, <2>1 DEF FreshnessProved
  <2>3. Rank[old.version] < Rank[new.version]
    BY <1>2, <2>2 DEF VersionVerdict, Unparsable
  <2>4. QED
    BY <1>3, <2>3 DEF Advances, IsPointer, NoSequence
<1>4. CASE old.sequence # NoSequence
  <2>1. IsFreshSequence(new, old)
    BY <1>1, <1>4 DEF FreshnessProved, SequenceVerdict
  <2>2. QED
    BY <1>4, <2>1 DEF IsFreshSequence, Advances
<1>5. QED
  BY <1>3, <1>4

\* Climbing twice is climbing.
THEOREM AdvancesTransitive ==
  ASSUME NEW a, NEW b, NEW c, IsPointer(a), IsPointer(b), IsPointer(c),
         Advances(a, b), Advances(b, c)
  PROVE  Advances(a, c)
<1>1. /\ Rank[a.version] \in Int
      /\ Rank[b.version] \in Int
      /\ Rank[c.version] \in Int
  BY RankAssumption DEF IsPointer, Unparsable
<1>2. QED
  BY <1>1 DEF Advances, IsPointer, NoSequence

\* No pointer is above itself.
THEOREM AdvancesIrreflexive ==
  ASSUME NEW a, IsPointer(a)
  PROVE  ~Advances(a, a)
<1>1. Rank[a.version] \in Int
  BY RankAssumption DEF IsPointer, Unparsable
<1>2. QED
  BY <1>1 DEF Advances, IsPointer, NoSequence

-----------------------------------------------------------------------------
(***************************************************************************)
(* The process inside the lock.                                            *)
(***************************************************************************)

USE DEF Waiting, Syncing, Collecting, Locked, Planned, Renaming

\* Pointers have the fields the rules compare, and none is the empty pointer.
LEMMA PointerFacts ==
  ASSUME NEW q \in Pointer
  PROVE  IsPointer(q) /\ q.manifest \in Manifest /\ q # NoPointer
BY PointerAssumption DEF IsPointer

\* At most one process is inside the lock.
LEMMA Alone ==
  ASSUME IndInv, NEW p \in Pid, pc[p] \in Locked, NEW q \in Pid, q # p
  PROVE  pc[q] \notin Locked
BY DEF IndInv, Inside, LockHeld

\* A step of the process inside the lock has to answer for that process only.
LEMMA OthersOutside ==
  ASSUME IndInv, NEW p \in Pid, pc[p] \in Locked,
         \A q \in Pid \ {p} : pc'[q] = pc[q],
         Inside(p)'
  PROVE  \A q \in Pid : Inside(q)'
<1> SUFFICES ASSUME NEW q \in Pid, q # p
             PROVE  Inside(q)'
  OBVIOUS
<1>1. pc'[q] \notin Locked
  BY Alone
<1>2. QED
  BY <1>1 DEF Inside

\* A process that enters the lock starts with typed, empty locals.
LEMMA NoJobTyped == NoJob \in Job /\ NoJob.spent = 0
BY DEF NoJob, Job

\* Other locals in place of a process's, within the ceiling, are its locals.
LEMMA JobTyped ==
  ASSUME TypeInvariant, NEW p \in Pid, NEW new \in Job, new.spent <= MaxTotalBytes,
         job' = [job EXCEPT ![p] = new]
  PROVE  /\ job' \in [Pid -> Job] /\ job'[p] = new
         /\ \A o \in Pid : job'[o].spent <= MaxTotalBytes
BY DEF TypeInvariant

\* Leaving the lock gives up every claim, and only its own.
LEMMA LeaveTyped ==
  ASSUME TypeInvariant, NEW p \in Pid, Leave(p)
  PROVE  /\ pc' \in [Pid -> {"idle", "dead"} \cup Waiting \cup Locked]
         /\ job' \in [Pid -> Job]
         /\ \A q \in Pid : job'[q].spent <= MaxTotalBytes
         /\ lock' \in Pid \cup {NoPid}
         /\ \A q \in Pid \ {p} : pc'[q] = pc[q]
         /\ Inside(p)'
BY NoJobTyped, StoreAssumption DEF TypeInvariant, Leave, Inside

\* Moving to the next place inside the lock keeps pc typed.
LEMMA GotoTyped ==
  ASSUME TypeInvariant, NEW p \in Pid,
         NEW next \in {"idle", "dead"} \cup Waiting \cup Locked, Goto(p, next)
  PROVE  /\ pc' \in [Pid -> {"idle", "dead"} \cup Waiting \cup Locked]
         /\ lock' \in Pid \cup {NoPid}
         /\ pc'[p] = next
         /\ \A q \in Pid \ {p} : pc'[q] = pc[q]
BY DEF TypeInvariant, Goto

\* A fault stays within its bound and changes nothing else of the world.
LEMMA DisturbTyped ==
  ASSUME TypeInvariant, Disturb
  PROVE  /\ published' \in DOMAIN Release
         /\ faults' \in 0..MaxFaults
         /\ crashes' \in 0..MaxCrashes
BY BoundAssumption DEF TypeInvariant, Disturb

\* Untouched files, pointer and history stay complete and climbed.
LEMMA StoreUnchanged ==
  ASSUME IndInv, UNCHANGED <<chunks, manifests, active, replaced>>
  PROVE  ActiveComplete' /\ ActiveClimbed'
BY DEF IndInv, ActiveComplete, ActiveClimbed, Readable

\* A fresh store satisfies the invariant (FilesystemCacheStore.__init__).
LEMMA InitHolds == Init => IndInv
<1> SUFFICES ASSUME Init
             PROVE  IndInv
  OBVIOUS
<1>1. 1 \in DOMAIN Release
  BY PointerAssumption
<1>2. TypeInvariant
  BY <1>1, NoJobTyped, StoreAssumption, BoundAssumption DEF Init, TypeInvariant
<1>3. ActiveComplete /\ ActiveClimbed
  BY DEF Init, ActiveComplete, ActiveClimbed
<1>4. \A p \in Pid : Inside(p)
  BY DEF Init, Inside
<1>5. QED
  BY <1>2, <1>3, <1>4 DEF IndInv

-----------------------------------------------------------------------------
(***************************************************************************)
(* The lock.                                                               *)
(***************************************************************************)
LEMMA LockSteps ==
  ASSUME IndInv, NEW p \in Pid,
         BeginSync(p) \/ BeginGc(p) \/ Acquire(p) \/ LockTimeout(p)
  PROVE  IndInv'
<1>1. TypeInvariant'
  BY DEF IndInv, TypeInvariant, BeginSync, BeginGc, Acquire, LockTimeout, Goto, store, world
<1>2. ActiveComplete' /\ ActiveClimbed'
  BY StoreUnchanged DEF BeginSync, BeginGc, Acquire, LockTimeout, store
<1>3. ASSUME NEW q \in Pid
      PROVE  Inside(q)'
  <2>1. CASE q = p
    BY <2>1 DEF IndInv, TypeInvariant, BeginSync, BeginGc, Acquire, LockTimeout, Goto, store,
       Inside, LockHeld, PointerKnown, PlanCurrent, ChunkAllowed, CandidateReady, KeepsActive
  <2>2. CASE q # p /\ pc[q] \in Locked
    <3>1. lock = q /\ NoPid \notin Pid
      BY <2>2, StoreAssumption DEF IndInv, Inside, LockHeld
    <3>2. ~Acquire(p)
      BY <3>1 DEF Acquire
    <3>3. UNCHANGED <<chunks, manifests, active, lock, job>> /\ pc'[q] = pc[q]
      BY <2>2, <3>2 DEF IndInv, TypeInvariant, BeginSync, BeginGc, LockTimeout, Goto, store
    <3>4. QED
      BY <3>3 DEF IndInv, Inside, LockHeld, PointerKnown, PlanCurrent, ChunkAllowed,
         WithinCap, CandidateReady, Readable, KeepsActive
  <2>3. CASE q # p /\ pc[q] \notin Locked
    BY <2>3 DEF IndInv, TypeInvariant, BeginSync, BeginGc, Acquire, LockTimeout, Goto, Inside
  <2>4. QED
    BY <2>1, <2>2, <2>3
<1>4. QED
  BY <1>1, <1>2, <1>3 DEF IndInv

-----------------------------------------------------------------------------
(***************************************************************************)
(* Steps inside the lock.                                                  *)
(***************************************************************************)
\* What such a step has to establish.
LEMMA StepInside ==
  ASSUME IndInv, NEW p \in Pid, pc[p] \in Locked,
         TypeInvariant', ActiveComplete', ActiveClimbed',
         \A q \in Pid \ {p} : pc'[q] = pc[q],
         Inside(p)'
  PROVE  IndInv'
BY OthersOutside DEF IndInv

\* A step that leaves the lock and the files alone, or fails on the way.
LEMMA LeaveStep ==
  ASSUME IndInv, NEW p \in Pid, pc[p] \in Locked, Leave(p),
         UNCHANGED store,
         UNCHANGED world \/ Disturb
  PROVE  IndInv'
<1>1. TypeInvariant'
  BY LeaveTyped, DisturbTyped DEF IndInv, TypeInvariant, store, world
<1>2. ActiveComplete' /\ ActiveClimbed'
  BY StoreUnchanged DEF store
<1>3. QED
  BY <1>1, <1>2, LeaveTyped, StepInside DEF IndInv

\* O_EXCL refuses, or there is one more temporary and the write goes on.
LEMMA OpenTempStep ==
  ASSUME IndInv, NEW p \in Pid, pc[p] \in Locked, NEW f \in File,
         NEW next \in Renaming,
         OpenTemp(p, f, next),
         \/ pc[p] = "manifest_open" /\ next = "manifest_replace"
         \/ pc[p] = "chunk_open" /\ next = "chunk_replace"
         \/ pc[p] = "active_open" /\ next = "active_replace"
  PROVE  IndInv'
<1>1. CASE f \in temp[p]
  BY <1>1, LeaveStep DEF OpenTemp, store, world
<1>2. CASE f \notin temp[p]
  <2>1. /\ temp' = [temp EXCEPT ![p] = @ \cup {f}]
        /\ Goto(p, next)
        /\ UNCHANGED <<job, chunks, manifests, active, replaced, published, faults, crashes>>
    BY <1>2 DEF OpenTemp, world
  <2>2. TypeInvariant'
    BY <2>1, GotoTyped DEF IndInv, TypeInvariant
  <2>3. ActiveComplete' /\ ActiveClimbed'
    BY <2>1, StoreUnchanged
  <2>4. Inside(p)'
    BY <2>1, GotoTyped DEF IndInv, Inside, Goto, LockHeld, PointerKnown, PlanCurrent,
       ChunkAllowed, WithinCap, CandidateReady, Readable, KeepsActive
  <2>5. QED
    BY <2>1, <2>2, <2>3, <2>4, GotoTyped, StepInside DEF IndInv
<1>3. QED
  BY <1>1, <1>2

\* Steps that only move on, perhaps with new local values.
LEMMA QuietStep ==
  ASSUME IndInv, NEW p \in Pid, pc[p] \in Locked,
         NEW next \in Locked, Goto(p, next),
         UNCHANGED store, UNCHANGED world \/ Disturb,
         job' \in [Pid -> Job],
         \A q \in Pid : job'[q].spent <= MaxTotalBytes,
         Inside(p)'
  PROVE  IndInv'
<1>1. TypeInvariant'
  BY GotoTyped, DisturbTyped DEF IndInv, TypeInvariant, store, world
<1>2. ActiveComplete' /\ ActiveClimbed'
  BY StoreUnchanged DEF store
<1>3. QED
  BY <1>1, <1>2, GotoTyped, StepInside DEF IndInv

-----------------------------------------------------------------------------
(***************************************************************************)
(* sync_index.                                                             *)
(***************************************************************************)
LEMMA FetchPointerStep ==
  ASSUME IndInv, NEW p \in Pid, FetchPointer(p)
  PROVE  IndInv'
<1>1. PICK q \in Pointer : Receive(p, q) /\ (UNCHANGED world \/ Disturb)
  <2>1. \A i \in 1..published : i \in DOMAIN Release
    BY PointerAssumption DEF IndInv, TypeInvariant
  <2>2. published \in DOMAIN Release
    BY DEF IndInv, TypeInvariant
  <2>3. QED
    BY <2>1, <2>2 DEF FetchPointer, Pointer
<1>2. pc[p] = "pointer" /\ UNCHANGED store
  BY DEF FetchPointer
<1>3. CASE Authentic(q)
  <2>1. job' = [job EXCEPT ![p].pointer = q] /\ Goto(p, "manifest")
    BY <1>1, <1>3 DEF Receive
  <2>2. /\ job' \in [Pid -> Job]
        /\ \A o \in Pid : job'[o].spent <= MaxTotalBytes
        /\ job'[p].pointer = q
    <3> DEFINE new == [job[p] EXCEPT !.pointer = q]
    <3>1. job[p] \in Job /\ job[p].spent <= MaxTotalBytes
      BY DEF IndInv, TypeInvariant
    <3>2. new \in Job /\ new.pointer = q /\ new.spent = job[p].spent
      BY <3>1 DEF Job
    <3>3. job' = [job EXCEPT ![p] = new]
      BY <2>1
    <3> HIDE DEF new
    <3>4. QED
      BY <3>1, <3>2, <3>3, JobTyped DEF IndInv
  <2>3. Inside(p)'
    <3>1. pc'[p] = "manifest" /\ lock' = p
      BY <1>2, <2>1, GotoTyped DEF IndInv, Inside, LockHeld, Goto
    <3>2. Authentic(q)' <=> Authentic(q)
      BY DEF Authentic
    <3>3. QED
      BY <1>3, <2>2, <3>1, <3>2 DEF Inside, LockHeld, PointerKnown,
         Authentic, PlanCurrent, ChunkAllowed, CandidateReady, KeepsActive
  <2>4. QED
    BY <1>1, <1>2, <2>1, <2>2, <2>3, QuietStep
<1>4. CASE ~Authentic(q)
  BY <1>1, <1>2, <1>4, LeaveStep DEF Receive
<1>5. QED
  BY <1>3, <1>4

\* Fetching the manifest's bytes (_fetch_manifest).
LEMMA FetchManifestStep ==
  ASSUME IndInv, NEW p \in Pid, FetchManifest(p)
  PROVE  IndInv'
<1>1. Inside(p)'
  BY GotoTyped DEF IndInv, FetchManifest, Inside, Goto, LockHeld, PointerKnown,
     PlanCurrent, ChunkAllowed, CandidateReady, KeepsActive
<1>2. QED
  BY <1>1, QuietStep DEF FetchManifest, IndInv, TypeInvariant

\* Opening the three kinds of temporaries (_atomic_write, first half).
LEMMA OpenSteps ==
  ASSUME IndInv, NEW p \in Pid, ManifestOpen(p) \/ ChunkOpen(p) \/ ActiveOpen(p)
  PROVE  IndInv'
<1>1. CASE ManifestOpen(p)
  <2>1. job[p].pointer \in Pointer
    BY <1>1 DEF ManifestOpen, IndInv, Inside, PointerKnown
  <2>2. job[p].pointer.manifest \in File
    BY <2>1, PointerFacts DEF File
  <2>3. QED
    BY <1>1, <2>2, OpenTempStep DEF ManifestOpen
<1>2. CASE ChunkOpen(p)
  <2>1. job[p].chunk \in File
    BY <1>2 DEF ChunkOpen, IndInv, Inside, ChunkAllowed, TypeInvariant, Job, File
  <2>2. QED
    BY <1>2, <2>1, OpenTempStep DEF ChunkOpen
<1>3. CASE ActiveOpen(p)
  BY <1>3, OpenTempStep DEF ActiveOpen, File
<1>4. QED
  BY <1>1, <1>2, <1>3

\* A closed temporary leaves temp typed.
LEMMA CloseTempTyped ==
  ASSUME TypeInvariant, NEW p \in Pid, NEW f, CloseTemp(p, f)
  PROVE  temp' \in [Pid -> SUBSET File]
BY DEF TypeInvariant, CloseTemp

\* Renaming the manifest, or failing around the rename (put_manifest).
LEMMA ManifestReplaceStep ==
  ASSUME IndInv, NEW p \in Pid, ManifestReplace(p)
  PROVE  IndInv'
<1> DEFINE m == job[p].pointer.manifest
<1>1. /\ pc[p] = "manifest_replace" /\ CloseTemp(p, m)
      /\ UNCHANGED <<chunks, active, replaced>>
      /\ manifests' \in {manifests, manifests \cup {m}}
  BY DEF ManifestReplace
<1>2. m \in Manifest
  BY <1>1, PointerFacts DEF IndInv, Inside, PointerKnown
<1>3. ActiveComplete' /\ ActiveClimbed'
  BY <1>1 DEF IndInv, ActiveComplete, ActiveClimbed, Readable
<1>4. CASE manifests' = manifests \cup {m} /\ Goto(p, "diff") /\ UNCHANGED <<job, world>>
  <2>1. TypeInvariant'
    BY <1>1, <1>2, <1>4, GotoTyped, CloseTempTyped DEF IndInv, TypeInvariant, world
  <2>2. Inside(p)'
    BY <1>1, <1>4, GotoTyped DEF IndInv, Inside, Goto, LockHeld, PointerKnown,
       PlanCurrent, ChunkAllowed, CandidateReady, KeepsActive
  <2>3. QED
    BY <1>1, <1>3, <1>4, <2>1, <2>2, GotoTyped, StepInside DEF IndInv
<1>5. CASE Disturb /\ Leave(p)
  <2>1. TypeInvariant'
    BY <1>1, <1>2, <1>5, LeaveTyped, DisturbTyped, CloseTempTyped DEF IndInv, TypeInvariant
  <2>2. QED
    BY <1>1, <1>3, <1>5, <2>1, LeaveTyped, StepInside DEF IndInv
<1>6. QED
  BY <1>4, <1>5 DEF ManifestReplace

\* The diff establishes what the rest of the sync relies on (_missing_chunks).
LEMMA DiffChunksStep ==
  ASSUME IndInv, NEW p \in Pid, DiffChunks(p)
  PROVE  IndInv'
<1> DEFINE q == job[p].pointer
           missing == {c \in ChunksOf[q.manifest] : chunks[c] = "absent"}
<1>1. pc[p] = "diff" /\ UNCHANGED <<store, world>> /\ q \in Pointer
  BY DEF DiffChunks, IndInv, Inside, PointerKnown
<1>2. CASE Describes(q)
  <2>1. job' = [job EXCEPT ![p].todo = missing] /\ Goto(p, "chunks")
    BY <1>2 DEF DiffChunks
  <2>2. missing \in SUBSET Chunk
    BY <1>1, PointerFacts, StoreAssumption
  <2>3. job' \in [Pid -> Job] /\ \A o \in Pid : job'[o].spent <= MaxTotalBytes
    BY <2>1, <2>2 DEF IndInv, TypeInvariant, Job
  <2>4. job'[p].todo = missing /\ job'[p].pointer = q
    BY <2>1 DEF IndInv, TypeInvariant, Job
  <2>5. Inside(p)'
    <3>1. pc'[p] = "chunks" /\ lock' = lock /\ UNCHANGED <<chunks, manifests, active>>
      BY <1>1, <2>1, GotoTyped DEF Goto, store, IndInv
    <3>2. lock = p /\ Authentic(q) /\ q.manifest \in manifests
      BY <1>1 DEF IndInv, Inside, LockHeld, PointerKnown, PlanCurrent
    <3>3. PlanCurrent(p)'
      BY <1>2, <2>4, <3>1, <3>2 DEF PlanCurrent, Describes
    <3>4. QED
      BY <1>1, <2>4, <3>1, <3>2, <3>3 DEF Inside, LockHeld, PointerKnown, Authentic,
         ChunkAllowed, CandidateReady, KeepsActive
  <2>6. QED
    BY <1>1, <2>1, <2>3, <2>5, QuietStep
<1>3. CASE ~Describes(q)
  BY <1>1, <1>3, LeaveStep DEF DiffChunks
<1>4. QED
  BY <1>2, <1>3

\* A fetched chunk is a missing one and fits under the ceiling (_fetch_missing).
LEMMA FetchChunkStep ==
  ASSUME IndInv, NEW p \in Pid, FetchChunk(p)
  PROVE  IndInv'
<1>1. PICK c \in job[p].todo :
        \/ /\ WithinCap(p, c)
           /\ \E b \in {"good", "bad"} : job' = [job EXCEPT ![p].chunk = c, ![p].body = b]
           /\ UNCHANGED world \/ Disturb
           /\ Goto(p, "chunk_open")
        \/ Leave(p) /\ UNCHANGED world
  BY DEF FetchChunk
<1>2. pc[p] = "chunks" /\ UNCHANGED store
  BY DEF FetchChunk
<1>3. c \in Chunk
  BY DEF IndInv, TypeInvariant, Job
<1>4. CASE Leave(p) /\ UNCHANGED world
  BY <1>2, <1>4, LeaveStep
<1>5. ASSUME WithinCap(p, c), NEW b \in {"good", "bad"},
             job' = [job EXCEPT ![p].chunk = c, ![p].body = b],
             UNCHANGED world \/ Disturb, Goto(p, "chunk_open")
      PROVE  IndInv'
  <2>1. /\ job' \in [Pid -> Job]
        /\ \A o \in Pid : job'[o].spent <= MaxTotalBytes
        /\ job'[p].chunk = c
        /\ job'[p].todo = job[p].todo
        /\ job'[p].pointer = job[p].pointer
        /\ job'[p].spent = job[p].spent
    <3> DEFINE new == [job[p] EXCEPT !.chunk = c, !.body = b]
    <3>1. job[p] \in Job /\ job[p].spent <= MaxTotalBytes
      BY DEF IndInv, TypeInvariant
    <3>2. /\ new \in Job /\ new.chunk = c /\ new.todo = job[p].todo
          /\ new.pointer = job[p].pointer /\ new.spent = job[p].spent
      BY <1>3, <3>1 DEF Job
    <3>3. job' = [job EXCEPT ![p] = new]
      BY <1>5
    <3> HIDE DEF new
    <3>4. QED
      BY <3>1, <3>2, <3>3, JobTyped DEF IndInv
  <2>2. Inside(p)'
    <3>1. pc'[p] = "chunk_open" /\ lock' = lock /\ UNCHANGED <<chunks, manifests, active>>
      BY <1>2, <1>5, GotoTyped DEF Goto, store, IndInv
    <3>2. LockHeld(p) /\ PointerKnown(p) /\ PlanCurrent(p)
      BY <1>2 DEF IndInv, Inside
    <3>3. PlanCurrent(p)'
      BY <1>2, <2>1, <3>1, <3>2 DEF PlanCurrent, Describes
    <3>4. ChunkAllowed(p)'
      BY <1>5, <2>1 DEF ChunkAllowed, WithinCap
    <3>5. QED
      BY <1>2, <2>1, <3>1, <3>2, <3>3, <3>4 DEF Inside, LockHeld, PointerKnown, Authentic,
         CandidateReady, KeepsActive
  <2>3. QED
    BY <1>2, <1>5, <2>1, <2>2, QuietStep
<1>6. QED
  BY <1>1, <1>4, <1>5

\* A chunk that is still to be fetched is in no release that is complete, so
\* that its file may be written, and removed again, without harm.
LEMMA ChunkReplaceStep ==
  ASSUME IndInv, NEW p \in Pid, ChunkReplace(p)
  PROVE  IndInv'
<1> DEFINE c == job[p].chunk
           written == [chunks EXCEPT ![c] = job[p].body]
<1>1. /\ pc[p] = "chunk_replace" /\ CloseTemp(p, c)
      /\ UNCHANGED <<manifests, active, replaced>>
      /\ chunks' \in {chunks, written}
  BY DEF ChunkReplace
<1>2. chunks[c] = "absent" /\ c \in job[p].todo /\ c \in Chunk
  BY <1>1 DEF IndInv, TypeInvariant, Job, Inside, ChunkAllowed, PlanCurrent
<1>3. job[p].body \in {"good", "bad"}
  BY DEF IndInv, TypeInvariant, Job
<1>4. /\ chunks' \in [Chunk -> {"absent", "good", "bad"}]
      /\ \A d \in Chunk \ {c} : chunks'[d] = chunks[d]
  BY <1>1, <1>3 DEF IndInv, TypeInvariant
<1>5. ActiveComplete' /\ ActiveClimbed'
  <2>1. ActiveClimbed'
    BY <1>1 DEF IndInv, ActiveClimbed
  <2>2. ASSUME active # NoPointer
        PROVE  Readable(active)'
    <3>1. Readable(active) /\ ChunksOf[active.manifest] \subseteq Chunk
      BY <2>2, PointerFacts, StoreAssumption DEF IndInv, TypeInvariant, ActiveComplete
    <3>2. c \notin ChunksOf[active.manifest]
      BY <1>2, <3>1 DEF Readable
    <3>3. QED
      BY <1>1, <1>4, <3>1, <3>2 DEF Readable
  <2>3. QED
    BY <1>1, <2>1, <2>2 DEF ActiveComplete
<1>6. CASE Goto(p, "chunk_verify") /\ UNCHANGED <<job, world>>
  <2>1. TypeInvariant'
    BY <1>1, <1>4, <1>6, GotoTyped, CloseTempTyped DEF IndInv, TypeInvariant, world
  <2>2. PlanCurrent(p)'
    BY <1>1, <1>4, <1>6, GotoTyped DEF IndInv, TypeInvariant, Job, Inside, PlanCurrent, Describes
  <2>3. Inside(p)'
    BY <1>1, <1>6, <2>2, GotoTyped DEF IndInv, Inside, Goto, LockHeld, PointerKnown,
       Authentic, ChunkAllowed, WithinCap, CandidateReady, KeepsActive
  <2>4. QED
    BY <1>1, <1>5, <1>6, <2>1, <2>3, GotoTyped, StepInside DEF IndInv
<1>7. CASE Disturb /\ Leave(p)
  <2>1. TypeInvariant'
    BY <1>1, <1>4, <1>7, LeaveTyped, DisturbTyped, CloseTempTyped DEF IndInv, TypeInvariant
  <2>2. QED
    BY <1>1, <1>5, <1>7, <2>1, LeaveTyped, StepInside DEF IndInv
<1>8. QED
  BY <1>6, <1>7 DEF ChunkReplace

\* A chunk is either verified and counted, or removed (_verify_or_remove).
LEMMA ChunkVerifyStep ==
  ASSUME IndInv, NEW p \in Pid, ChunkVerify(p)
  PROVE  IndInv'
<1> DEFINE c == job[p].chunk
<1>1. /\ pc[p] = "chunk_verify"
      /\ UNCHANGED <<manifests, active, temp, replaced, world>>
  BY DEF ChunkVerify
<1>2. c \in job[p].todo /\ c \in Chunk /\ WithinCap(p, c)
  <2>1. job[p] \in Job /\ ChunkAllowed(p)
    BY <1>1 DEF IndInv, TypeInvariant, Inside
  <2>2. c \in job[p].todo /\ WithinCap(p, c)
    BY <1>1, <2>1 DEF ChunkAllowed
  <2>3. QED
    BY <2>1, <2>2 DEF Job
<1>3. CASE chunks[c] = "good"
  <2> DEFINE spent == job[p].spent + Size[c]
  <2>1. /\ job' = [job EXCEPT ![p].todo = @ \ {c}, ![p].chunk = NoChunk, ![p].spent = spent]
        /\ Goto(p, "chunks") /\ UNCHANGED chunks
    BY <1>3 DEF ChunkVerify
  <2>2. spent \in Nat /\ spent <= MaxTotalBytes
    BY <1>2, StoreAssumption DEF IndInv, TypeInvariant, Job, WithinCap
  <2>3. /\ job[p] \in Job
        /\ job' = [job EXCEPT ![p] =
                     [@ EXCEPT !.todo = job[p].todo \ {c}, !.chunk = NoChunk, !.spent = spent]]
    BY <2>1 DEF IndInv, TypeInvariant
  <2>4. /\ job'[p].todo = job[p].todo \ {c}
        /\ job'[p].pointer = job[p].pointer
        /\ job'[p].spent = spent
        /\ job'[p] \in Job
    BY <2>2, <2>3 DEF IndInv, TypeInvariant, Job
  <2>5. job' \in [Pid -> Job] /\ \A o \in Pid : job'[o].spent <= MaxTotalBytes
    BY <2>2, <2>3, <2>4 DEF IndInv, TypeInvariant
  <2>6. Inside(p)'
    <3>1. pc'[p] = "chunks" /\ lock' = lock /\ UNCHANGED <<chunks, manifests, active>>
      BY <1>1, <2>1, GotoTyped DEF Goto, IndInv
    <3>2. LockHeld(p) /\ PointerKnown(p) /\ PlanCurrent(p)
      BY <1>1 DEF IndInv, Inside
    <3>3. PlanCurrent(p)'
      BY <1>1, <2>4, <3>1, <3>2 DEF PlanCurrent, Describes
    <3>4. QED
      BY <1>1, <2>4, <3>1, <3>2, <3>3 DEF Inside, LockHeld, PointerKnown, Authentic,
         ChunkAllowed, CandidateReady, KeepsActive
  <2>7. QED
    BY <1>1, <2>1, <2>5, <2>6, QuietStep DEF store
<1>4. CASE chunks[c] # "good"
  <2>1. chunks' = [chunks EXCEPT ![c] = "absent"] /\ Leave(p)
    BY <1>4 DEF ChunkVerify
  <2>2. chunks' \in [Chunk -> {"absent", "good", "bad"}]
    BY <2>1 DEF IndInv, TypeInvariant
  <2>3. \A d \in Chunk : chunks[d] = "good" => chunks'[d] = "good"
    BY <1>4, <2>1 DEF IndInv, TypeInvariant
  <2>4. ActiveComplete'
    BY <1>1, <2>3, PointerFacts, StoreAssumption
    DEF IndInv, TypeInvariant, ActiveComplete, Readable
  <2>5. ActiveClimbed'
    BY <1>1 DEF IndInv, ActiveClimbed
  <2>6. TypeInvariant'
    BY <1>1, <2>1, <2>2, LeaveTyped DEF IndInv, TypeInvariant, world
  <2>7. QED
    BY <1>1, <2>1, <2>4, <2>5, <2>6, LeaveTyped, StepInside DEF IndInv
<1>5. QED
  BY <1>3, <1>4

\* The end of the fetch loop (_fetch_missing).
LEMMA ChunksFetchedStep ==
  ASSUME IndInv, NEW p \in Pid, ChunksFetched(p)
  PROVE  IndInv'
<1>1. Inside(p)'
  BY GotoTyped DEF IndInv, ChunksFetched, Inside, Goto, store, LockHeld, PointerKnown,
     Authentic, PlanCurrent, Describes, ChunkAllowed, CandidateReady, KeepsActive
<1>2. QED
  BY <1>1, QuietStep DEF ChunksFetched, IndInv, TypeInvariant

\* Reading everything back makes the candidate complete (_verify_reassembly).
LEMMA ReassembleStep ==
  ASSUME IndInv, NEW p \in Pid, Reassemble(p)
  PROVE  IndInv'
<1> DEFINE m == job[p].pointer.manifest
<1>1. pc[p] = "reassemble" /\ UNCHANGED <<store, world>>
  BY DEF Reassemble
<1>2. CASE m \in Sound /\ \A c \in ChunksOf[m] : chunks[c] = "good"
  <2>1. Goto(p, "promote") /\ UNCHANGED job
    BY <1>2 DEF Reassemble
  <2>2. pc'[p] = "promote" /\ lock' = lock /\ UNCHANGED <<chunks, manifests, active>>
    BY <1>1, <2>1, GotoTyped DEF Goto, store, IndInv
  <2>3. LockHeld(p) /\ PointerKnown(p) /\ PlanCurrent(p)
    BY <1>1 DEF IndInv, Inside
  <2>4. CandidateReady(p)'
    BY <1>1, <1>2, <2>1, <2>2, <2>3 DEF CandidateReady, PlanCurrent, Readable
  <2>5. Inside(p)'
    BY <1>1, <2>1, <2>2, <2>3, <2>4 DEF Inside, LockHeld, PointerKnown, Authentic,
       PlanCurrent, Describes, ChunkAllowed, KeepsActive
  <2>6. QED
    BY <1>1, <2>1, <2>5, QuietStep DEF IndInv, TypeInvariant
<1>3. CASE ~(m \in Sound /\ \A c \in ChunksOf[m] : chunks[c] = "good")
  BY <1>1, <1>3, LeaveStep DEF Reassemble
<1>4. QED
  BY <1>2, <1>3

\* The check before the promotion (_reject_rollback).
LEMMA RejectRollbackStep ==
  ASSUME IndInv, NEW p \in Pid, RejectRollback(p)
  PROVE  IndInv'
<1> DEFINE fresh == active # NoPointer => MayReplace(job[p].pointer, active)
<1>1. pc[p] = "promote" /\ UNCHANGED <<store, world>>
  BY DEF RejectRollback
<1>2. CASE fresh
  <2>1. Goto(p, "active_open") /\ UNCHANGED job
    BY <1>2 DEF RejectRollback
  <2>2. pc'[p] = "active_open" /\ lock' = lock /\ UNCHANGED <<chunks, manifests, active>>
    BY <1>1, <2>1, GotoTyped DEF Goto, store, IndInv
  <2>3. LockHeld(p) /\ PointerKnown(p) /\ PlanCurrent(p) /\ CandidateReady(p)
    BY <1>1 DEF IndInv, Inside
  <2>4. CandidateReady(p)'
    BY <1>1, <1>2, <2>1, <2>2, <2>3 DEF CandidateReady, Readable
  <2>5. Inside(p)'
    BY <1>1, <2>1, <2>2, <2>3, <2>4 DEF Inside, LockHeld, PointerKnown, Authentic,
       PlanCurrent, Describes, ChunkAllowed, KeepsActive
  <2>6. QED
    BY <1>1, <2>1, <2>5, QuietStep DEF IndInv, TypeInvariant
<1>3. CASE ~fresh
  BY <1>1, <1>3, LeaveStep DEF RejectRollback
<1>4. QED
  BY <1>2, <1>3

\* A fresher pointer is above the one it replaces, so above all before it.
LEMMA RetireClimbs ==
  ASSUME IndInv, NEW q \in Pointer, active # NoPointer => MayReplace(q, active)
  PROVE  /\ Retire(q) \subseteq Pointer
         /\ \A r \in Retire(q) : Advances(r, q)
<1>1. replaced \subseteq Pointer /\ active \in Pointer \cup {NoPointer}
  BY DEF IndInv, TypeInvariant
<1>2. CASE active = NoPointer
  BY <1>1, <1>2 DEF Retire, IndInv, ActiveClimbed
<1>3. CASE active = q
  BY <1>1, <1>3 DEF Retire, IndInv, ActiveClimbed
<1>4. CASE active \notin {NoPointer, q}
  <2>1. Retire(q) = replaced \cup {active}
    BY <1>4 DEF Retire
  <2>2. Advances(active, q)
    BY <1>1, <1>4, PointerFacts, ReplacementAdvances
  <2>3. ASSUME NEW r \in replaced
        PROVE  Advances(r, q)
    <3>1. Advances(r, active)
      BY DEF IndInv, ActiveClimbed
    <3>2. IsPointer(r) /\ IsPointer(active) /\ IsPointer(q)
      BY <1>1, <1>4, PointerFacts
    <3>3. QED
      BY <2>2, <3>1, <3>2, AdvancesTransitive
  <2>4. QED
    BY <1>1, <1>4, <2>1, <2>2, <2>3
<1>5. QED
  BY <1>2, <1>3, <1>4

\* The promotion retires the active pointer for good (promote).
LEMMA ActiveReplaceStep ==
  ASSUME IndInv, NEW p \in Pid, ActiveReplace(p)
  PROVE  IndInv'
<1> DEFINE q == job[p].pointer
<1>1. /\ pc[p] = "active_replace" /\ CloseTemp(p, ActiveFile) /\ Leave(p)
      /\ UNCHANGED <<chunks, manifests>>
      /\ UNCHANGED world \/ Disturb
      /\ (active' = q /\ replaced' = Retire(q)) \/ UNCHANGED <<active, replaced>>
  BY DEF ActiveReplace
<1>2. q \in Pointer /\ Readable(q) /\ (active # NoPointer => MayReplace(q, active))
  BY <1>1 DEF IndInv, Inside, PointerKnown, CandidateReady
<1>3. active' \in Pointer \cup {NoPointer} /\ replaced' \subseteq Pointer
  BY <1>1, <1>2, RetireClimbs DEF IndInv, TypeInvariant
<1>4. TypeInvariant'
  BY <1>1, <1>3, LeaveTyped, DisturbTyped, CloseTempTyped DEF IndInv, TypeInvariant, world
<1>5. ActiveComplete'
  BY <1>1, <1>2 DEF IndInv, ActiveComplete, Readable
<1>6. ActiveClimbed'
  BY <1>1, <1>2, RetireClimbs, PointerFacts DEF IndInv, ActiveClimbed
<1>7. QED
  BY <1>1, <1>4, <1>5, <1>6, LeaveTyped, StepInside DEF IndInv

\* Every step of a sync preserves the invariant (_sync_locked).
LEMMA SyncSteps ==
  ASSUME IndInv, NEW p \in Pid, SyncStep(p)
  PROVE  IndInv'
BY FetchPointerStep, FetchManifestStep, OpenSteps, ManifestReplaceStep, DiffChunksStep,
   FetchChunkStep, ChunkReplaceStep, ChunkVerifyStep, ChunksFetchedStep, ReassembleStep,
   RejectRollbackStep, ActiveReplaceStep DEF SyncStep

-----------------------------------------------------------------------------
(***************************************************************************)
(* gc.  It removes what the active release does not refer to, and the      *)
(* active release is the one it looked up, for nobody else is inside.      *)
(***************************************************************************)
LEMMA GcLoadStep ==
  ASSUME IndInv, NEW p \in Pid, GcLoad(p)
  PROVE  IndInv'
<1>1. pc[p] = "gc_load" /\ UNCHANGED <<store, world>>
  BY DEF GcLoad
<1>2. CASE active # NoPointer /\ active.manifest \in manifests \cap Canonical
  <2>1. job' = [job EXCEPT ![p].pointer = active] /\ Goto(p, "gc_chunks")
    BY <1>2 DEF GcLoad
  <2>2. active \in Pointer
    BY <1>2 DEF IndInv, TypeInvariant
  <2>3. /\ job' \in [Pid -> Job]
        /\ \A o \in Pid : job'[o].spent <= MaxTotalBytes
        /\ job'[p].pointer = active
    <3> DEFINE new == [job[p] EXCEPT !.pointer = active]
    <3>1. job[p] \in Job /\ job[p].spent <= MaxTotalBytes
      BY DEF IndInv, TypeInvariant
    <3>2. new \in Job /\ new.pointer = active /\ new.spent = job[p].spent
      BY <2>2, <3>1 DEF Job
    <3>3. job' = [job EXCEPT ![p] = new]
      BY <2>1
    <3> HIDE DEF new
    <3>4. QED
      BY <3>1, <3>2, <3>3, JobTyped DEF IndInv
  <2>4. pc'[p] = "gc_chunks" /\ lock' = p /\ UNCHANGED active
    BY <1>1, <2>1, GotoTyped DEF Goto, store, IndInv, Inside, LockHeld
  <2>5. Inside(p)'
    BY <2>2, <2>3, <2>4 DEF Inside, LockHeld, PointerKnown, PlanCurrent, ChunkAllowed,
       CandidateReady, KeepsActive
  <2>6. QED
    BY <1>1, <2>1, <2>3, <2>5, QuietStep
<1>3. CASE ~(active # NoPointer /\ active.manifest \in manifests \cap Canonical)
  BY <1>1, <1>3, LeaveStep DEF GcLoad
<1>4. QED
  BY <1>2, <1>3

\* A collection removes nothing of the active release (_sweep_chunks, _sweep_manifests).
LEMMA SweepStep ==
  ASSUME IndInv, NEW p \in Pid, SweepChunk(p) \/ SweepManifest(p)
  PROVE  IndInv'
<1>1. /\ pc[p] \in {"gc_chunks", "gc_manifests"}
      /\ UNCHANGED <<active, replaced, lock, pc, job, published, faults, crashes>>
  BY DEF SweepChunk, SweepManifest, world
<1>2. job[p].pointer = active
  BY <1>1 DEF IndInv, Inside, KeepsActive
<1>3. /\ chunks' \in [Chunk -> {"absent", "good", "bad"}]
      /\ manifests' \subseteq manifests
      /\ temp' \in [Pid -> SUBSET File]
  BY CloseTempTyped DEF SweepChunk, SweepManifest, Junk, IndInv, TypeInvariant
<1>4. active # NoPointer =>
        /\ \A c \in ChunksOf[active.manifest] : chunks'[c] = chunks[c]
        /\ active.manifest \in manifests => active.manifest \in manifests'
  <2>1. SUFFICES ASSUME active # NoPointer
                 PROVE  /\ \A c \in ChunksOf[active.manifest] : chunks'[c] = chunks[c]
                        /\ active.manifest \in manifests => active.manifest \in manifests'
    OBVIOUS
  <2>2. ChunksOf[active.manifest] \subseteq Chunk
    BY <2>1, PointerFacts, StoreAssumption DEF IndInv, TypeInvariant
  <2>3. CASE SweepChunk(p)
    BY <1>2, <2>2, <2>3 DEF SweepChunk, Junk, IndInv, TypeInvariant
  <2>4. CASE SweepManifest(p)
    BY <1>2, <2>4 DEF SweepManifest
  <2>5. QED
    BY <2>3, <2>4
<1>5. TypeInvariant'
  BY <1>1, <1>3 DEF IndInv, TypeInvariant
<1>6. ActiveComplete'
  BY <1>1, <1>4 DEF IndInv, ActiveComplete, Readable
<1>7. ActiveClimbed'
  BY <1>1 DEF IndInv, ActiveClimbed
<1>8. Inside(p)'
  BY <1>1 DEF IndInv, Inside, LockHeld, PointerKnown, Authentic, PlanCurrent, ChunkAllowed,
     CandidateReady, KeepsActive
<1>9. QED
  BY <1>1, <1>5, <1>6, <1>7, <1>8, StepInside

\* Every step of a collection preserves the invariant (_gc_locked).
LEMMA GcSteps ==
  ASSUME IndInv, NEW p \in Pid, GcStep(p)
  PROVE  IndInv'
<1>1. CASE ChunksSwept(p)
  <2>1. Inside(p)'
    BY <1>1, GotoTyped DEF IndInv, ChunksSwept, Inside, Goto, store, LockHeld, PointerKnown,
       Authentic, PlanCurrent, ChunkAllowed, CandidateReady, KeepsActive
  <2>2. QED
    BY <1>1, <2>1, QuietStep DEF ChunksSwept, IndInv, TypeInvariant
<1>2. CASE ManifestsSwept(p)
  BY <1>2, LeaveStep DEF ManifestsSwept
<1>3. QED
  BY <1>1, <1>2, GcLoadStep, SweepStep DEF GcStep

-----------------------------------------------------------------------------
\* An exception inside the lock leaves the store as it is.
LEMMA FailStep ==
  ASSUME IndInv, NEW p \in Pid, Fail(p)
  PROVE  IndInv'
BY LeaveStep DEF Fail

\* A death leaves the store as it is and takes only its own lock away.
LEMMA CrashStep ==
  ASSUME IndInv, NEW p \in Pid, Crash(p)
  PROVE  IndInv'
<1>1. UNCHANGED <<chunks, manifests, active, temp, replaced, published, faults>>
  BY DEF Crash, store
<1>2. pc'[p] \in {"idle", "dead"} /\ \A q \in Pid \ {p} : pc'[q] = pc[q] /\ job'[q] = job[q]
  BY StoreAssumption DEF Crash, IndInv, TypeInvariant
<1>3. TypeInvariant'
  BY <1>1, NoJobTyped, StoreAssumption, BoundAssumption DEF Crash, IndInv, TypeInvariant
<1>4. ASSUME NEW q \in Pid, q # p, pc[q] \in Locked
      PROVE  Inside(q)'
  <2>1. lock = q
    BY <1>4 DEF IndInv, Inside, LockHeld
  <2>2. lock' = lock /\ pc'[q] = pc[q] /\ job'[q] = job[q]
    BY <1>2, <1>4, <2>1 DEF Crash
  <2>3. QED
    BY <1>1, <1>4, <2>2 DEF IndInv, Inside, LockHeld, PointerKnown, Authentic, PlanCurrent,
       Describes, ChunkAllowed, WithinCap, CandidateReady, Readable, KeepsActive
<1>5. \A q \in Pid : Inside(q)'
  BY <1>2, <1>4 DEF Inside
<1>6. QED
  BY <1>1, <1>3, <1>5, StoreUnchanged DEF IndInv

\* A new release touches no device.
LEMMA PublishStep ==
  ASSUME IndInv, Publish
  PROVE  IndInv'
<1>1. published' \in DOMAIN Release
  BY PointerAssumption DEF Publish, IndInv, TypeInvariant
<1>2. UNCHANGED <<chunks, manifests, active, temp, replaced, lock, pc, job, faults, crashes>>
  BY DEF Publish, store
<1>3. TypeInvariant'
  BY <1>1, <1>2 DEF IndInv, TypeInvariant
<1>4. \A p \in Pid : Inside(p)'
  BY <1>2 DEF IndInv, Inside, LockHeld, PointerKnown, PlanCurrent, ChunkAllowed, WithinCap,
     CandidateReady, Readable, KeepsActive
<1>5. QED
  BY <1>2, <1>3, <1>4, StoreUnchanged DEF IndInv

\* What every process knows stays true whatever happens next.
THEOREM Inductive == Spec => []IndInv
<1>1. Init => IndInv
  BY InitHolds
<1>2. IndInv /\ [Next]_vars => IndInv'
  <2> SUFFICES ASSUME IndInv, [Next]_vars
               PROVE  IndInv'
    OBVIOUS
  <2>1. CASE Publish
    BY <2>1, PublishStep
  <2>2. ASSUME NEW p \in Pid, Step(p)
        PROVE  IndInv'
    BY <2>2, LockSteps, SyncSteps, GcSteps DEF Step, LockStep
  <2>3. ASSUME NEW p \in Pid, Fail(p) \/ Crash(p)
        PROVE  IndInv'
    BY <2>3, FailStep, CrashStep
  <2>4. CASE UNCHANGED vars
    BY <2>4 DEF vars, store, world, IndInv, TypeInvariant, ActiveComplete, ActiveClimbed, Readable,
       Inside, LockHeld, PointerKnown, PlanCurrent, ChunkAllowed, WithinCap, CandidateReady,
       KeepsActive
  <2>5. QED
    BY <2>1, <2>2, <2>3, <2>4 DEF Next
<1>3. QED
  BY <1>1, <1>2, PTL DEF Spec

-----------------------------------------------------------------------------
(***************************************************************************)
(* What follows.                                                           *)
(***************************************************************************)
\* Every variable keeps to its range and no sync exceeds its byte ceiling.
THEOREM TypeCorrect == Spec => []TypeInvariant
BY Inductive, PTL DEF IndInv

\* The active release is complete at every moment, through failures, deaths
\* of processes and collections.
THEOREM AlwaysComplete == Spec => []ActiveComplete
BY Inductive, PTL DEF IndInv

\* A replaced pointer is never active again.
THEOREM ReplacedForGood == Spec => []NeverReactivated
<1>1. IndInv => NeverReactivated
  <2> SUFFICES ASSUME IndInv, active \in replaced
               PROVE  FALSE
    BY DEF NeverReactivated
  <2>1. active \in Pointer /\ Advances(active, active)
    BY DEF IndInv, TypeInvariant, ActiveClimbed
  <2>2. QED
    BY <2>1, PointerFacts, AdvancesIrreflexive
<1>2. QED
  BY <1>1, Inductive, PTL

\* Whoever is not inside the lock leaves every file, and whoever is inside is alone.
LEMMA OutsideStep ==
  ASSUME IndInv, NEW p \in Pid, pc[p] \notin Locked,
         Step(p) \/ Fail(p) \/ Crash(p)
  PROVE  UNCHANGED store
BY DEF Step, LockStep, BeginSync, BeginGc, Acquire, LockTimeout, SyncStep, FetchPointer,
   FetchManifest, ManifestOpen, ManifestReplace, DiffChunks, FetchChunk, ChunkOpen, ChunkReplace,
   ChunkVerify, ChunksFetched, Reassemble, RejectRollback, ActiveOpen, ActiveReplace, GcStep,
   GcLoad, SweepChunk, ChunksSwept, SweepManifest, ManifestsSwept, Fail, Crash

\* Between its diff and its promotion a sync loses nothing it relies on.
THEOREM StableUnderSync == Spec => CacheStableUnderSync
<1> DEFINE Keeps(p) ==
      LET m == job[p].pointer.manifest IN
      pc[p] \in Planned /\ pc'[p] \in Planned =>
        /\ m \in manifests'
        /\ \A c \in ChunksOf[m] : chunks[c] = "good" => chunks'[c] = "good"
<1>1. ASSUME IndInv, [Next]_vars, NEW p \in Pid
      PROVE  Keeps(p)
  <2> SUFFICES ASSUME pc[p] \in Planned
               PROVE  LET m == job[p].pointer.manifest IN
                      /\ m \in manifests'
                      /\ \A c \in ChunksOf[m] : chunks[c] = "good" => chunks'[c] = "good"
    OBVIOUS
  <2>1. job[p].pointer \in Pointer /\ job[p].pointer.manifest \in manifests
    BY <1>1 DEF IndInv, Inside, PointerKnown, PlanCurrent
  <2>2. CASE UNCHANGED <<chunks, manifests>>
    BY <2>1, <2>2
  <2>3. CASE ChunkReplace(p)
    <3>1. chunks[job[p].chunk] = "absent"
      BY <1>1, <2>3 DEF ChunkReplace, IndInv, Inside, ChunkAllowed, PlanCurrent
    <3>2. manifests' = manifests /\ chunks' \in {chunks, [chunks EXCEPT ![job[p].chunk] = job[p].body]}
      BY <2>3 DEF ChunkReplace
    <3>3. QED
      BY <1>1, <2>1, <3>1, <3>2, PointerFacts, StoreAssumption DEF IndInv, TypeInvariant
  <2>4. CASE ChunkVerify(p)
    <3>1. /\ manifests' = manifests
          /\ \/ UNCHANGED chunks
             \/ chunks[job[p].chunk] # "good" /\ chunks' = [chunks EXCEPT ![job[p].chunk] = "absent"]
      BY <2>4 DEF ChunkVerify
    <3>2. QED
      BY <1>1, <2>1, <3>1, PointerFacts, StoreAssumption DEF IndInv, TypeInvariant
  <2>5. ASSUME NEW q \in Pid, q # p, Step(q) \/ Fail(q) \/ Crash(q)
        PROVE  UNCHANGED <<chunks, manifests>>
    BY <1>1, <2>5, Alone, OutsideStep DEF store
  <2>6. ASSUME Step(p) \/ Fail(p) \/ Crash(p), ~ChunkReplace(p), ~ChunkVerify(p)
        PROVE  UNCHANGED <<chunks, manifests>>
    BY <2>6 DEF Step, LockStep, BeginSync, BeginGc, Acquire, LockTimeout, SyncStep, FetchPointer,
       FetchManifest, ManifestOpen, ManifestReplace, DiffChunks, FetchChunk, ChunkOpen, OpenTemp,
       ChunksFetched, Reassemble, RejectRollback, ActiveOpen, ActiveReplace, GcStep,
       GcLoad, SweepChunk, ChunksSwept, SweepManifest, ManifestsSwept, Fail, Crash, store
  <2>7. CASE Publish \/ UNCHANGED vars
    BY <2>2, <2>7 DEF Publish, vars, store
  <2>8. QED
    BY <1>1, <2>2, <2>3, <2>4, <2>5, <2>6, <2>7 DEF Next
<1>2. IndInv /\ [Next]_vars => [\A p \in Pid : Keeps(p)]_vars
  BY <1>1
<1>3. QED
  BY <1>2, Inductive, PTL DEF Spec, CacheStableUnderSync

\* The active pointer changes in one kind of step: a promotion.
LEMMA OnlyPromotionActivates ==
  ASSUME NEW p \in Pid, Step(p) \/ Fail(p) \/ Crash(p), ~ActiveReplace(p)
  PROVE  UNCHANGED active
BY DEF Step, LockStep, BeginSync, BeginGc, Acquire, LockTimeout, SyncStep, FetchPointer,
   FetchManifest, ManifestOpen, ManifestReplace, DiffChunks, FetchChunk, ChunkOpen, OpenTemp,
   ChunkReplace, ChunkVerify, ChunksFetched, Reassemble, RejectRollback, ActiveOpen, GcStep,
   GcLoad, SweepChunk, ChunksSwept, SweepManifest, ManifestsSwept, Fail, Crash, store

\* The cache implements the register of Activation: a host never sees an
\* incomplete release, and an update is one step to a trusted, fresher one.
THEOREM Implements == Spec => ImplementsActivation
<1>1. Init => Promise!Init
  BY DEF Init, Promise!Init, Installed
<1>2. ASSUME IndInv, IndInv', [Next]_vars
      PROVE  [Promise!Next]_Installed
  <2>1. Installed = active /\ Installed' = active'
    BY <1>2 DEF IndInv, ActiveComplete, Installed
  <2>2. CASE UNCHANGED active
    BY <2>1, <2>2
  <2>3. ASSUME NEW p \in Pid, ActiveReplace(p), active' # active
        PROVE  Promise!Next
    <3> DEFINE q == job[p].pointer
    <3>1. pc[p] = "active_replace" /\ active' = q
      BY <2>3 DEF ActiveReplace
    <3>2. /\ q \in Pointer /\ Authentic(q) /\ Describes(q) /\ q.manifest \in Sound
          /\ active # NoPointer => MayReplace(q, active)
      BY <1>2, <3>1 DEF IndInv, Inside, PointerKnown, PlanCurrent, CandidateReady
    <3>3. q \in Trusted
      BY <3>2 DEF Trusted, Authentic, Describes
    <3>4. Promise!Install(q)
      BY <2>1, <3>1, <3>2 DEF Promise!Install, Promise!MayReplace, Promise!FreshnessProved,
         Promise!SequenceVerdict, Promise!VersionVerdict, Promise!IsFreshSequence,
         Promise!NoSequence, Promise!Unparsable, MayReplace, FreshnessProved, SequenceVerdict,
         VersionVerdict, IsFreshSequence, NoSequence, Unparsable
    <3>5. QED
      BY <3>3, <3>4 DEF Promise!Next
  <2>4. CASE Publish \/ UNCHANGED vars
    BY <2>2, <2>4 DEF Publish, vars, store
  <2>5. QED
    BY <1>2, <2>2, <2>3, <2>4, OnlyPromotionActivates DEF Next
<1>3. QED
  BY <1>1, <1>2, Inductive, PTL DEF Spec, Promise!Spec, ImplementsActivation
-----------------------------------------------------------------------------
(***************************************************************************)
(* The end of a collection.  What its first sweep found to be gone stays   *)
(* gone during the second: nobody else writes a chunk, and a process that  *)
(* died left nothing that still moves.                                     *)
(***************************************************************************)
ChunksAreSwept(p) ==
  pc[p] = "gc_manifests" => Junk(p) = {} /\ \A o \in Pid : Chunk \cap temp[o] = {}

SweptInv == \A p \in Pid : ChunksAreSwept(p)

\* Where chunks and temporaries stay, a sweep's result stays with its process.
LEMMA SweptKept ==
  ASSUME SweptInv, UNCHANGED <<chunks, temp>>, NEW q \in Pid,
         pc'[q] = "gc_manifests" => pc[q] = "gc_manifests" /\ job'[q] = job[q]
  PROVE  ChunksAreSwept(q)'
BY DEF SweptInv, ChunksAreSwept, Junk

\* Steps outside the lock, and deaths.
LEMMA SweptOutside ==
  ASSUME TypeInvariant, SweptInv,
         \/ Publish \/ UNCHANGED vars
         \/ \E p \in Pid : BeginSync(p) \/ BeginGc(p) \/ LockStep(p) \/ Crash(p)
  PROVE  SweptInv'
<1>1. UNCHANGED <<chunks, temp>>
  BY DEF Publish, vars, BeginSync, BeginGc, LockStep, Acquire, LockTimeout, Crash, store
<1>2. ASSUME NEW q \in Pid, pc'[q] = "gc_manifests"
      PROVE  pc[q] = "gc_manifests" /\ job'[q] = job[q]
  <2>1. CASE Publish \/ UNCHANGED vars
    BY <1>2, <2>1 DEF Publish, vars
  <2>2. ASSUME NEW p \in Pid, BeginSync(p) \/ BeginGc(p) \/ LockTimeout(p) \/ Acquire(p)
        PROVE  pc[q] = "gc_manifests" /\ job'[q] = job[q]
    BY <1>2, <2>2 DEF BeginSync, BeginGc, LockTimeout, Acquire, Goto, TypeInvariant
  <2>3. ASSUME NEW p \in Pid, Crash(p)
        PROVE  pc[q] = "gc_manifests" /\ job'[q] = job[q]
    BY <1>2, <2>3 DEF Crash, TypeInvariant
  <2>4. QED
    BY <2>1, <2>2, <2>3 DEF LockStep
<1>3. QED
  BY <1>1, <1>2, SweptKept DEF SweptInv

\* Inside the lock only a collection comes to its second sweep, or goes on there.
LEMMA SweptInside ==
  ASSUME IndInv, SweptInv, NEW p \in Pid, SyncStep(p) \/ GcStep(p) \/ Fail(p)
  PROVE  SweptInv'
<1>1. TypeInvariant /\ pc[p] \in Locked
  BY DEF IndInv, SyncStep, FetchPointer, FetchManifest, ManifestOpen, ManifestReplace, DiffChunks,
    FetchChunk, ChunkOpen, ChunkReplace, ChunkVerify, ChunksFetched, Reassemble, RejectRollback,
    ActiveOpen, ActiveReplace, GcStep, GcLoad, SweepChunk, ChunksSwept, SweepManifest,
    ManifestsSwept, Fail
<1>2. \A q \in Pid \ {p} : pc'[q] = pc[q]
  BY <1>1 DEF SyncStep, FetchPointer, Receive, FetchManifest, ManifestOpen, ManifestReplace, DiffChunks,
    FetchChunk, ChunkOpen, ChunkReplace, ChunkVerify, ChunksFetched, Reassemble, RejectRollback,
    ActiveOpen, ActiveReplace, OpenTemp, GcStep, GcLoad, SweepChunk, ChunksSwept, SweepManifest,
    ManifestsSwept, Fail, Goto, Leave, TypeInvariant
<1>3. \A q \in Pid \ {p} : ChunksAreSwept(q)'
  <2>1. \A q \in Pid \ {p} : pc'[q] \notin Locked
    BY <1>1, <1>2, Alone
  <2>2. QED
    BY <2>1 DEF ChunksAreSwept
<1>4. ChunksAreSwept(p)'
  <2>1. CASE ChunksSwept(p)
    <3>1. /\ UNCHANGED <<chunks, temp, job>>
          /\ Junk(p) = {} /\ \A o \in Pid : Chunk \cap temp[o] = {}
      BY <2>1 DEF ChunksSwept, store
    <3>2. QED
      BY <3>1 DEF ChunksAreSwept, Junk
  <2>2. CASE SweepManifest(p)
    <3>1. /\ UNCHANGED <<chunks, job>> /\ pc[p] = "gc_manifests"
          /\ \A o \in Pid : temp'[o] \subseteq temp[o]
      BY <1>1, <2>2 DEF SweepManifest, CloseTemp, TypeInvariant
    <3>2. Junk(p)' = Junk(p)
      BY <3>1 DEF Junk
    <3>3. Junk(p) = {} /\ \A o \in Pid : Chunk \cap temp[o] = {}
      BY <3>1 DEF SweptInv, ChunksAreSwept
    <3>4. \A o \in Pid : Chunk \cap temp'[o] = {}
      BY <3>1, <3>3, Zenon
    <3>5. QED
      BY <3>2, <3>3, <3>4 DEF ChunksAreSwept
  <2>3. CASE SyncStep(p) \/ GcLoad(p) \/ SweepChunk(p) \/ ManifestsSwept(p) \/ Fail(p)
    <3>1. CASE Fail(p)
      BY <1>1, <3>1 DEF Fail, Leave, TypeInvariant, ChunksAreSwept
    <3>2. CASE GcLoad(p) \/ SweepChunk(p) \/ ManifestsSwept(p)
      BY <1>1, <3>2 DEF GcLoad, SweepChunk, ManifestsSwept, Goto, Leave, TypeInvariant, ChunksAreSwept
    <3>3. CASE SyncStep(p)
      <4>1. pc'[p] # "gc_manifests"
        BY <1>1, <3>3, Zenon DEF SyncStep, FetchPointer, Receive, FetchManifest, ManifestOpen, ManifestReplace,
          DiffChunks, FetchChunk, ChunkOpen, ChunkReplace, ChunkVerify, ChunksFetched, Reassemble,
          RejectRollback, ActiveOpen, ActiveReplace, OpenTemp, Goto, Leave, TypeInvariant
      <4>2. QED
        BY <4>1, Zenon DEF ChunksAreSwept
    <3>4. QED
      BY <2>3, <3>1, <3>2, <3>3
  <2>4. QED
    BY <2>1, <2>2, <2>3 DEF GcStep
<1>5. QED
  BY <1>3, <1>4 DEF SweptInv

\* A collection that ran to its end leaves the active release, whole, and nothing
\* else: the chunks and manifests of other releases and the temporaries of every
\* process that failed or died are gone, whatever went wrong before it (gc).
THEOREM GcExact == Spec => GcLeavesExactlyActive
<1>1. Init => SweptInv
  BY DEF Init, SweptInv, ChunksAreSwept
<1>2. IndInv /\ SweptInv /\ [Next]_vars => SweptInv'
  BY SweptOutside, SweptInside DEF Next, Step, IndInv
<1>3. ASSUME IndInv, SweptInv, NEW p \in Pid, ManifestsSwept(p)
      PROVE  /\ manifests' = {active'.manifest}
             /\ {c \in Chunk : chunks'[c] # "absent"} = ChunksOf[active'.manifest]
             /\ \A o \in Pid : temp'[o] \subseteq {ActiveFile}
  <2>1. /\ pc[p] = "gc_manifests" /\ UNCHANGED <<chunks, manifests, active, temp>>
        /\ manifests \subseteq {job[p].pointer.manifest}
        /\ \A o \in Pid : Manifest \cap temp[o] = {}
    BY <1>3 DEF ManifestsSwept, store
  <2>2. TypeInvariant /\ job[p].pointer = active /\ active \in Pointer
    BY <1>3, <2>1 DEF IndInv, Inside, KeepsActive, PointerKnown
  <2>3. active # NoPointer /\ ChunksOf[active.manifest] \subseteq Chunk
    BY <2>2, PointerFacts, StoreAssumption
  <2>4. active.manifest \in manifests /\ \A c \in ChunksOf[active.manifest] : chunks[c] = "good"
    BY <1>3, <2>3 DEF IndInv, ActiveComplete, Readable
  <2>5. Junk(p) = {} /\ \A o \in Pid : Chunk \cap temp[o] = {}
    BY <1>3, <2>1 DEF SweptInv, ChunksAreSwept
  <2>6. {c \in Chunk : chunks[c] # "absent"} = ChunksOf[active.manifest]
    BY <2>2, <2>3, <2>4, <2>5 DEF Junk
  <2>7. \A o \in Pid : temp[o] \subseteq {ActiveFile}
    BY <2>1, <2>2, <2>5 DEF TypeInvariant, File
  <2>8. QED
    BY <2>1, <2>2, <2>4, <2>6, <2>7
<1>4. IndInv /\ SweptInv =>
        \A p \in Pid :
          ManifestsSwept(p) =>
            /\ manifests' = {active'.manifest}
            /\ {c \in Chunk : chunks'[c] # "absent"} = ChunksOf[active'.manifest]
            /\ \A o \in Pid : temp'[o] \subseteq {ActiveFile}
  BY <1>3
<1>5. QED
  BY <1>1, <1>2, <1>4, Inductive, PTL DEF Spec, GcLeavesExactlyActive
=============================================================================
