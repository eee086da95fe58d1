# EdgeProc in TLA+

EdgeProc delivers signed, content-addressed bundles to devices and serves vector
search and model runs from them. This directory is its verification project:
TLA+ modules translated from `edgeproc/` and `scripts/`, TLC configurations that
model-check them on small instances, and proofs that TLAPS checks for every
instance. Paths below are relative to the repository.

## 1. Inventory

| Part | State it keeps | Operations | Modelled in |
|---|---|---|---|
| Bundle cache (`bundles/cas.py`) | `chunks/<aa>/<hash>`, `manifests/<hash>`, `active`, temporaries `<name>.tmp.<pid>`, `.mutation.lock` | put/get chunk and manifest, promote, gc, bounded lock wait | `CacheSync` |
| Sync (`bundles/sync.py`, `adapters.py`) | locals of one transaction: pointer, missing chunks, byte total | fetch and verify pointer, manifest, chunks; reassemble; promote | `CacheSync` |
| Freshness rule (`cas.py` 391-471, `manifest.py` 198-217) | none | two verdicts and their fail-closed combination | `Freshness` |
| Publisher (`bundles/publish.py`, the producer's half of `cas.py`) | origin directory: its own store, `manifest/`, `chunk/`, `latest` | store, lay out, link or copy, flush, name | `Origin` |
| Chunking (`bundles/chunking.py`) | none; the next cut of a file | cut by content | `Chunking` |
| Trust root (`bundles/keyring.py`, `signing.py`, `cli/app.py` 356-483) | the keyring file, its temporaries, the copies at consumers | init, add, revoke, verify | `Keyring` |
| Vector index (`localvec/faiss_index.py`) | FAISS index, id maps, metadata, per-instance lock | insert, rebuild, delete, search, statistics, save, load | `VectorIndex` |
| Snapshot store (`localvec/snapshot_store.py`) | generation files, manifests, file lock, selected generation | commit with compare-and-swap, latest, collect, migrate | `SnapshotStore` |
| Runtime facade (`core/`) | reserved memory, registry of runtimes, telemetry ring | register, route, reserve, run, release, emit | `Facade`, `Admission` |
| Embedding runtime (`localvec/runtime.py`, `encoder.py`, `model_source.py`) | lazily loaded encoder | load, embed | only how a run ends, in `Facade` |
| Command line (`cli/app.py`, `errors.py`) | none of its own; a materialized directory | sync, gc, materialize, publish, keyring commands | `Materialize`, `Keyring`, `Origin`, `CacheSync` |
| Re-pin worker (`scripts/repin_locked_tools.py`) | locals of a worker; the pull request's branch and CI runs | read, plan, commit, cancel | `Repin` |
| Mutation harness (`scripts/mutation_harness.py`) | the mutated file, bytecode, verdicts | write, purge, run, probe, restore | `Harness` |
| Other tooling (`scripts/release_contract.py`, `gen_keyring_vectors.py`, `.dagger/`, `benchmarks/`) | none | — | not modelled |

How they interact. A publisher lays a release out in an origin directory and
replaces `latest` last. A device's host calls `sync_index`, which takes the
cache's mutation lock, fetches and verifies, and promotes by replacing `active`.
`gc` takes the same lock. The host then materializes the active release or hands
its files to a vector index. Indexes save themselves through the snapshot store,
which other processes load from, with and without its lock. A facade reserves
the memory a task declares before a runtime runs it; facades on several threads
may share one memory manager. A publisher signs with one key of the ring that
each consumer pins; an operator edits the ring and ships it.

What is hard. Two processes on one cache; a process killed between any two file
operations; leftover temporaries whose name depends on a process id; an origin
that replays, lies or fails; a file lock with a timeout; a freshness rule with
two partial orders; a compare-and-swap commit against readers that take no
lock; maps that must agree with an index; a publisher that loses its power
between a link and its flush; a command whose lock is free between its two
halves; an edit of the trust root without a lock; a commit made on a branch that
has moved; stale bytecode that shadows a source. `PROJECT.json` lists each hazard at
its line, with the properties aimed at it or why there is none yet.

What makes each part correct. The cache: the active release is complete and
never goes back, whatever fails. Sync: only trusted releases are promoted, and
retries reach the newest one. The collection: exactly the active release
survives. The publisher: whoever reads `latest` finds everything it refers to.
The trust root: no reported revocation is forgotten, and a rotation has no flag day.
The materialized directory: it shows the active release, and no file goes back.
The tools: a verdict is about the code that ran, and a commit about the lock
beside it. The snapshot store: a
loaded generation is one that was committed, no commit is lost silently, and
the last complete one is always recoverable. The vector index: the maps and the
index agree after every operation. The facade: what is reserved is what runs.

## 2. The modules

`Freshness` holds the anti-rollback rule as operators: `SequenceVerdict`,
`VersionVerdict`, `FreshnessProved` and `MayReplace` are `_sequence_verdict`,
`_version_verdict`, `_freshness_refusal` and `_downgrade_reason`. A version is a
label with a `Rank`, its place in the PEP 440 order: two labels may share a place
(`1.0`, `1.0.0`), and a label may have none (`nightly`). `Advances` is the
measure every allowed replacement climbs.

`Activation` is the abstract specification: one register, `installed`, into
which a trusted and provably fresher release is installed in one step.

`CacheSync` is one device's cache and the processes that work on it. The state
corresponds to the code thus:

| Variable | In the code |
|---|---|
| `chunks[c]` | the file under a chunk's final name: absent, its own bytes, or other bytes |
| `manifests` | the files in `manifests/` |
| `active` | the pointer in `active` |
| `temp[p]` | the targets `f` for which `f.tmp.<p>` exists |
| `lock`, `pc`, `job` | holder of `.mutation.lock`; where each process is, and its locals |
| `replaced` | history only: the pointers that another one replaced |

Every persistent effect is a step of its own: `_atomic_write` is an exclusive
open (`ManifestOpen`, `ChunkOpen`, `ActiveOpen`) and a rename
(`ManifestReplace`, `ChunkReplace`, `ActiveReplace`), `put_chunk_compressed`
verifies after the rename (`ChunkVerify`), and a collection unlinks one file at
a time. `Crash` kills a process between any two steps; its lock goes, its files
stay. `Fail` is an exception from a fetch, a read or an unlink, and each rename
may fail before it happened (a full disk) or after (the directory fsync).
`FetchPointer` lets the origin replay an older release or serve a foreign
pointer, and `FetchChunk` lets it serve other bytes.

Abstractions of the cache. A pointer's signature, expiry, revocation and identity pins are
two fields, `signed` and `bundle_id`; a manifest is what it refers to
(`ChunksOf`), what it declares (`BundleOf`) and three verdicts (`Admissible`,
`Sound`, `Canonical`). Symlink and containment refusals are among the
exceptions of `Fail`.

`SnapshotRegister` is the second abstract specification: one current generation,
which a process replaces in one step if its index stands on it or on nothing.

`SnapshotStore` is one snapshot directory, the processes that save to it and
load from it under its file lock, and the readers of a read-only mount, which
cannot take that lock. A generation (the code's uuid) is a number given out
once; it stands for the content of its two data files.

| Variable | In the code |
|---|---|
| `manifest[s]` | the generation named by `snapshots/<s>.snapshot.json` |
| `files`, `temps` | the data files `<generation>.faiss`, `.state.json` and their `.tmp` |
| `legacy` | which of the 0.4.0 files `index.faiss` and `state.json` are left |
| `rotten` | generations with a file that no longer matches its digest |
| `lock`, `pc`, `job` | holder of `.snapshot.lock`; where each process is, and its locals |
| `base[w]` | `_snapshot_revision` of the process's index |
| `look[r]` | the locals of `latest` and of the retries around it, for a reader |
| `minted` | uuids given out so far |
| `committed`, `newestSeen` | history only: what was committed; what was newest during a load |

A save is `AssertCurrent`, `NextSequence`, two stages, two renames and
`CommitManifest`, then a collection (`CollectOldGenerations`, one unlink per
`SweepManifest` and `SweepData`, `Swept`). Sequence numbers are counted from the
newest complete generation, as in the code, so a number may be given again and
its manifest replaced. A load under the lock is one step, since the lock keeps
writers out, and begins a migration when there is only the 0.4.0 pair. A
reader's load is a listing, one step per manifest and data file, and a second
listing. `Budget` bounds the deaths, the failed writes, the read errors
(`Misread`: an `OSError` counts as an incomplete generation, at line 166 and at
line 239) and the files that go bad.

`VectorMap` is the third abstract specification: a finite map from entities to
a vector and metadata, which is stored and restored.

`VectorIndex` is one `FaissVectorIndex`.

| Variable | In the code |
|---|---|
| `faiss`, `faiss_ids` | the vectors of `_faiss` by row, and `_faiss_ids` |
| `live`, `row_of`, `meta`, `tombstoned` | `_live`, `_row_of`, `_meta`, `_tombstoned` |
| `pending` | what the insert that holds the lock has yet to add |
| `saved` | the state that was saved last, its FAISS file included |

Every operation takes the instance's lock, so an operation is one step, but an
insert is one step per entity (`AddOne`), and `InsertFails` leaves a batch half
added, as the code does. A load puts a new instance in place of this one. A
vector is its similarity to one query, which is all that a search compares; the
search is a set of possible answers, since FAISS may order equals either way.
How a saved state reaches the disk and comes back is `SnapshotStore`.

`Origin` is the publisher's directory and the devices that read it.

| Variable | In the code |
|---|---|
| `store[c]`, `flat[c]` | `chunks/<aa>/<hash>` and `chunk/<hash>`: absent, whole, or other bytes |
| `linked` | chunks of which the two are one file (`os.link`) |
| `unsynced`, `unflushed` | entries of `chunk/`, and copies, that no fsync has reached |
| `manifests`, `latest` | the two manifest files of a release; the served pointer |
| `step`, `release`, `todo`, `copying` | where the publish is, and its locals |
| `look[d]` | what a device that takes no lock has read so far |
| `rotted`, `cut` | history only: a damaged disk; a publish that died between a copy and its flush |

A publish is one step per chunk stored (`StoreChunk`), the two manifests, one
step per chunk linked (`LinkChunk`), copied (`StartCopy`, `FinishCopy`,
`FlushCopy`) or compared with what is there (`CompareChunk`), the flush of the
directory and the move of `latest`. `Stop` ends it anywhere, `PowerLoss` also
takes any part of what was not flushed, `Rot` damages a chunk, in both places
when they are one file. `write_atomic` and `put_chunk` are one step each: they
flush the file before and the directory after the rename, so a death or a power
loss inside them is one before or after.

`Materialize` is `edgeproc sync --materialize-to` by several commands: `Sync` is
the transaction from lock to unlock (`CacheSync` refines it), `TakeLock` reads
the active pointer again under a second lock, and each file is truncated
(`StartFile`) and completed (`FinishFile`) in place. Releases are numbered in
the order in which they become active. `Clash` are pairs of paths of which one
would be a directory of the other.

`Keyring` is the trust root. `ringFile` is the ring that the file holds,
`exists` whether there is a file (`init` creates it before it writes it),
`temporaries` the processes whose `.<name>.<pid>.tmp` exists, `edit[o]` the locals of
an edit: a read (`ReadToAdd`, `ReadToRevoke`), an exclusive open
(`OpenTemporary`) and a rename (`Replace`), with failed writes and kills between
them and no lock around them. `pinned[c]` is the ring of a consumer, shipped as a
whole; `Verdict` is `KeyringVerifier.verify_pointer`. The publisher changes its
key as the runbook says (`docs/OPERATIONS.md` 169-186): `SwitchSigner`.
`overlapped`, `emergency`, `reported`, `barred` and `breach` are history.

`Chunking` cuts two versions of a file, one chunk per step; `CutPoint` is
`_cut_point`, its loop a set of candidate offsets and its hash a recursive
function of `Width` bits.

`Admission` is the fourth abstract specification: tasks are admitted when they
fit beside those in flight and refused only when they do not. `Facade` is the
calls of `EdgeProc.run`, one step each for routing, reservation, execution,
release and telemetry; `reserved` is the memory manager's count. Execution ends
with an envelope, an error the runtime does not catch (it catches `ValueError`,
`KeyError` and `TypeError`), a cancellation, or a refusal of a reservation that
the runtime asks for itself.

`Repin` is the re-pin workers on one Dependabot branch: `commits` with their
lock, the literals and the state of their CI runs (`ci`), the `head`, and the
locals of each worker, while Dependabot pushes. A commit applies only on the
head that was read (`expectedHeadOid`); its reply may be lost; a worker may be
aborted anywhere.

`Harness` is a run of the mutation harness on one target: `source`, `bytecode`
and `loaded` are the sets of defects in the file, in its `.pyc` and in the code
the interpreter of the tests runs; `stray` is what another interpreter compiled
and will write. `Spawn` may load stale bytecode of the same time and size, and
`KillHarness` leaves the defect in the file. `ProbeOK` compares as the probe does:
`Fingerprints` has one entry for each function of the module (`Function`), told
by the defects in that function (`Where`, `Within`), and the loaded module must
hold one that the source has now and had not before the defect. So loaded code
that lacks another function's defect passes, and what `ScoredRanMutant` says is
about the mutated function. A defect in the module's own frame or the body of a
class (`TopLevel`) has no fingerprint to be found, and is never scored.

## 3. The runs

The runs of the cache instantiate `CacheSync` through `MCCacheSync`: two
processes, three chunks, four manifests, three releases. Those of the snapshot
directory instantiate `SnapshotStore` through `MCSnapshotStore`: two processes
that save, load and migrate, and in one run a reader. Those of the index
instantiate `VectorIndex` through `MCVectorIndex`. `MCDelivery` holds `Origin`,
`Materialize`, `Keyring` and `Chunking` side by side and `MCHost` holds `Facade`,
`Repin` and `Harness`: they share no state, so a behaviour is one of one part
(`part`) and the others stay as they begin.

| Run | Question | Result |
|---|---|---|
| `CacheSafety` | is the active release always complete, never rolled back; is the cache the register of `Activation`; do sync and collection respect each other? | holds, about 590 000 states |
| `CacheRetries` | do retries reach the newest release after a fault or a death of one process, and does every wait end? | holds, 37 552 states |
| `CacheWedge` | the same after the death of a process whose id is given out again | violated, see 6 |
| `CacheUnverified` | is what lies under a chunk's name that chunk? | violated, see 6 |
| `CacheLateSequence` | can a publisher start to bind sequences? | violated, see 6 |
| `SnapshotSaves` | is the newest intact generation always found, is no save lost, is a collection exact? with a death, a failed write and a file gone bad | holds, 190 361 states |
| `SnapshotReaders` | is what a reader without the lock loads current; is the directory the register of `SnapshotRegister`, with a death at any step? | holds, 604 184 states |
| `SnapshotMisreadCollection` | and if a read fails during a collection? | violated, see 6 |
| `VectorIndex` | do the maps and the rows agree, does any save restore, is a search exact; is the index the map of `VectorMap`? | holds, 702 040 states |
| `VectorFilters` | does a search with a filter surface as many hits as there are? | violated, see 6 |
| `Delivery` | does the origin serve what `latest` names, and heal; do materialized files show the active release; do revocations and rotations hold; do chunks tile a file? | holds, 411 751 states |
| `HostAndTools` | is memory reserved exactly and is no task refused that fits; does the worker commit and cancel the right thing; is the harness's verdict about what ran? | holds, 255 937 states |

Bounds of the cache. Two processes are all that can disturb each other: one is inside the
lock, one waits, collects next, or dies. Three chunks give a shared, a dropped
and a new one between two releases. Releases gain a sequence and return to an
earlier content and an incomparable label, so that each pair of verdicts
occurs. `MaxTotalBytes` is the size of the larger of the new chunks, so the
ceiling is both met exactly and exceeded. `MaxFaults` 2 allows a fault whose
damage a second one reveals; `MaxCrashes` 1 leaves the other process to clean
up. `CacheRetries` has one trouble of either kind (`MaxTroubles`): with both, a
bad chunk may outlive the process that fetched it, which is the finding of
`CacheUnverified`, and no retry gets past it. `CacheSafety` uses symmetry over the processes; the liveness runs do not.

Bounds of the snapshot directory. Four generations are two more than a
collection keeps, so each run collects, and a reader that listed two manifests
can see both disappear. `MaxSequence` 3 in `SnapshotSaves` is below the number
of saves, so the last number is reached and refused; in the other runs a new
number is always left. `Attempts` is the code's 3. One of each trouble is
enough to put it at any step; a file goes bad in the run without a reader only,
since with both the instance has more than five million states (it holds, and
`LoadsAreCurrent` proves it for all sizes).
The processes are symmetric.

Bounds of the index. Four rows for two entities let one be deleted and
reinserted, so that superseded, tombstoned and live rows lie in any order and a
save holds an old row of a live entity beside another entity; a batch of two
can fail after its first entity. Two similarities are enough to tell the rows
of an entity apart and to order two entities. `MaxSaved` leaves the loads of a
full index out. `VectorFilters` needs two kinds of metadata, of which a filter
passes one; in `VectorIndex` no filter is searched with, and a filtered delete
is the delete of the entities that pass. The entities are symmetric.

Bounds of the delivery. Two releases share a chunk and three publishes are one
after a failed one and one that overtakes a device; one stop, one power loss and
one damaged chunk are put at any step. Three releases of which a file comes,
goes and comes back, one of them with a path where another needs a directory,
and three commands of two processes: two overlap, and one follows. Three keys
are two rotations in a row, four edits by two processes overlap, fail and are
killed, two consumers are ahead of and behind each other. Every pair of files of
up to five bytes over two byte values is cut with minimum 1, average 2 and
maximum 4, so that strict, loose and forced cuts, and ends of files, occur; the
hash has four bits, and its masks leave bytes that both, one or neither accepts.

Bounds of the host. Of four tasks two fit together, two do not, and one is
forged; one runtime accepts what the other does too. Four commits are the first,
a push, a re-pin and a push that overtakes it. Two mutations of one function, one
of another and one kill show a run after a killed one whose defect lies in the
function that is mutated next, or elsewhere. No mutation is at `TopLevel`: with one
the run could not be green (the proofs cover it).

Fairness. Only the cache's runs need it. `Fairness` says that a process inside the
lock runs on (it is sequential code with timed I/O: every fetch has a client
timeout) and that a wait ends (`mutation_lock_timeout`). `Retries` says what the
host must do and the documentation asks of it (`docs/OPERATIONS.md` 79, 112): it
schedules a sync again and again, and the operator does not collect for ever.
Nothing is assumed of the lock's order: the code polls it, without a queue.

## 4. What is proved

The proofs are in eight modules. All of them are about every value of the
constants that the modules' assumptions allow; TLC evaluates the assumptions on
the instances. The assumptions are on sizes and bounds, and that what stands
for no process, no chunk, no code or a place in a handler is not one of the values
it is told apart from. Each argument has the same form: an inductive invariant, one lemma
per step that could break it, and the properties as its consequences. A property
of steps follows from the invariant in the state the step leaves.

**The cache** (`CacheSyncProofs`). `ReplacementAdvances`: every replacement the
rule allows climbs `Advances`, for any labels and any order, and `Advances` is
transitive and irreflexive. `Inductive`: `IndInv`, and from it `TypeInvariant`,
`ActiveComplete`, `NeverReactivated`, `CacheStableUnderSync` and the refinement
`ImplementsActivation`. `ActiveComplete` alone is not inductive: the step that
promotes needs the candidate to be complete, and the step that collects needs to
know which release is active. `IndInv` therefore says of each process inside the
lock that it holds the lock (so it is alone there), that its pointer is
authentic, that its plan is true of the store (what it does not have to fetch is
there), that a candidate past reassembly is complete and allowed, and that a
collection keeps the active release. `ActiveClimbed` says that the active pointer
has climbed past each one it replaced; with the irreflexivity of `Advances` no
replaced pointer is active. `GcExact` proves `GcLeavesExactlyActive`: it needs
that the result of the first sweep is still true at the end of the second
(`ChunksAreSwept`), since nobody else writes a chunk meanwhile and a death
leaves nothing that moves.

**The snapshot directory** (`SnapshotProofs`), with as few hypotheses as each
result allows. Without any, misreads included: `BooksInv`, and from it
`TypeInvariant` and `CollectedExactly` (a manifest's files are both there, no
generation has two manifests, temporaries belong to generations not committed,
and a collection keeps at most two manifests). With `ReadsSucceed`: `IndInv`,
`NoLostUpdate` and `RecoversNewestIntact`. With at most one generation that goes
bad as well (`RotsAtMostOnce`): `LoadIsCurrent`. With files that stay good
(`NothingRots`): the refinement `ImplementsRegister`.
`SnapshotMisreadCollection` shows why reads must succeed, and section 6 why a
second bad generation is too many for `LoadIsCurrent`. The argument of
`IndInv`: the newest commit shows (`NewestShown`), because a new manifest is
numbered above every complete one and names files that are in place (`Numbered`,
`Staged`), and because a collection keeps the highest complete manifest and its
files (`KeepsNewest`). What a save checked of its base stays true up to its
commit (`StandsOnNewest`), since only the process inside the lock commits. That
a generation may go bad needs more, the one behind it: `Backed` says that,
whichever one generation goes bad, the highest of the others shows the last
commit but that one, and `KeepsBacked` that a collection keeps both. A reader
takes no lock, and compares two listings of names; a name may by then stand for
another generation. `ShapeInv` says when: numbers leave no gap above what a
collection took (`Dense`), a manifest that is not complete is at most one above a
complete one (`Close`), and what a collection takes lies beneath two that it keeps
(`Covers`); so a number is given again only when the newest generation has gone
bad. `Moves` sums up what any step does to the manifests (one is added on top, one
dropped beneath two others, one spoilt), and `ReadersInv` says what a reader knows
through all of them: it was `Passed` by manifests that stay above all it listed,
which its second listing shows; or the highest it listed is good and was the
newest (`Held`); or that one has gone bad, and the next one below, which it will
read, was the newest since (`Slipped`).

**The vector index** (`VectorProofs`). `IInv`, and from it `TypeInvariant`,
`RowsAgree`, `SaveRestores`, `SearchExact`, `FilteredSearchSound` and the
refinement `ImplementsMap`.
`RowsAgree` is inductive but for a load, for which `SavedAgrees` says that what
was saved last is accepted, holds no more rows than the index may have,
tombstones only entities that have a row, and has a last row of each live entity.
A rebuild needs a count: `row_of` is an injection into the rows, so there are no
more live entities than rows. `FilteredSearchSound` (what a search promises with
any filter; no run checks it) needs another one
(`EnoughFetched`): of k rows and as many more as are dead, at most the dead ones
do not count, so k of the rows that count are among them, or all; a live entity
that is left out lies in a row that was not fetched, or that was and is no
nearer. A filter drops only rows of live entities, each of which has one such row
(`DroppedBounded`), so an answer falls short by no more than there are live
entities the filter drops; `SearchExact` is the case without a filter.

**The publisher** (`PublisherProofs`). Of its directory, `OriginInv`, and from it
`LatestComplete`, `DevicesServed` and `PublishHeals`: what a publish has stored
and laid is whole (`Stored`, `Laid`), only the copy about to be flushed is not
flushed (`Flushed`), and every release that `latest` or a device's look names is
complete for good (`WantedComplete`). The last is needed since a device may be
overtaken: later publishes only add chunks, or replace one that differs. Of its
cutting, `ChunksTile`, for any bytes, gear table, masks and sizes, from
`CutPointAhead` (a cut lies after the start, at most the maximum ahead, and beyond
the minimum unless it is the end of the file or a forced cut); and `EditIsLocal`,
from `CutLocal`: where a chunk ends depends only on its own bytes and on whether
the file ends. That two hashes of the same bytes agree is shown by the first
place where they part, and there is none.

**The trust root** (`KeyringProofs`). `RevocationSticks`, `RevokedRefused` and
`NoFlagDay`, for any keys, consumers and processes. `EditsSound`: what an
edit is about to write validates, and while a new file is being written no other
edit is under way; `RevocationsGrow`: unless edits overlapped, the file still has
every key and revocation of every ring that was shipped, so a consumer's ring
revokes whatever its earlier rings did; `SignerPinned`: every ring holds the
publisher's key, and only keys the publisher has left are revoked.

**Materialization** (`MaterializeProofs`). `NeverBackward` and `DoneShowsActive`,
for any commands, releases, files and clashes of paths. `Inside`: the command that
writes holds the cache's lock, so the release it writes stays active while it
writes, and each of its files is done, still to be written, or cut short at this
moment; `Behind`: no command and no file is ahead of the cache.

**The facade** (`HostProofs`). `ReservedExact` and the refinement
`ImplementsAdmission`, for any tasks, budgets, runtimes and capacity. What tasks
need together is the size of a set of units of memory (`Units`), so that a task
more adds its budget and a task less takes it away by the facts of the library
about finite sets.

**The tools** (`HostProofs`). Of the re-pin workers, `CommitsPinned` and
`HeadNotCancelled`, for any workers, tools, literals and pushes: a worker that
has committed has moved the branch off the commit it read, and is about to cancel
runs of that commit only (`Overtaken`). Of the mutation harness,
`ScoredRanMutant` and `GreenMeansClean`, for any functions, mutations and kills:
during a run the file is what it was when the run began and the one defect that
is measured (`FileKept`), a fingerprint that only the mutated source has is one of
the mutated function (`ProbeSees`), and what was caught was not in the file before, but in
the code that ran (`CaughtAlone`).

**Parts side by side** (`HostProofs`, `DeliveryProofs`). `HostBehavesAsParts` and
`DeliveryBehavesAsParts`: a behaviour of a composition is, for each part, a
behaviour of that part, since a step is one of one part and leaves the variables
of the others alone. So everything proved of a part holds of the composition that
TLC checks; `HostTypeCorrect` and `DeliveryTypeCorrect` are the type invariants of
the compositions, `FacadeTypeCorrect` the one of the facade.

## 5. Model-checked only, and not modelled

Liveness (`EventuallyCurrent`, `WaitEnds`) is model-checked: TLAPS
proves nothing about fairness. Every invariant and every action property of a
passing run has a theorem. Of the properties that a run violates, only
`RecoversNewestIntact` has one, under the hypothesis that its violating run
gives up.

Not modelled. Of the cache: power loss (every write is fsynced before its
rename, so it shows the states of a process death), an `active` that exists but
cannot be read (refused without a state change), threads of one process,
`promote` called by itself, and time that passes between the check of a
pointer's expiry and its promotion. Of the snapshot directory: the wait for its
lock (the same bounded wait as the cache's), the refusals of links and
non-directories, and the manifest's own temporary, whose fresh name nothing
looks for (a death leaves it behind for good, since `_is_generation_data` does
not match it). Of the index: statistics, the options the backend refuses, and a
caller that changes a metadata dict after it was inserted (the index keeps the
caller's object). Of the publisher: the parent directories of new chunks, and
damage to a disk while a publish runs. Of the trust root: the syntax of a ring
and its byte cap, a sync that is in flight while a ring is shipped (it keeps the
ring it loaded), and private keys. Of chunking: that boundaries meet again after
an edit, which is only probable (a run of forced cuts may stay shifted). Of
materialization: the cap on a file's size, and what the command prints, which is
the release it synced although it may have materialized a newer one. Of the
harness: several targets, a defect whose text contains the text it replaces,
which the declared mutations do not have, functions of one name and body (the
probe cannot tell them apart), and a mutation that compiles to the same bytecode,
which the probe refuses.

Left out whole: `release_contract.py` (checks of files and tags without state of
their own), `gen_keyring_vectors.py` (it writes test vectors), the pipeline in
`.dagger/` (containers that GitHub runs), the encoder, the fusion of rankings and
the model files of `localvec/` (numeric code and I/O), and the commands `route`
and `keygen`.

## 6. Findings

- `CacheWedge` (`cas.py` 118): a process killed between opening
  `<name>.tmp.<pid>` and renaming it blocks that name for each later process
  with its id. In a container the id is always the same one, so no retry gets
  past it. The temporary of `active` is not swept by a collection either.
- `CacheUnverified` (`cas.py` 249): a fetched chunk has its final name before it
  is verified. A death in between leaves a bad chunk that the next sync counts
  as reused and then fails on, until somebody deletes it.
- `CacheLateSequence` (`cas.py` 444): a sequence decides nothing while the active
  pointer has none, so a device with an incomparable label refuses the release
  that introduces sequences, and every later one under such a label.
- `SnapshotMisreadCollection` (`snapshot_store.py` 239): the collection takes a
  generation it cannot read for an incomplete one. A read error there deletes
  the generation that was just committed, and `save` reports success. The same
  at line 166 hides the newest generation from the check of a save, so that a
  stale save passes and its commit buries the other one.
- `VectorFilters` (`faiss_index.py` 244): a search fetches as many rows as it
  wants hits, and one more for each dead row. The live rows that a filter drops
  are not counted, so a filtered search returns fewer hits than there are. It is sound
  all the same (`FilteredSearchesAreSound`, section 4).

Two things that the properties except by name, since the code does not keep them.

- A publish that copies its chunks and is killed between a copy and its flush
  (`publish.py` 205-206) leaves a file whose bytes were never flushed. The next
  publish finds it equal (line 191), does not flush it, and moves `latest`; a
  power loss then takes the chunk away, where `CHANGELOG.md` 189-190 says that
  `latest` cannot outlive the objects it references. `LatestComplete` and
  `DevicesServed` except it with `cut`; without that TLC shows 18 steps.
- Two edits of a keyring at once (`cli/app.py` 460) lose one of them, a
  revocation that was reported included, where the command says that a revoked
  key's "signatures never verify again". The keyring's properties except it with
  `overlapped`; without that TLC shows 8 steps.

Three observations that no document contradicts: a file that an older release
left where a newer one needs a directory makes each later materialization fail
(`cli/app.py` 742); when the directory's fsync
fails after the manifest is in place, `save` raises although its generation is
active, and the caller's own retry is then refused as a conflict; and a number
given again lets a manifest be replaced by another one of the same name, which
the second listing of a reader, comparing names (`snapshot_store.py` 170), does
not notice. What it returns is current all the same while one generation has gone
bad (`LoadsAreCurrent`). With two it need not be, as TLC shows in 54 steps: the
newest has gone bad, the reader steps over its manifest while a save replaces it,
then the next one goes bad, and the reader returns the one below that, though the
new generation lies above it under the number it stepped over.

## 7. Plan

The parts that keep state are modelled. What is left, in this order:

1. A composition of `Origin` and `CacheSync`, in which the releases that a cache
   syncs are those a publisher lays out, with a clock for expiry and the rings of
   `Keyring` for trust.
2. Of the index, the statistics that decide on a rebuild and a caller that keeps
   the metadata it inserted.
