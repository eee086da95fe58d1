--------------------------- MODULE SnapshotStore ---------------------------
(***************************************************************************)
(* The snapshot directory of a vector index: processes that save to it and *)
(* load from it under its file lock, and readers on a read-only mount that *)
(* load without it (edgeproc/localvec/snapshot_store.py and the            *)
(* persistence half of faiss_index.py).                                    *)
(*                                                                         *)
(* A generation is the pair of data files and the manifest of one save; it *)
(* stands for its content.  Every file operation is a step of its own, so  *)
(* that a process may die, and a reader look, between any two.  A sequence *)
(* number names a manifest file, and may name another one later.           *)
(***************************************************************************)
EXTENDS Integers, FiniteSetsExt

CONSTANTS
  Writer,          \* processes that take the lock
  Reader,          \* processes that cannot
  MaxSequence,     \* the last sequence number a file name can hold
  MaxGenerations,  \* bound: saves in one behaviour
  Attempts,        \* how often an unstable read is tried
  LegacyPair,      \* was the directory written by 0.4.0?
  Budget,          \* bound: how often each kind of trouble happens
  NoWriter

Kind == {"index", "state"}
Trouble == {"crash", "write", "read", "rot"}

ASSUME StoreAssumption ==
  /\ MaxSequence \in Nat \ {0} /\ MaxGenerations \in Nat /\ Attempts \in Nat \ {0}
  /\ LegacyPair \in BOOLEAN
  /\ Budget \in [Trouble -> Nat]
  /\ NoWriter \notin Writer

Sequence == 1..MaxSequence
Generation == 1..MaxGenerations
Nothing == -1   \* no generation
Legacy == 0     \* the content of the 0.4.0 pair

VARIABLES
  manifest,     \* the generation that each manifest file names
  files, temps, \* the data files <<kind, generation>> and their temporaries
  legacy,       \* what is left of the 0.4.0 pair
  rotten,       \* committed generations with a file that no longer verifies
  lock, pc, job, base,
  minted,       \* generations given out so far
  look,         \* look[r]: the local variables of a reader
  spent,        \* trouble so far
  committed,    \* history: the generations whose commit took place
  newestSeen    \* history: what was newest at some time during a reader's load

disk == <<manifest, files, temps, legacy, rotten>>
writers == <<lock, pc, job, base, minted>>
vars == <<disk, writers, look, spent, committed, newestSeen>>

Saving == {"assert", "sequence", "stage_index", "stage_state", "rename_index",
           "rename_state", "commit", "collect", "sweep_manifests", "sweep_data"}
Locked == Saving \cup {"load", "drop_index", "drop_state"}

Job == [sequence : Sequence \cup {Nothing}, generation : Generation \cup {Nothing},
        keep : SUBSET Sequence, migrating : BOOLEAN]
NoJob == [sequence |-> Nothing, generation |-> Nothing, keep |-> {}, migrating |-> FALSE]

Look == [at : {"idle", "list", "scan", "verify", "stable", "legacy_index", "legacy_state"},
         listed : SUBSET Sequence, rest : SUBSET Sequence,
         found : Generation \cup {Legacy, Nothing},
         tries : 0..Attempts, loads : 0..Attempts]
NoLook == [at |-> "idle", listed |-> {}, rest |-> {}, found |-> Nothing, tries |-> 0, loads |-> 0]

Init ==
  /\ manifest = [s \in Sequence |-> Nothing]
  /\ files = {}
  /\ temps = {}
  /\ legacy = IF LegacyPair THEN Kind ELSE {}
  /\ rotten = {}
  /\ lock = NoWriter
  /\ pc = [w \in Writer |-> "idle"]
  /\ job = [w \in Writer |-> NoJob]
  /\ base = [w \in Writer |-> Nothing]
  /\ minted = 0
  /\ look = [r \in Reader |-> NoLook]
  /\ spent = [t \in Trouble |-> 0]
  /\ committed = {}
  /\ newestSeen = [r \in Reader |-> {}]

-----------------------------------------------------------------------------
(***************************************************************************)
(* What the directory holds.                                               *)
(***************************************************************************)
Manifests == {s \in Sequence : manifest[s] # Nothing}

\* A generation verifies when both files are there and match their digests.
Verifies(g) == Kind \X {g} \subseteq files /\ g \notin rotten

Complete == {s \in Manifests : Verifies(manifest[s])}

\* Mutant: sorted the other way round.
LatestOldest(S) == manifest[Min(S)]

\* What latest() finds, among the manifests it can read.
Latest(S) == manifest[Max(S)]

\* What a load would find now.
Newest ==
  CASE Complete # {} -> Latest(Complete)
    [] Manifests = {} /\ legacy = Kind -> Legacy
    [] OTHER -> Nothing

\* Mutant: only the active generation is retained.
RetainedOne(S) == {s \in S : \A t \in S : t <= s}

\* The newest two of the complete ones (_RETAIN_GENERATIONS).
Retained(S) == {s \in S : Cardinality({t \in S : t > s}) < 2}

Suffer(t) ==
  /\ spent[t] < Budget[t]
  /\ spent' = [spent EXCEPT ![t] = @ + 1]

\* An error of the operating system on a read counts as an incomplete
\* generation: the manifests that a scan of the complete ones misses.
Misread(missed) ==
  \/ missed = {} /\ UNCHANGED spent
  \/ (\E s \in Complete : missed = {s}) /\ Suffer("read")

Goto(w, next) ==
  /\ pc' = [pc EXCEPT ![w] = next]
  /\ UNCHANGED lock

Leave(w) ==
  /\ pc' = [pc EXCEPT ![w] = "idle"]
  /\ job' = [job EXCEPT ![w] = NoJob]
  /\ lock' = NoWriter

-----------------------------------------------------------------------------
(***************************************************************************)
(* Save: _assert_current, _next_sequence, then the generation's files.     *)
(***************************************************************************)
Begin(w, purpose) ==
  /\ pc[w] = "idle"
  /\ lock = NoWriter
  /\ lock' = w
  /\ pc' = [pc EXCEPT ![w] = purpose]
  /\ UNCHANGED <<disk, job, base, minted, look, spent, committed>>

BeginSave(w) == Begin(w, "assert")
BeginLoad(w) == Begin(w, "load")

\* Mutant: a save overwrites whatever is there.
AssertNothing(w) ==
  /\ pc[w] = "assert"
  /\ Goto(w, "sequence")
  /\ UNCHANGED <<disk, job, base, minted, look, spent, committed>>

AssertCurrent(w) ==
  /\ pc[w] = "assert"
  /\ \/ base[w] = Nothing /\ Goto(w, "sequence") /\ UNCHANGED <<job, spent>>
     \/ /\ base[w] # Nothing
        /\ \E missed \in SUBSET Sequence :
             /\ Misread(missed)
             /\ IF Complete \ missed # {} /\ Latest(Complete \ missed) = base[w]
                THEN Goto(w, "sequence") /\ UNCHANGED job
                ELSE Leave(w)
  /\ UNCHANGED <<disk, base, minted, look, committed>>

\* Mutant: the last sequence number is not the end.
ExhaustedLate(S) == S # {} /\ Max(S) > MaxSequence

Exhausted(S) == S # {} /\ Max(S) >= MaxSequence

NextSequence(w) ==
  /\ pc[w] = "sequence"
  /\ \E missed \in SUBSET Sequence :
       LET S == Complete \ missed IN
       /\ Misread(missed)
       /\ IF Exhausted(S) \/ minted = MaxGenerations
          THEN Leave(w) /\ UNCHANGED minted
          ELSE /\ minted' = minted + 1
               /\ job' = [job EXCEPT ![w].sequence = IF S = {} THEN 1 ELSE Max(S) + 1,
                                     ![w].generation = minted + 1]
               /\ Goto(w, "stage_index")
  /\ UNCHANGED <<disk, base, look, committed>>

\* The finally clause: no temporary of this generation survives a failure.
AbandonSave(w) ==
  /\ Suffer("write")
  /\ temps' = temps \ (Kind \X {job[w].generation})
  /\ Leave(w)

Stage(w, kind, next) ==
  /\ \/ /\ temps' = temps \cup {<<kind, job[w].generation>>}
        /\ Goto(w, next)
        /\ UNCHANGED <<job, spent>>
     \/ AbandonSave(w)
  /\ UNCHANGED <<manifest, files, legacy, rotten, base, minted, look, committed>>

StageIndex(w) == pc[w] = "stage_index" /\ Stage(w, "index", "stage_state")
StageState(w) == pc[w] = "stage_state" /\ Stage(w, "state", "rename_index")

Rename(w, kind, next) ==
  /\ \/ /\ temps' = temps \ {<<kind, job[w].generation>>}
        /\ files' = files \cup {<<kind, job[w].generation>>}
        /\ Goto(w, next)
        /\ UNCHANGED <<job, spent>>
     \/ AbandonSave(w) /\ UNCHANGED files
  /\ UNCHANGED <<manifest, legacy, rotten, base, minted, look, committed>>

\* Mutant: the manifest is committed before the second file has its name.
RenameIndexOnly(w) == pc[w] = "rename_index" /\ Rename(w, "index", "commit")

RenameIndex(w) == pc[w] = "rename_index" /\ Rename(w, "index", "rename_state")
RenameState(w) == pc[w] = "rename_state" /\ Rename(w, "state", "commit")

\* The manifest's own temporary has a name nothing ever looks for.  Writing or
\* renaming it may fail before the commit, the directory's fsync after it.
CommitManifest(w) ==
  /\ pc[w] = "commit"
  /\ \/ /\ manifest' = [manifest EXCEPT ![job[w].sequence] = job[w].generation]
        /\ committed' = committed \cup {job[w].generation}
        /\ \/ Goto(w, "collect") /\ UNCHANGED <<temps, job, spent>>
           \/ AbandonSave(w)
     \/ AbandonSave(w) /\ UNCHANGED <<manifest, committed>>
  /\ UNCHANGED <<files, legacy, rotten, base, minted, look>>

-----------------------------------------------------------------------------
(***************************************************************************)
(* The collection after a commit.  Its failures do not fail the save.      *)
(***************************************************************************)
Committed(w) ==
  IF job[w].migrating
  THEN Goto(w, "drop_index") /\ UNCHANGED <<job, base>>
  ELSE Leave(w) /\ base' = [base EXCEPT ![w] = job[w].generation]

CollectOldGenerations(w) ==
  /\ pc[w] = "collect"
  /\ \E missed \in SUBSET Sequence :
       /\ Misread(missed)
       /\ job' = [job EXCEPT ![w].keep = Retained(Complete \ missed)]
  /\ Goto(w, "sweep_manifests")
  /\ UNCHANGED <<disk, base, minted, look, committed>>

\* Newest first, as the manifests were listed.
SweepManifest(w) ==
  LET old == Manifests \ job[w].keep IN
  /\ pc[w] = "sweep_manifests"
  /\ IF old # {}
     THEN manifest' = [manifest EXCEPT ![Max(old)] = Nothing] /\ UNCHANGED <<lock, pc>>
     ELSE Goto(w, "sweep_data") /\ UNCHANGED manifest
  /\ UNCHANGED <<files, temps, legacy, rotten, job, base, minted, look, spent, committed>>

\* Mutant: temporaries are not taken for generation data.
UnreferencedFinal(w) == {f \in files : f[2] \notin {manifest[s] : s \in job[w].keep}}

Unreferenced(w) == {f \in files \cup temps : f[2] \notin {manifest[s] : s \in job[w].keep}}

SweepData(w) ==
  /\ pc[w] = "sweep_data"
  /\ \E f \in Unreferenced(w) : files' = files \ {f} /\ temps' = temps \ {f}
  /\ UNCHANGED <<manifest, legacy, rotten, writers, look, spent, committed>>

Swept(w) ==
  /\ pc[w] = "sweep_data"
  /\ Unreferenced(w) = {}
  /\ Committed(w)
  /\ UNCHANGED <<disk, minted, look, spent, committed>>

\* _collect_after_commit logs and carries on.
DeferCleanup(w) ==
  /\ pc[w] \in {"collect", "sweep_manifests", "sweep_data"}
  /\ Suffer("write")
  /\ Committed(w)
  /\ UNCHANGED <<disk, minted, look, committed>>

-----------------------------------------------------------------------------
(***************************************************************************)
(* Load, under the lock; the first one migrates a 0.4.0 pair.              *)
(***************************************************************************)
Load(w) ==
  /\ pc[w] = "load"
  /\ \E missed \in SUBSET Sequence :
       LET S == Complete \ missed IN
       /\ Misread(missed)
       /\ \/ /\ S # {}
             /\ base' = [base EXCEPT ![w] = Latest(S)]
             /\ Leave(w)
          \/ /\ Manifests = {} /\ legacy = Kind
             /\ job' = [job EXCEPT ![w].migrating = TRUE]
             /\ Goto(w, "sequence")
             /\ UNCHANGED base
          \/ /\ S = {} /\ (Manifests # {} \/ legacy # Kind)
             /\ Leave(w)
             /\ UNCHANGED base
  /\ UNCHANGED <<disk, minted, look, committed>>

DropLegacy(w) ==
  /\ \/ /\ pc[w] = "drop_index"
        /\ legacy' = legacy \ {"index"}
        /\ Goto(w, "drop_state")
        /\ UNCHANGED <<job, base>>
     \/ /\ pc[w] = "drop_state"
        /\ legacy' = legacy \ {"state"}
        /\ base' = [base EXCEPT ![w] = job[w].generation]
        /\ Leave(w)
  /\ UNCHANGED <<manifest, files, temps, rotten, minted, look, spent, committed>>

\* An unlink fails: so does the load, though the migration has committed.
MigrationFails(w) ==
  /\ pc[w] \in {"drop_index", "drop_state"}
  /\ Suffer("write")
  /\ Leave(w)
  /\ UNCHANGED <<disk, base, minted, look, committed>>

\* The process is killed: its lock and its index are gone, its files stay.
Crash(w) ==
  /\ pc[w] \in Locked
  /\ Suffer("crash")
  /\ Leave(w)
  /\ base' = [base EXCEPT ![w] = Nothing]
  /\ UNCHANGED <<disk, minted, look, committed>>

\* A file of a committed generation goes bad.
Rot ==
  /\ Suffer("rot")
  /\ \E s \in Complete : rotten' = rotten \cup {manifest[s]}
  /\ UNCHANGED <<manifest, files, temps, legacy, writers, look, committed>>

-----------------------------------------------------------------------------
(***************************************************************************)
(* Load without the lock: list, scan from the newest, list again.          *)
(***************************************************************************)
ReaderStep(r, new) ==
  /\ look' = [look EXCEPT ![r] = new]
  /\ UNCHANGED <<disk, writers, committed>>

\* A FileNotFoundError starts the load anew, so many times.
LoadAgain(r) ==
  IF look[r].loads < Attempts
  THEN [NoLook EXCEPT !.at = "list", !.tries = 1, !.loads = look[r].loads + 1]
  ELSE NoLook

BeginRead(r) ==
  /\ look[r].at = "idle"
  /\ ReaderStep(r, [NoLook EXCEPT !.at = "list", !.tries = 1, !.loads = 1])
  /\ UNCHANGED spent

List(r) ==
  /\ look[r].at = "list"
  /\ ReaderStep(r, IF Manifests = {}
                   THEN [look[r] EXCEPT !.at = "legacy_index"]
                   ELSE [look[r] EXCEPT !.at = "scan", !.listed = Manifests, !.rest = Manifests])
  /\ UNCHANGED spent

\* The next listed manifest, and the index file it names: opened, it stays
\* readable when it is unlinked.
Scan(r) ==
  LET s == Max(look[r].rest)
      skip == [look[r] EXCEPT !.rest = @ \ {s}]
  IN
  /\ look[r].at = "scan"
  /\ look[r].rest # {}
  /\ \/ /\ <<"index", manifest[s]>> \in files
        /\ ReaderStep(r, [skip EXCEPT !.at = "verify", !.found = manifest[s]])
        /\ UNCHANGED spent
     \/ <<"index", manifest[s]>> \notin files /\ ReaderStep(r, skip) /\ UNCHANGED spent
     \/ ReaderStep(r, skip) /\ Suffer("read")

ScanEnds(r) ==
  /\ look[r].at = "scan"
  /\ look[r].rest = {}
  /\ ReaderStep(r, [look[r] EXCEPT !.at = "stable"])
  /\ UNCHANGED spent

Verify(r) ==
  LET g == look[r].found
      sound == <<"state", g>> \in files /\ g \notin rotten
  IN
  /\ look[r].at = "verify"
  /\ ReaderStep(r, IF sound THEN [look[r] EXCEPT !.at = "stable"]
                            ELSE [look[r] EXCEPT !.at = "scan", !.found = Nothing])
  /\ UNCHANGED spent

\* Mutant: one listing is enough.
UnchangedTrusting(r) == TRUE

Unchanged(r) == Manifests = look[r].listed

\* A load ends with what it found, or with an error.
Stable(r) ==
  /\ look[r].at = "stable"
  /\ ReaderStep(r, CASE Unchanged(r) -> [NoLook EXCEPT !.found = look[r].found]
                     [] ~Unchanged(r) /\ look[r].tries < Attempts ->
                          [NoLook EXCEPT !.at = "list", !.tries = look[r].tries + 1,
                                         !.loads = look[r].loads]
                     [] OTHER -> NoLook)
  /\ UNCHANGED spent

ReadLegacy(r) ==
  /\ \/ /\ look[r].at = "legacy_index"
        /\ ReaderStep(r, IF "index" \in legacy THEN [look[r] EXCEPT !.at = "legacy_state"]
                                               ELSE LoadAgain(r))
     \/ /\ look[r].at = "legacy_state"
        /\ ReaderStep(r, IF "state" \in legacy THEN [NoLook EXCEPT !.found = Legacy]
                                               ELSE LoadAgain(r))
  /\ UNCHANGED spent

-----------------------------------------------------------------------------
SaveStep(w) ==
  \/ AssertCurrent(w) \/ NextSequence(w)
  \/ StageIndex(w) \/ StageState(w) \/ RenameIndex(w) \/ RenameState(w)
  \/ CommitManifest(w) \/ CollectOldGenerations(w) \/ SweepManifest(w)
  \/ SweepData(w) \/ Swept(w) \/ DeferCleanup(w)

WriterStep(w) ==
  BeginSave(w) \/ SaveStep(w) \/ BeginLoad(w) \/ Load(w) \/ DropLegacy(w)
  \/ MigrationFails(w) \/ Crash(w)

Read(r) ==
  BeginRead(r) \/ List(r) \/ Scan(r) \/ ScanEnds(r) \/ Verify(r) \/ Stable(r) \/ ReadLegacy(r)

\* A load in progress has seen every generation that was newest since it began.
Observe ==
  newestSeen' = [r \in Reader |->
    CASE look'[r].at = "idle" -> {}
      [] look[r].at = "idle" /\ look'[r].at # "idle" -> {Newest}
      [] OTHER -> newestSeen[r] \cup {Newest'}]

Next ==
  /\ Rot \/ (\E w \in Writer : WriterStep(w)) \/ \E r \in Reader : Read(r)
  /\ Observe

Spec == Init /\ [][Next]_vars

-----------------------------------------------------------------------------
(***************************************************************************)
(* Properties.                                                             *)
(***************************************************************************)
\* The ranges of the variables the system has, the history aside.
Typed ==
  /\ manifest \in [Sequence -> Generation \cup {Nothing}]
  /\ files \subseteq Kind \X Generation /\ temps \subseteq Kind \X Generation
  /\ legacy \subseteq Kind /\ rotten \subseteq Generation
  /\ lock \in Writer \cup {NoWriter}
  /\ pc \in [Writer -> {"idle"} \cup Locked]
  /\ job \in [Writer -> Job]
  /\ base \in [Writer -> Generation \cup {Nothing}]
  /\ minted \in 0..MaxGenerations
  /\ look \in [Reader -> Look]
  /\ spent \in [Trouble -> Nat] /\ \A t \in Trouble : spent[t] <= Budget[t]
  /\ committed \subseteq 1..minted

\* Every variable keeps to its range; no sequence number is too long for a
\* file name (_MAX_SEQUENCE).
TypeInvariant ==
  /\ Typed
  /\ newestSeen \in [Reader -> SUBSET (Generation \cup {Legacy, Nothing})]

\* A load finds the last generation that was committed, or the one before
\* it when that one has gone bad: at every moment of a save, of a collection
\* and of a migration, and after a death in the middle of one (latest).
RecoversNewestIntact ==
  Cardinality(rotten) <= 1 /\ committed \ rotten # {} =>
    Newest = Max(committed \ rotten)

\* A load without the lock returns what was the newest generation at some
\* moment between its start and its end, however many saves, collections and
\* migrations go by (_manifest_set_is_stable).
LoadIsCurrent ==
  [][\A r \in Reader :
       look[r].at # "idle" /\ look'[r].at = "idle" =>
         look'[r].found \in newestSeen[r] \cup {Nothing}]_vars

\* A collection that ran to its end leaves at most two generations, all of
\* their files, and no leftovers of saves that died (_collect_old_generations).
CollectedExactly ==
  [][\A w \in Writer :
       Swept(w) =>
         /\ Cardinality(Manifests') <= 2
         /\ files' = Kind \X {manifest'[s] : s \in Manifests'}
         /\ temps' = {}]_vars

\* A loaded index only ever replaces the generation it was loaded from, or
\* one that has gone bad (_assert_current).
NoLostUpdate ==
  [][\A w \in Writer :
       /\ pc[w] = "commit" /\ committed' # committed
       /\ base[w] # Nothing
       => Max(committed) \in rotten \cup {base[w]}]_vars

Current == IF Newest = Legacy THEN Nothing ELSE Newest

Register == INSTANCE SnapshotRegister WITH current <- Current

\* As long as no file goes bad, the directory is one compare-and-swap register
\* (SnapshotRegister): a commit, with all its files, is one step.
ImplementsRegister == Register!Spec

-----------------------------------------------------------------------------
(***************************************************************************)
(* The inductive invariant, for an operating system whose reads succeed.   *)
(* Whoever is inside the lock has a number above every complete manifest,  *)
(* stands on the newest generation, and keeps it.                          *)
(***************************************************************************)
Writing == {"stage_index", "stage_state", "rename_index", "rename_state", "commit"}
AfterCommit == {"collect", "sweep_manifests", "sweep_data", "drop_index", "drop_state"}

ManifestsCommitted == \A s \in Sequence : manifest[s] \in committed \cup {Nothing}

\* The manifest s shows the last committed generation, and no complete one is above it.
Shows(s) ==
  /\ s \in Complete
  /\ manifest[s] = Max(committed)
  /\ \A t \in Complete : t <= s

NewestIntact == committed # {} /\ Max(committed) \notin rotten

NewestShown == NewestIntact => \E s \in Sequence : Shows(s)

Numbered(w) ==
  pc[w] \in Writing =>
    /\ job[w].generation = minted /\ minted \in Generation \ committed
    /\ job[w].sequence \in Sequence
    /\ \A s \in Complete : s < job[w].sequence

Staged(w) ==
  /\ pc[w] \in {"rename_state", "commit"} => <<"index", minted>> \in files
  /\ pc[w] = "commit" => <<"state", minted>> \in files

StandsOnNewest(w) ==
  pc[w] \in {"sequence"} \cup Writing /\ base[w] # Nothing =>
    Max(committed) \in rotten \cup {base[w]}

JustCommitted(w) ==
  pc[w] \in AfterCommit => job[w].generation \in committed /\ job[w].generation = Max(committed)

KeepsNewest(w) ==
  pc[w] \in {"sweep_manifests", "sweep_data"} /\ NewestIntact =>
    \E s \in job[w].keep : Shows(s)

Inside(w) ==
  pc[w] \in Locked =>
    /\ lock = w
    /\ Numbered(w) /\ Staged(w) /\ StandsOnNewest(w) /\ JustCommitted(w) /\ KeepsNewest(w)

\* What the process inside the lock knows of the directory stays true, and the
\* last committed generation shows unless it has gone bad.
IndInv ==
  /\ Typed
  /\ ManifestsCommitted
  /\ rotten \subseteq committed
  /\ \A w \in Writer : base[w] \in committed \cup {Nothing}
  /\ NewestShown
  /\ \A w \in Writer : Inside(w)
=============================================================================
