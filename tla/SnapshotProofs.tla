--------------------------- MODULE SnapshotProofs ---------------------------
(***************************************************************************)
(* Proofs about SnapshotStore for every set of writers and readers, every  *)
(* number of generations and every amount of trouble.  Types and what a    *)
(* collection leaves need nothing more (BooksInv); the properties about    *)
(* the newest generation need ReadsSucceed, without which they fail; the   *)
(* refinement needs files that stay good, and readers without the lock at  *)
(* most one that goes bad.  The process inside the lock is alone there, so *)
(* a step answers for that process and for the directory.                  *)
(***************************************************************************)
EXTENDS SnapshotStore, FiniteSetTheorems, WellFoundedInduction, TLAPS

ReadsSucceed == Budget["read"] = 0

USE DEF Saving, Locked, Writing, AfterCommit, Kind, Trouble, Sequence, Generation, Nothing, Legacy

-----------------------------------------------------------------------------
(***************************************************************************)
(* The greatest element of a set of sequence numbers.                      *)
(***************************************************************************)
Below == {d \in Nat \X Nat : d[1] < d[2]}

\* The naturals have no infinite descent.
LEMMA BelowWellFounded == IsWellFoundedOn(Below, Nat)
<1>1. Below \cap (Nat \X Nat) \subseteq OpToRel(<, Nat)
  BY DEF Below, OpToRel
<1>2. QED
  BY <1>1, NatLessThanWellFounded, IsWellFoundedOnSubrelation

\* A nonempty set of numbers up to N has a greatest element, and Max is it.
LEMMA MaxFact ==
  ASSUME NEW N \in Nat, NEW S \in SUBSET (1..N), S # {}
  PROVE  Max(S) \in S /\ \A t \in S : t <= Max(S)
<1> DEFINE T == {k \in Nat : \E s \in S : k + s = N}
<1>1. T \subseteq Nat /\ T # {}
  <2>1. PICK s \in S : TRUE
    OBVIOUS
  <2>2. s \in 1..N /\ N - s \in Nat /\ (N - s) + s = N
    OBVIOUS
  <2>3. QED
    BY <2>1, <2>2
<1>2. PICK x \in T : \A y \in T : ~ (<<y, x>> \in Below)
  BY <1>1, BelowWellFounded, WFMin
<1>3. ASSUME NEW y \in T
      PROVE  x <= y
  <2>1. x \in Nat /\ y \in Nat /\ <<y, x>> \notin Below
    BY <1>2
  <2>2. ~ (y < x)
    BY <2>1 DEF Below
  <2>3. QED
    BY <2>1, <2>2
<1>4. PICK m \in S : x + m = N
  BY <1>2
<1>5. ASSUME NEW t \in S
      PROVE  m >= t
  <2>1. t \in 1..N /\ N - t \in Nat /\ (N - t) + t = N
    OBVIOUS
  <2>2. x <= N - t
    BY <2>1, <1>3
  <2>3. QED
    BY <2>1, <2>2, <1>4
<1>6. QED
  BY <1>5 DEF Max

\* What is above everything else in a set of numbers is its Max.
LEMMA MaxIs ==
  ASSUME NEW S \in SUBSET Int, NEW m \in S, \A t \in S : t <= m
  PROVE  Max(S) = m
<1>1. \A x \in S : (\A y \in S : x >= y) <=> x = m
  OBVIOUS
<1>2. QED
  BY <1>1 DEF Max

-----------------------------------------------------------------------------
(***************************************************************************)
(* Common parts of the steps.                                              *)
(***************************************************************************)
\* With reads that succeed, a scan misses no complete generation.
LEMMA NothingMissed ==
  ASSUME ReadsSucceed, Typed, NEW missed, Misread(missed)
  PROVE  missed = {} /\ Complete \ missed = Complete /\ UNCHANGED spent
BY StoreAssumption DEF ReadsSucceed, Typed, Misread, Suffer

\* Trouble stays within its budget.
LEMMA SufferTyped ==
  ASSUME Typed, NEW t \in Trouble, Suffer(t)
  PROVE  spent' \in [Trouble -> Nat] /\ \A u \in Trouble : spent'[u] <= Budget[u]
<1>1. spent \in [Trouble -> Nat] /\ \A u \in Trouble : spent[u] <= Budget[u] /\ Budget[u] \in Nat
  BY StoreAssumption DEF Typed
<1>2. spent' = [spent EXCEPT ![t] = spent[t] + 1] /\ spent[t] < Budget[t]
  BY DEF Suffer
<1>3. QED
  BY <1>1, <1>2

\* The complete manifests are sequence numbers.
LEMMA CompleteNumbers == Complete \subseteq Sequence
BY DEF Complete, Manifests

\* What was committed was given out.
LEMMA CommittedGenerations ==
  ASSUME Typed
  PROVE  committed \subseteq Generation
BY StoreAssumption DEF Typed

\* Where the files and the history stay, what shows stays.
LEMMA DirectoryKept ==
  ASSUME IndInv, UNCHANGED <<manifest, files, rotten, committed>>
  PROVE  /\ Complete' = Complete
         /\ ManifestsCommitted' /\ rotten' \subseteq committed' /\ NewestShown'
         /\ NewestIntact' <=> NewestIntact
         /\ \A s : Shows(s)' <=> Shows(s)
<1>1. Complete' = Complete
  BY DEF Complete, Manifests, Verifies
<1>2. \A s : Shows(s)' <=> Shows(s)
  BY <1>1 DEF Shows
<1>3. NewestIntact' <=> NewestIntact
  BY DEF NewestIntact
<1>4. QED
  BY <1>1, <1>2, <1>3 DEF IndInv, ManifestsCommitted, NewestShown

\* At most one process is inside the lock.
LEMMA Alone ==
  ASSUME IndInv, NEW w \in Writer, pc[w] \in Locked, NEW v \in Writer, v # w
  PROVE  pc[v] \notin Locked
BY DEF IndInv, Inside

\* A step of the process inside the lock answers for that process only.
LEMMA OthersOutside ==
  ASSUME IndInv, NEW w \in Writer, pc[w] \in Locked,
         \A v \in Writer \ {w} : pc'[v] = pc[v],
         Inside(w)'
  PROVE  \A v \in Writer : Inside(v)'
<1> SUFFICES ASSUME NEW v \in Writer, v # w
             PROVE  Inside(v)'
  OBVIOUS
<1>1. pc'[v] \notin Locked
  BY Alone
<1>2. QED
  BY <1>1 DEF Inside

\* Leaving the lock gives up every claim.
LEMMA LeaveTyped ==
  ASSUME Typed, NEW w \in Writer, Leave(w)
  PROVE  /\ pc' \in [Writer -> {"idle"} \cup Locked]
         /\ job' \in [Writer -> Job]
         /\ lock' \in Writer \cup {NoWriter}
         /\ \A v \in Writer \ {w} : pc'[v] = pc[v]
         /\ Inside(w)'
BY DEF Typed, Leave, Inside, Job, NoJob

\* Moving on inside the lock.
LEMMA GotoTyped ==
  ASSUME Typed, NEW w \in Writer, NEW next \in {"idle"} \cup Locked, Goto(w, next)
  PROVE  /\ pc' \in [Writer -> {"idle"} \cup Locked]
         /\ lock' \in Writer \cup {NoWriter}
         /\ pc'[w] = next
         /\ \A v \in Writer \ {w} : pc'[v] = pc[v]
BY DEF Typed, Goto

\* An empty directory satisfies the invariant.
LEMMA InitHolds == Init => IndInv
<1> SUFFICES ASSUME Init
             PROVE  IndInv
  OBVIOUS
<1>1. Typed
  BY StoreAssumption DEF Init, Typed, Job, NoJob, Look, NoLook
<1>2. ManifestsCommitted /\ rotten \subseteq committed /\ NewestShown
  BY DEF Init, ManifestsCommitted, NewestShown, NewestIntact
<1>3. \A w \in Writer : base[w] \in committed \cup {Nothing} /\ Inside(w)
  BY DEF Init, Inside
<1>4. QED
  BY <1>1, <1>2, <1>3 DEF IndInv

-----------------------------------------------------------------------------
(***************************************************************************)
(* The steps of the process inside the lock.                               *)
(***************************************************************************)
\* What is left to show for a step taken inside the lock.
LEMMA InsideStep ==
  ASSUME IndInv, NEW w \in Writer, pc[w] \in Locked,
         \A v \in Writer \ {w} : pc'[v] = pc[v],
         Typed', ManifestsCommitted', rotten' \subseteq committed',
         \A v \in Writer : base'[v] \in committed' \cup {Nothing},
         NewestShown', Inside(w)'
  PROVE  IndInv'
BY OthersOutside DEF IndInv

\* A step that leaves the directory alone answers for its process alone.
LEMMA QuietStep ==
  ASSUME IndInv, NEW w \in Writer, pc[w] \in Locked,
         \A v \in Writer \ {w} : pc'[v] = pc[v],
         UNCHANGED <<manifest, files, rotten, committed>>,
         Typed', \A v \in Writer : base'[v] \in committed \cup {Nothing},
         Inside(w)'
  PROVE  IndInv'
BY DirectoryKept, InsideStep

\* Among the complete manifests the last is that of the last commit, unless it
\* has gone bad.
LEMMA LatestIsNewest ==
  ASSUME IndInv, Complete # {}
  PROVE  /\ Latest(Complete) \in committed
         /\ Max(committed) \in rotten \cup {Latest(Complete)}
<1>1. Max(Complete) \in Complete /\ \A t \in Complete : t <= Max(Complete)
  BY CompleteNumbers, MaxFact, StoreAssumption
<1>2. Latest(Complete) \in committed
  BY <1>1 DEF Latest, Complete, Manifests, IndInv, ManifestsCommitted
<1>3. ASSUME NewestIntact
      PROVE  Latest(Complete) = Max(committed)
  <2>1. PICK s \in Sequence : Shows(s)
    BY <1>3 DEF IndInv, NewestShown
  <2>2. s = Max(Complete)
    <3>1. s \in Complete /\ Max(Complete) <= s
      BY <2>1, <1>1 DEF Shows
    <3>2. s <= Max(Complete)
      BY <3>1, <1>1
    <3>3. \A t \in Complete : t \in Nat
      BY CompleteNumbers
    <3>4. s \in Nat /\ Max(Complete) \in Nat
      BY <3>1, <3>3, <1>1
    <3>5. QED
      BY <3>1, <3>2, <3>4
  <2>3. QED
    BY <2>1, <2>2 DEF Shows, Latest
<1>4. QED
  BY <1>2, <1>3 DEF NewestIntact

\* Taking the lock is possible only while nobody is inside it.
LEMMA BeginKeeps ==
  ASSUME IndInv, NEW w \in Writer, NEW purpose \in {"assert", "load"}, Begin(w, purpose)
  PROVE  IndInv'
<1>1. \A v \in Writer : pc[v] \notin Locked
  BY StoreAssumption DEF Begin, IndInv, Inside
<1>2. Typed'
  BY DEF IndInv, Typed, Begin, disk
<1>3. pc' = [pc EXCEPT ![w] = purpose] /\ lock' = w /\ pc \in [Writer -> {"idle"} \cup Locked]
  BY DEF Begin, IndInv, Typed
<1>4. \A v \in Writer : Inside(v)'
  BY <1>1, <1>3 DEF Inside, Numbered, Staged, StandsOnNewest, JustCommitted, KeepsNewest
<1>5. UNCHANGED <<manifest, files, rotten, committed, base>>
  BY DEF Begin, disk
<1>6. QED
  BY <1>2, <1>4, <1>5, DirectoryKept DEF IndInv

\* A save goes on only on the newest generation.
LEMMA AssertCurrentKeeps ==
  ASSUME ReadsSucceed, IndInv, NEW w \in Writer, AssertCurrent(w)
  PROVE  IndInv'
<1>1. pc[w] = "assert" /\ Typed /\ lock = w
  BY DEF AssertCurrent, IndInv, Inside
<1>2. UNCHANGED <<disk, base, minted, look, committed>>
  BY DEF AssertCurrent
<1>3. spent' = spent
  BY <1>1, NothingMissed DEF AssertCurrent
<1>4. CASE Leave(w)
  BY <1>1, <1>2, <1>3, <1>4, LeaveTyped, QuietStep DEF IndInv, Typed, disk
<1>5. CASE /\ Goto(w, "sequence") /\ job' = job
           /\ base[w] = Nothing \/ (Complete # {} /\ Latest(Complete) = base[w])
  <2>1. pc'[w] = "sequence" /\ lock' = w
    BY <1>1, <1>5, GotoTyped DEF Goto
  <2>2. Typed' /\ \A v \in Writer \ {w} : pc'[v] = pc[v]
    BY <1>1, <1>2, <1>3, <1>5, GotoTyped DEF Typed, disk
  <2>3. StandsOnNewest(w)'
    BY <1>2, <1>5, LatestIsNewest DEF StandsOnNewest, disk
  <2>4. Inside(w)'
    BY <2>1, <2>3 DEF Inside, Numbered, Staged, JustCommitted, KeepsNewest
  <2>5. QED
    BY <1>1, <1>2, <2>2, <2>4, QuietStep DEF IndInv, disk
<1>6. \/ Leave(w)
      \/ /\ Goto(w, "sequence") /\ job' = job
         /\ base[w] = Nothing \/ (Complete # {} /\ Latest(Complete) = base[w])
  <2>1. CASE base[w] = Nothing
    <3>1. Goto(w, "sequence") /\ job' = job
      BY <2>1 DEF AssertCurrent
    <3>2. QED
      BY <2>1, <3>1
  <2>2. CASE base[w] # Nothing
    <3>1. PICK missed \in SUBSET Sequence :
            /\ Misread(missed)
            /\ IF Complete \ missed # {} /\ Latest(Complete \ missed) = base[w]
               THEN Goto(w, "sequence") /\ UNCHANGED job
               ELSE Leave(w)
      BY <2>2 DEF AssertCurrent
    <3>2. Complete \ missed = Complete
      BY <1>1, <3>1, NothingMissed
    <3>3. CASE Complete # {} /\ Latest(Complete) = base[w]
      BY <3>1, <3>2, <3>3
    <3>4. CASE ~ (Complete # {} /\ Latest(Complete) = base[w])
      BY <3>1, <3>2, <3>4
    <3>5. QED
      BY <3>3, <3>4
  <2>3. QED
    BY <2>1, <2>2
<1>7. QED
  BY <1>4, <1>5, <1>6

\* The sequence number is above every complete manifest.
LEMMA NextSequenceKeeps ==
  ASSUME ReadsSucceed, IndInv, NEW w \in Writer, NextSequence(w)
  PROVE  IndInv'
<1>1. pc[w] = "sequence" /\ Typed /\ lock = w /\ StandsOnNewest(w)
  BY DEF NextSequence, IndInv, Inside
<1>2. UNCHANGED <<disk, base, look, committed, spent>>
  BY <1>1, NothingMissed DEF NextSequence
<1>3. CASE Leave(w) /\ minted' = minted
  BY <1>1, <1>2, <1>3, LeaveTyped, QuietStep DEF IndInv, Typed, disk
<1>4. CASE /\ ~ Exhausted(Complete) /\ minted # MaxGenerations
           /\ minted' = minted + 1
           /\ job' = [job EXCEPT ![w].sequence = IF Complete = {} THEN 1 ELSE Max(Complete) + 1,
                                 ![w].generation = minted + 1]
           /\ Goto(w, "stage_index")
  <2> DEFINE s == IF Complete = {} THEN 1 ELSE Max(Complete) + 1
  <2>1. s \in Sequence /\ \A t \in Complete : t < s
    <3>1. CASE Complete = {}
      BY <3>1, StoreAssumption
    <3>2. CASE Complete # {}
      <4>1. Max(Complete) \in Complete /\ \A t \in Complete : t <= Max(Complete)
        BY <3>2, CompleteNumbers, MaxFact, StoreAssumption
      <4>2. Max(Complete) \in Nat /\ Max(Complete) < MaxSequence
        BY <4>1, <1>4, <3>2, CompleteNumbers, StoreAssumption DEF Exhausted
      <4>3. \A t \in Complete : t \in Nat
        BY CompleteNumbers
      <4>4. QED
        BY <4>1, <4>2, <4>3, <3>2, StoreAssumption
    <3>3. QED
      BY <3>1, <3>2
  <2>2. minted + 1 \in Generation \ committed
    BY <1>1, <1>4, StoreAssumption DEF Typed
  <2>3. job[w] \in Job /\ job' = [job EXCEPT ![w] = [@ EXCEPT !.sequence = s, !.generation = minted + 1]]
    BY <1>1, <1>4 DEF Typed
  <2>4. job' \in [Writer -> Job] /\ job'[w].sequence = s /\ job'[w].generation = minted + 1
    BY <1>1, <2>1, <2>2, <2>3 DEF Typed, Job
  <2>5. pc'[w] = "stage_index" /\ lock' = w /\ \A v \in Writer \ {w} : pc'[v] = pc[v]
    BY <1>1, <1>4, GotoTyped DEF Goto
  <2>6. Typed'
    <3>1. minted' \in 0..MaxGenerations /\ committed \subseteq 1..minted'
      BY <1>1, <1>4, <2>2, StoreAssumption DEF Typed
    <3>2. pc' \in [Writer -> {"idle"} \cup Locked] /\ lock' \in Writer \cup {NoWriter}
      BY <1>1, <1>4, GotoTyped
    <3>3. QED
      BY <1>1, <1>2, <2>4, <3>1, <3>2 DEF Typed, disk
  <2>7. Complete' = Complete
    BY <1>2, DirectoryKept DEF disk
  <2>8. Numbered(w)'
    BY <1>2, <1>4, <2>1, <2>2, <2>4, <2>7 DEF Numbered
  <2>9. StandsOnNewest(w)'
    BY <1>1, <1>2 DEF StandsOnNewest, disk
  <2>10. Inside(w)'
    BY <2>5, <2>8, <2>9 DEF Inside, Staged, JustCommitted, KeepsNewest
  <2>11. QED
    BY <1>1, <1>2, <2>5, <2>6, <2>10, QuietStep DEF IndInv, disk
<1>5. QED
  BY <1>1, <1>3, <1>4, NothingMissed DEF NextSequence

\* What a save writes before its commit belongs to no committed generation.
LEMMA CompleteKept ==
  ASSUME IndInv, UNCHANGED <<manifest, rotten, committed>>,
         \A k \in Kind, g \in committed : <<k, g>> \in files' <=> <<k, g>> \in files
  PROVE  Complete' = Complete /\ NewestShown' /\ ManifestsCommitted' /\ rotten' \subseteq committed'
<1>1. \A g \in committed : Kind \X {g} \subseteq files' <=> Kind \X {g} \subseteq files
  OBVIOUS
<1>2. \A s \in Sequence : manifest[s] # Nothing => manifest[s] \in committed
  BY DEF IndInv, ManifestsCommitted
<1>3. Complete' = Complete
  BY <1>1, <1>2 DEF Complete, Manifests, Verifies
<1>4. QED
  BY <1>3 DEF IndInv, NewestShown, NewestIntact, Shows, ManifestsCommitted

\* A failed save gives up its temporaries and the lock.
LEMMA AbandonTyped ==
  ASSUME Typed, NEW w \in Writer, AbandonSave(w)
  PROVE  /\ temps' \subseteq Kind \X Generation
         /\ spent' \in [Trouble -> Nat] /\ \A u \in Trouble : spent'[u] <= Budget[u]
         /\ Leave(w)
BY SufferTyped DEF AbandonSave, Typed

\* Writing a temporary shows nobody anything.
LEMMA StageKeeps ==
  ASSUME IndInv, NEW w \in Writer, StageIndex(w) \/ StageState(w)
  PROVE  IndInv'
<1>1. PICK kind \in Kind, next \in {"stage_state", "rename_index"} :
        pc[w] \in {"stage_index", "stage_state"} /\ Stage(w, kind, next)
  BY DEF StageIndex, StageState
<1>2. Typed /\ Numbered(w) /\ StandsOnNewest(w) /\ lock = w
  BY <1>1 DEF IndInv, Inside
<1>3. UNCHANGED <<manifest, files, legacy, rotten, base, minted, look, committed>>
  BY <1>1 DEF Stage
<1>4. CASE AbandonSave(w)
  BY <1>1, <1>2, <1>3, <1>4, AbandonTyped, LeaveTyped, QuietStep DEF IndInv, Typed
<1>5. CASE /\ temps' = temps \cup {<<kind, job[w].generation>>}
           /\ Goto(w, next)
           /\ UNCHANGED <<job, spent>>
  <2>1. job[w].generation \in Generation
    BY <1>1, <1>2 DEF Numbered
  <2>2. pc'[w] = next /\ lock' = w /\ \A v \in Writer \ {w} : pc'[v] = pc[v]
    BY <1>1, <1>2, <1>5, GotoTyped DEF Goto
  <2>a. temps' \subseteq Kind \X Generation
    BY <1>2, <1>5, <2>1 DEF Typed
  <2>3. Typed'
    BY <1>1, <1>2, <1>3, <1>5, <2>1, <2>a, GotoTyped DEF Typed
  <2>4. Complete' = Complete
    BY <1>3, DirectoryKept
  <2>5. Numbered(w)' /\ StandsOnNewest(w)'
    BY <1>1, <1>2, <1>3, <1>5, <2>4 DEF Numbered, StandsOnNewest
  <2>6. Inside(w)'
    BY <1>1, <2>2, <2>5 DEF Inside, Staged, JustCommitted, KeepsNewest
  <2>7. QED
    BY <1>1, <1>3, <2>2, <2>3, <2>6, QuietStep DEF IndInv
<1>6. QED
  BY <1>1, <1>4, <1>5 DEF Stage

\* Giving a file of the next generation its name changes no complete generation.
LEMMA RenameKeeps ==
  ASSUME IndInv, NEW w \in Writer, RenameIndex(w) \/ RenameState(w)
  PROVE  IndInv'
<1>1. PICK kind \in Kind, next \in {"rename_state", "commit"} :
        /\ Rename(w, kind, next)
        /\ \/ pc[w] = "rename_index" /\ kind = "index" /\ next = "rename_state"
           \/ pc[w] = "rename_state" /\ kind = "state" /\ next = "commit"
  BY DEF RenameIndex, RenameState
<1>2. Typed /\ Numbered(w) /\ StandsOnNewest(w) /\ Staged(w) /\ lock = w
  BY <1>1 DEF IndInv, Inside
<1>3. UNCHANGED <<manifest, legacy, rotten, base, minted, look, committed>>
  BY <1>1 DEF Rename
<1>4. CASE AbandonSave(w) /\ UNCHANGED files
  BY <1>1, <1>2, <1>3, <1>4, AbandonTyped, LeaveTyped, QuietStep DEF IndInv, Typed
<1>5. CASE /\ temps' = temps \ {<<kind, job[w].generation>>}
           /\ files' = files \cup {<<kind, job[w].generation>>}
           /\ Goto(w, next)
           /\ UNCHANGED <<job, spent>>
  <2>1. job[w].generation = minted /\ minted \in Generation \ committed
    BY <1>1, <1>2 DEF Numbered
  <2>2. pc'[w] = next /\ lock' = w /\ \A v \in Writer \ {w} : pc'[v] = pc[v]
    BY <1>1, <1>2, <1>5, GotoTyped DEF Goto
  <2>3. Typed'
    BY <1>1, <1>2, <1>3, <1>5, <2>1, GotoTyped DEF Typed
  <2>4. Complete' = Complete /\ NewestShown' /\ ManifestsCommitted' /\ rotten' \subseteq committed'
    BY <1>3, <1>5, <2>1, CompleteKept
  <2>5. Numbered(w)' /\ StandsOnNewest(w)'
    BY <1>1, <1>2, <1>3, <1>5, <2>4 DEF Numbered, StandsOnNewest
  <2>6. Staged(w)'
    BY <1>1, <1>2, <1>3, <1>5, <2>1, <2>2 DEF Staged
  <2>7. Inside(w)'
    BY <1>1, <2>2, <2>5, <2>6 DEF Inside, JustCommitted, KeepsNewest
  <2>8. QED
    BY <1>1, <1>3, <2>2, <2>3, <2>4, <2>7, InsideStep DEF IndInv
<1>6. QED
  BY <1>1, <1>4, <1>5 DEF Rename

\* The commit: both files are there, and the manifest is above every complete one.
LEMMA CommitShows ==
  ASSUME IndInv, NEW w \in Writer, pc[w] = "commit",
         NEW s \in Sequence, NEW g \in Generation,
         s = job[w].sequence, g = job[w].generation,
         manifest' = [manifest EXCEPT ![job[w].sequence] = job[w].generation],
         committed' = committed \cup {job[w].generation},
         UNCHANGED <<files, rotten>>
  PROVE  /\ ManifestsCommitted' /\ rotten' \subseteq committed'
         /\ Max(committed') = g
         /\ Shows(s)'
         /\ NewestShown'
<1>1. Typed /\ Numbered(w) /\ Staged(w) /\ ManifestsCommitted
  BY DEF IndInv, Inside
<1>2. g = minted /\ minted \in Generation \ committed /\ s \in Sequence /\ \A t \in Complete : t < s
  BY <1>1 DEF Numbered
<1>3. manifest'[s] = g /\ \A t \in Sequence \ {s} : manifest'[t] = manifest[t]
  BY <1>1, <1>2 DEF Typed
<1>4. Max(committed') = g
  <2>1. committed' \in SUBSET Int /\ g \in committed' /\ \A t \in committed' : t <= g
    BY <1>1, <1>2 DEF Typed
  <2>2. QED
    BY <2>1, MaxIs
<1>5. ManifestsCommitted' /\ rotten' \subseteq committed'
  BY <1>1, <1>3 DEF ManifestsCommitted, IndInv
<1>6. s \in Complete'
  <2>1. g # Nothing /\ g \notin rotten
    BY <1>2, StoreAssumption DEF IndInv
  <2>2. Kind \X {g} \subseteq files
    BY <1>1, <1>2 DEF Staged
  <2>3. QED
    BY <1>2, <1>3, <2>1, <2>2 DEF Complete, Manifests, Verifies
<1>7. Complete' \subseteq Complete \cup {s}
  BY <1>3 DEF Complete, Manifests, Verifies
<1>8. s <= s /\ \A t \in Complete : t <= s
  BY <1>2, CompleteNumbers, StoreAssumption
<1>9. Shows(s)'
  <2>1. \A t \in Complete' : t <= s
    BY <1>7, <1>8
  <2>2. QED
    BY <2>1, <1>3, <1>4, <1>6 DEF Shows
<1>10. NewestShown'
  BY <1>2, <1>9 DEF NewestShown
<1>11. QED
  BY <1>4, <1>5, <1>9, <1>10

\* The commit makes the new generation the newest, whether or not the directory's
\* fsync succeeds.
LEMMA CommitManifestKeeps ==
  ASSUME IndInv, NEW w \in Writer, CommitManifest(w)
  PROVE  IndInv'
<1>1. pc[w] = "commit" /\ Typed /\ Numbered(w) /\ StandsOnNewest(w) /\ lock = w
  BY DEF CommitManifest, IndInv, Inside
<1>2. UNCHANGED <<files, legacy, rotten, base, minted, look>>
  BY DEF CommitManifest
<1>3. CASE AbandonSave(w) /\ UNCHANGED <<manifest, committed>>
  BY <1>1, <1>2, <1>3, AbandonTyped, LeaveTyped, QuietStep DEF IndInv, Typed
<1>4. CASE /\ manifest' = [manifest EXCEPT ![job[w].sequence] = job[w].generation]
           /\ committed' = committed \cup {job[w].generation}
           /\ \/ Goto(w, "collect") /\ UNCHANGED <<temps, job, spent>>
              \/ AbandonSave(w)
  <2>1. PICK s \in Sequence, g \in Generation : s = job[w].sequence /\ g = job[w].generation /\ g = minted
    BY <1>1 DEF Numbered
  <2>2. /\ ManifestsCommitted' /\ rotten' \subseteq committed'
        /\ Max(committed') = g /\ Shows(s)' /\ NewestShown'
    BY <1>1, <1>2, <1>4, <2>1, CommitShows
  <2>3. manifest' \in [Sequence -> Generation \cup {Nothing}] /\ committed' \subseteq 1..minted'
    <3>1. manifest' = [manifest EXCEPT ![s] = g] /\ committed' = committed \cup {g}
      BY <1>4, <2>1
    <3>2. g \in 1..minted
      BY <2>1, StoreAssumption
    <3>3. QED
      BY <1>1, <1>2, <3>1, <3>2 DEF Typed
  <2>4. CASE Goto(w, "collect") /\ UNCHANGED <<temps, job, spent>>
    <3>1. pc'[w] = "collect" /\ lock' = w /\ \A v \in Writer \ {w} : pc'[v] = pc[v]
      BY <1>1, <2>4, GotoTyped DEF Goto
    <3>2. Typed'
      BY <1>1, <1>2, <2>3, <2>4, GotoTyped DEF Typed
    <3>3. JustCommitted(w)'
      BY <1>4, <2>1, <2>2, <2>4 DEF JustCommitted
    <3>4. Inside(w)'
      BY <3>1, <3>3 DEF Inside, Numbered, Staged, StandsOnNewest, KeepsNewest
    <3>5. QED
      BY <1>1, <1>2, <1>4, <2>2, <3>1, <3>2, <3>4, InsideStep DEF IndInv
  <2>5. CASE AbandonSave(w)
    <3>1. Typed'
      BY <1>1, <1>2, <2>3, <2>5, AbandonTyped, LeaveTyped DEF Typed
    <3>2. QED
      BY <1>1, <1>2, <1>4, <2>2, <2>5, <3>1, AbandonTyped, LeaveTyped, InsideStep DEF IndInv
  <2>6. QED
    BY <1>4, <2>4, <2>5
<1>5. QED
  BY <1>1, <1>3, <1>4 DEF CommitManifest

\* The collection keeps the two highest complete manifests, the newest among them.
LEMMA CollectKeeps ==
  ASSUME ReadsSucceed, IndInv, NEW w \in Writer, CollectOldGenerations(w)
  PROVE  IndInv'
<1>1. pc[w] = "collect" /\ Typed /\ JustCommitted(w) /\ lock = w
  BY DEF CollectOldGenerations, IndInv, Inside
<1>2. UNCHANGED <<disk, base, minted, look, committed>> /\ Goto(w, "sweep_manifests")
  BY DEF CollectOldGenerations
<1>3. spent' = spent /\ job' = [job EXCEPT ![w].keep = Retained(Complete)]
  BY <1>1, NothingMissed DEF CollectOldGenerations
<1>4. pc'[w] = "sweep_manifests" /\ lock' = w /\ \A v \in Writer \ {w} : pc'[v] = pc[v]
  BY <1>1, <1>2, GotoTyped DEF Goto
<1>5. /\ job' \in [Writer -> Job] /\ job'[w].keep = Retained(Complete)
      /\ job'[w].generation = job[w].generation
  <2>1. Retained(Complete) \in SUBSET Sequence
    BY CompleteNumbers DEF Retained
  <2>2. job[w] \in Job /\ job' = [job EXCEPT ![w] = [@ EXCEPT !.keep = Retained(Complete)]]
    BY <1>1, <1>3 DEF Typed
  <2>3. QED
    BY <1>1, <2>1, <2>2 DEF Typed, Job
<1>6. Typed'
  BY <1>1, <1>2, <1>3, <1>5, GotoTyped DEF Typed, disk
<1>7. /\ NewestIntact' <=> NewestIntact
      /\ \A s : Shows(s)' <=> Shows(s)
  BY <1>2, DirectoryKept DEF disk
<1>8. \A s : Shows(s) => s \in Retained(Complete)
  <2> SUFFICES ASSUME NEW s, Shows(s)
               PROVE  s \in Retained(Complete)
    OBVIOUS
  <2>1. s \in Complete /\ \A t \in Complete : t <= s
    BY DEF Shows
  <2>2. \A t \in Complete : t \in Nat
    BY CompleteNumbers
  <2>3. {t \in Complete : t > s} = {}
    BY <2>1, <2>2
  <2>4. Cardinality({}) = 0
    BY FS_EmptySet
  <2>5. QED
    BY <2>1, <2>3, <2>4 DEF Retained
<1>9. KeepsNewest(w)'
  BY <1>5, <1>7, <1>8 DEF KeepsNewest, IndInv, NewestShown
<1>10. JustCommitted(w)'
  BY <1>1, <1>2, <1>5 DEF JustCommitted
<1>11. Inside(w)'
  BY <1>4, <1>9, <1>10 DEF Inside, Numbered, Staged, StandsOnNewest
<1>12. QED
  BY <1>1, <1>2, <1>4, <1>6, <1>11, QuietStep DEF IndInv, disk

\* What is kept is not swept: the newest manifest and its files stay.
LEMMA SweepShows ==
  ASSUME IndInv, NEW w \in Writer, pc[w] \in {"sweep_manifests", "sweep_data"},
         \A s \in Sequence : manifest'[s] \in {manifest[s], Nothing},
         \A s \in job[w].keep \cap Manifests :
           manifest'[s] = manifest[s] /\ \A k \in Kind : <<k, manifest[s]>> \in files => <<k, manifest[s]>> \in files',
         files' \subseteq files, UNCHANGED <<rotten, committed>>
  PROVE  /\ NewestIntact' <=> NewestIntact
         /\ NewestShown' /\ ManifestsCommitted' /\ rotten' \subseteq committed'
         /\ NewestIntact => \E s \in job[w].keep : Shows(s)'
<1>1. Typed /\ KeepsNewest(w)
  BY DEF IndInv, Inside
<1>2. Complete' \subseteq Complete
  BY DEF Complete, Manifests, Verifies
<1>3. NewestIntact' <=> NewestIntact
  BY DEF NewestIntact
<1>4. ASSUME NewestIntact
      PROVE  \E s \in job[w].keep : s \in Sequence /\ Shows(s)'
  <2>1. PICK s \in job[w].keep : Shows(s)
    BY <1>1, <1>4 DEF KeepsNewest
  <2>2. s \in Complete /\ s \in Manifests /\ s \in Sequence
    BY <2>1 DEF Shows, Complete, Manifests
  <2>3. manifest'[s] = manifest[s] /\ \A k \in Kind : <<k, manifest[s]>> \in files => <<k, manifest[s]>> \in files'
    BY <2>1, <2>2
  <2>4. s \in Complete'
    BY <2>2, <2>3 DEF Complete, Manifests, Verifies
  <2>5. Shows(s)'
    BY <1>2, <2>1, <2>3, <2>4 DEF Shows
  <2>6. QED
    BY <2>1, <2>2, <2>5
<1>5. ManifestsCommitted' /\ rotten' \subseteq committed'
  BY DEF IndInv, ManifestsCommitted
<1>6. QED
  BY <1>3, <1>4, <1>5 DEF NewestShown

\* A manifest that is swept is not the newest.
LEMMA SweepManifestKeeps ==
  ASSUME IndInv, NEW w \in Writer, SweepManifest(w)
  PROVE  IndInv'
<1> DEFINE old == Manifests \ job[w].keep
<1>1. pc[w] = "sweep_manifests" /\ Typed /\ JustCommitted(w) /\ KeepsNewest(w) /\ lock = w
  BY DEF SweepManifest, IndInv, Inside
<1>2. UNCHANGED <<files, temps, legacy, rotten, job, base, minted, look, spent, committed>>
  BY DEF SweepManifest
<1>3. CASE old # {} /\ manifest' = [manifest EXCEPT ![Max(old)] = Nothing] /\ UNCHANGED <<lock, pc>>
  <2>1. Max(old) \in old
    BY <1>3, MaxFact, StoreAssumption DEF Manifests
  <2>2. Typed'
    BY <1>1, <1>2, <1>3 DEF Typed
  <2>3. /\ NewestIntact' <=> NewestIntact
        /\ NewestShown' /\ ManifestsCommitted' /\ rotten' \subseteq committed'
        /\ NewestIntact => \E s \in job[w].keep : Shows(s)'
    <3>1. \A s \in Sequence : manifest'[s] \in {manifest[s], Nothing}
      BY <1>1, <1>3 DEF Typed
    <3>2. \A s \in job[w].keep \cap Manifests : manifest'[s] = manifest[s]
      BY <1>1, <1>3, <2>1 DEF Typed, Manifests
    <3>3. QED
      BY <1>1, <1>2, <3>1, <3>2, SweepShows
  <2>4. Inside(w)'
    BY <1>1, <1>2, <1>3, <2>3 DEF Inside, Numbered, Staged, StandsOnNewest, JustCommitted, KeepsNewest
  <2>5. QED
    BY <1>1, <1>2, <1>3, <2>2, <2>3, <2>4, InsideStep DEF IndInv
<1>4. CASE Goto(w, "sweep_data") /\ UNCHANGED manifest
  <2>1. pc'[w] = "sweep_data" /\ lock' = w /\ \A v \in Writer \ {w} : pc'[v] = pc[v]
    BY <1>1, <1>4, GotoTyped DEF Goto
  <2>2. Typed'
    BY <1>1, <1>2, <1>4, GotoTyped DEF Typed
  <2>3. /\ NewestIntact' <=> NewestIntact
        /\ \A s : Shows(s)' <=> Shows(s)
    BY <1>2, <1>4, DirectoryKept
  <2>4. Inside(w)'
    BY <1>1, <1>2, <2>1, <2>3 DEF Inside, Numbered, Staged, StandsOnNewest, JustCommitted, KeepsNewest
  <2>5. QED
    BY <1>1, <1>2, <1>4, <2>1, <2>2, <2>4, QuietStep DEF IndInv
<1>5. QED
  BY <1>3, <1>4 DEF SweepManifest

\* A file that is swept belongs to no generation that is kept.
LEMMA SweepDataKeeps ==
  ASSUME IndInv, NEW w \in Writer, SweepData(w)
  PROVE  IndInv'
<1>1. pc[w] = "sweep_data" /\ Typed /\ JustCommitted(w) /\ lock = w
  BY DEF SweepData, IndInv, Inside
<1>2. UNCHANGED <<manifest, legacy, rotten, lock, pc, job, base, minted, look, spent, committed>>
  BY DEF SweepData, writers
<1>3. PICK f \in Unreferenced(w) : files' = files \ {f} /\ temps' = temps \ {f}
  BY DEF SweepData
<1>4. Typed'
  BY <1>1, <1>2, <1>3 DEF Typed
<1>5. /\ NewestIntact' <=> NewestIntact
      /\ NewestShown' /\ ManifestsCommitted' /\ rotten' \subseteq committed'
      /\ NewestIntact => \E s \in job[w].keep : Shows(s)'
  <2>1. \A s \in job[w].keep, k \in Kind : <<k, manifest[s]>> # f
    BY <1>3 DEF Unreferenced
  <2>2. QED
    BY <1>1, <1>2, <1>3, <2>1, SweepShows
<1>6. Inside(w)'
  BY <1>1, <1>2, <1>5 DEF Inside, Numbered, Staged, StandsOnNewest, JustCommitted, KeepsNewest
<1>7. QED
  BY <1>1, <1>2, <1>4, <1>5, <1>6, InsideStep DEF IndInv

\* After its commit a save ends on its own generation, or goes on to migrate.
LEMMA CommittedKeeps ==
  ASSUME IndInv, NEW w \in Writer, pc[w] \in {"collect", "sweep_manifests", "sweep_data"},
         Committed(w), UNCHANGED <<disk, minted, look, committed>>,
         spent' \in [Trouble -> Nat], \A t \in Trouble : spent'[t] <= Budget[t]
  PROVE  IndInv'
<1>1. Typed /\ JustCommitted(w) /\ lock = w /\ job[w].generation \in committed
  BY DEF IndInv, Inside, JustCommitted
<1>2. CASE Goto(w, "drop_index") /\ UNCHANGED <<job, base>>
  <2>1. pc'[w] = "drop_index" /\ lock' = w /\ \A v \in Writer \ {w} : pc'[v] = pc[v]
    BY <1>1, <1>2, GotoTyped DEF Goto
  <2>2. Typed'
    BY <1>1, <1>2, GotoTyped DEF Typed, disk
  <2>3. Inside(w)'
    BY <1>1, <1>2, <2>1 DEF Inside, Numbered, Staged, StandsOnNewest, JustCommitted, KeepsNewest
  <2>4. QED
    BY <1>2, <2>1, <2>2, <2>3, QuietStep DEF IndInv, disk
<1>3. CASE Leave(w) /\ base' = [base EXCEPT ![w] = job[w].generation]
  <2>1. \A v \in Writer : base'[v] \in committed \cup {Nothing}
    BY <1>1, <1>3 DEF IndInv, Typed
  <2>2. base' \in [Writer -> Generation \cup {Nothing}]
    BY <1>1, <1>3, CommittedGenerations DEF Typed
  <2>3. Typed'
    BY <1>1, <1>3, <2>2, LeaveTyped DEF Typed, disk
  <2>4. QED
    BY <1>1, <1>3, <2>1, <2>3, LeaveTyped, QuietStep DEF disk
<1>4. QED
  BY <1>2, <1>3 DEF Committed

\* A load under the lock takes the newest complete generation, or begins to
\* migrate, or fails.
LEMMA LoadKeeps ==
  ASSUME ReadsSucceed, IndInv, NEW w \in Writer, Load(w)
  PROVE  IndInv'
<1>1. pc[w] = "load" /\ Typed /\ lock = w
  BY DEF Load, IndInv, Inside
<1>2. UNCHANGED <<disk, minted, look, committed>>
  BY DEF Load
<1>3. PICK missed \in SUBSET Sequence :
        /\ Misread(missed)
        /\ \/ /\ Complete \ missed # {}
              /\ base' = [base EXCEPT ![w] = Latest(Complete \ missed)]
              /\ Leave(w)
           \/ /\ Manifests = {} /\ legacy = Kind
              /\ job' = [job EXCEPT ![w].migrating = TRUE]
              /\ Goto(w, "sequence")
              /\ UNCHANGED base
           \/ Leave(w) /\ UNCHANGED base
  BY DEF Load
<1>4. Complete \ missed = Complete /\ spent' = spent
  BY <1>1, <1>3, NothingMissed
<1>5. CASE Complete # {} /\ base' = [base EXCEPT ![w] = Latest(Complete)] /\ Leave(w)
  <2>1. Latest(Complete) \in committed
    BY <1>5, LatestIsNewest
  <2>2. \A v \in Writer : base'[v] \in committed \cup {Nothing}
    BY <1>1, <1>5, <2>1 DEF IndInv, Typed
  <2>3. base' \in [Writer -> Generation \cup {Nothing}]
    BY <1>1, <1>5, <2>1, CommittedGenerations DEF Typed
  <2>4. Typed'
    BY <1>1, <1>2, <1>4, <1>5, <2>3, LeaveTyped DEF Typed, disk
  <2>5. QED
    BY <1>1, <1>2, <1>5, <2>2, <2>4, LeaveTyped, QuietStep DEF disk
<1>6. CASE /\ Manifests = {} /\ legacy = Kind
           /\ job' = [job EXCEPT ![w].migrating = TRUE]
           /\ Goto(w, "sequence")
           /\ UNCHANGED base
  <2>1. pc'[w] = "sequence" /\ lock' = w /\ \A v \in Writer \ {w} : pc'[v] = pc[v]
    BY <1>1, <1>6, GotoTyped DEF Goto
  <2>2. job' \in [Writer -> Job]
    <3>1. job[w] \in Job /\ job' = [job EXCEPT ![w] = [@ EXCEPT !.migrating = TRUE]]
      BY <1>1, <1>6 DEF Typed
    <3>2. QED
      BY <1>1, <3>1 DEF Typed, Job
  <2>3. Typed'
    BY <1>1, <1>2, <1>4, <1>6, <2>2, GotoTyped DEF Typed, disk
  <2>4. ~ NewestIntact
    BY <1>6 DEF IndInv, NewestShown, Shows, Complete
  <2>5. StandsOnNewest(w)'
    BY <1>1, <1>2, <1>6, <2>4 DEF StandsOnNewest, NewestIntact, IndInv, disk
  <2>6. Inside(w)'
    BY <2>1, <2>5 DEF Inside, Numbered, Staged, JustCommitted, KeepsNewest
  <2>7. QED
    BY <1>1, <1>2, <1>6, <2>1, <2>3, <2>6, QuietStep DEF IndInv, disk
<1>7. CASE Leave(w) /\ UNCHANGED base
  BY <1>1, <1>2, <1>4, <1>7, LeaveTyped, QuietStep DEF IndInv, Typed, disk
<1>8. QED
  BY <1>3, <1>4, <1>5, <1>6, <1>7

\* The 0.4.0 pair goes once the migration has committed.
LEMMA DropLegacyKeeps ==
  ASSUME IndInv, NEW w \in Writer, DropLegacy(w)
  PROVE  IndInv'
<1>1. /\ pc[w] \in {"drop_index", "drop_state"} /\ Typed /\ JustCommitted(w) /\ lock = w
      /\ job[w].generation \in committed
  BY DEF DropLegacy, IndInv, Inside, JustCommitted
<1>2. UNCHANGED <<manifest, files, temps, rotten, minted, look, spent, committed>> /\ legacy' \subseteq Kind
  BY <1>1 DEF DropLegacy, Typed
<1>3. CASE Goto(w, "drop_state") /\ UNCHANGED <<job, base>>
  <2>1. pc'[w] = "drop_state" /\ lock' = w /\ \A v \in Writer \ {w} : pc'[v] = pc[v]
    BY <1>1, <1>3, GotoTyped DEF Goto
  <2>2. Typed'
    BY <1>1, <1>2, <1>3, GotoTyped DEF Typed
  <2>3. Inside(w)'
    BY <1>1, <1>2, <1>3, <2>1 DEF Inside, Numbered, Staged, StandsOnNewest, JustCommitted, KeepsNewest
  <2>4. QED
    BY <1>1, <1>2, <1>3, <2>1, <2>2, <2>3, QuietStep DEF IndInv
<1>4. CASE Leave(w) /\ base' = [base EXCEPT ![w] = job[w].generation]
  <2>1. \A v \in Writer : base'[v] \in committed \cup {Nothing}
    BY <1>1, <1>4 DEF IndInv, Typed
  <2>2. base' \in [Writer -> Generation \cup {Nothing}]
    BY <1>1, <1>4, CommittedGenerations DEF Typed
  <2>3. Typed'
    BY <1>1, <1>2, <1>4, <2>2, LeaveTyped DEF Typed
  <2>4. QED
    BY <1>1, <1>2, <1>4, <2>1, <2>3, LeaveTyped, QuietStep
<1>5. QED
  BY <1>3, <1>4 DEF DropLegacy

\* A migration that fails after its commit, and the death of a process.
LEMMA GivesUpKeeps ==
  ASSUME IndInv, NEW w \in Writer, MigrationFails(w) \/ Crash(w)
  PROVE  IndInv'
<1>1. pc[w] \in Locked /\ Typed /\ Leave(w) /\ UNCHANGED <<disk, minted, look, committed>>
  BY DEF MigrationFails, Crash, IndInv
<1>2. base' \in {base, [base EXCEPT ![w] = Nothing]}
  BY DEF MigrationFails, Crash
<1>3. spent' \in [Trouble -> Nat] /\ \A t \in Trouble : spent'[t] <= Budget[t]
  BY <1>1, SufferTyped DEF MigrationFails, Crash
<1>4. \A v \in Writer : base'[v] \in committed \cup {Nothing}
  BY <1>1, <1>2 DEF IndInv, Typed
<1>5. Typed'
  BY <1>1, <1>2, <1>3, LeaveTyped DEF Typed, disk
<1>6. QED
  BY <1>1, <1>4, <1>5, LeaveTyped, QuietStep DEF disk

\* Whatever goes bad, what is said of the newest generation is said of an intact one.
LEMMA RotKeeps ==
  ASSUME IndInv, Rot
  PROVE  IndInv'
<1>1. Typed /\ UNCHANGED <<manifest, files, temps, legacy, lock, pc, job, base, minted, look, committed>>
  BY DEF Rot, IndInv, writers
<1>2. PICK s \in Complete : rotten' = rotten \cup {manifest[s]}
  BY DEF Rot
<1>3. manifest[s] \in committed /\ rotten' \subseteq committed'
  BY <1>1, <1>2 DEF IndInv, ManifestsCommitted, Complete, Manifests
<1>4. Complete' \subseteq Complete
  BY <1>1, <1>2 DEF Complete, Manifests, Verifies
<1>5. Typed'
  BY <1>1, <1>2, <1>3, SufferTyped, CommittedGenerations DEF Rot, Typed
<1>6. ASSUME NewestIntact'
      PROVE  NewestIntact /\ \A t \in Sequence : Shows(t) => Shows(t)'
  <2>1. NewestIntact
    BY <1>1, <1>2, <1>6 DEF NewestIntact
  <2>2. ASSUME NEW t \in Sequence, Shows(t)
        PROVE  Shows(t)'
    <3>1. t \in Complete /\ manifest[t] = Max(committed) /\ Max(committed) \notin rotten'
      BY <1>1, <1>6, <2>2 DEF Shows, NewestIntact
    <3>2. t \in Complete'
      BY <1>1, <3>1 DEF Complete, Manifests, Verifies
    <3>3. QED
      BY <1>1, <1>4, <2>2, <3>2 DEF Shows
  <2>3. QED
    BY <2>1, <2>2
<1>7. NewestShown' /\ ManifestsCommitted'
  BY <1>1, <1>6 DEF IndInv, NewestShown, ManifestsCommitted
<1>8. ASSUME NEW w \in Writer
      PROVE  Inside(w)'
  <2>1. Inside(w)
    BY DEF IndInv
  <2>2. Numbered(w) => Numbered(w)'
    BY <1>1, <1>4 DEF Numbered
  <2>3. Staged(w) => Staged(w)'
    BY <1>1 DEF Staged
  <2>4. StandsOnNewest(w) => StandsOnNewest(w)'
    BY <1>1, <1>2 DEF StandsOnNewest
  <2>5. JustCommitted(w) => JustCommitted(w)'
    BY <1>1 DEF JustCommitted
  <2>6. KeepsNewest(w) => KeepsNewest(w)'
    <3> SUFFICES ASSUME KeepsNewest(w), pc[w] \in {"sweep_manifests", "sweep_data"}, NewestIntact'
                 PROVE  \E t \in job[w].keep : Shows(t)'
      BY <1>1 DEF KeepsNewest
    <3>1. PICK t \in job[w].keep : Shows(t)
      BY <1>6 DEF KeepsNewest
    <3>2. QED
      BY <1>6, <3>1, CompleteNumbers DEF Shows
  <2>7. QED
    BY <1>1, <2>1, <2>2, <2>3, <2>4, <2>5, <2>6 DEF Inside
<1>9. QED
  BY <1>1, <1>3, <1>5, <1>7, <1>8 DEF IndInv

-----------------------------------------------------------------------------
(***************************************************************************)
(* The readers, which change nothing but their own variables.              *)
(***************************************************************************)
\* The local variables of a load that begins, lists again, or has ended.
LEMMA NoLookTyped ==
  /\ NoLook \in Look
  /\ \A g \in Generation \cup {Legacy, Nothing} : [NoLook EXCEPT !.found = g] \in Look
  /\ \A m \in 0..Attempts, n \in 0..Attempts :
       [NoLook EXCEPT !.at = "list", !.tries = m, !.loads = n] \in Look
<1>1. NoLook \in Look
  BY StoreAssumption DEF Look, NoLook
<1>2. \A g \in Generation \cup {Legacy, Nothing} : [NoLook EXCEPT !.found = g] \in Look
  BY <1>1 DEF Look
<1>3. ASSUME NEW m \in 0..Attempts, NEW n \in 0..Attempts
      PROVE  [NoLook EXCEPT !.at = "list", !.tries = m, !.loads = n] \in Look
  BY <1>1 DEF Look
<1>4. QED
  BY <1>1, <1>2, <1>3

\* A reader's step changes its own variables only.
LEMMA ReaderTyped ==
  ASSUME Typed, NEW r \in Reader, NEW new \in Look, ReaderStep(r, new)
  PROVE  look' \in [Reader -> Look]
BY DEF Typed, ReaderStep

\* A load that starts anew keeps count of its loads.
LEMMA LoadAgainTyped ==
  ASSUME Typed, NEW r \in Reader
  PROVE  LoadAgain(r) \in Look
<1>1. look[r].loads \in 0..Attempts
  BY DEF Typed, Look
<1>2. look[r].loads < Attempts => look[r].loads + 1 \in 0..Attempts /\ 1 \in 0..Attempts
  BY <1>1, StoreAssumption
<1>3. QED
  BY <1>2, NoLookTyped DEF LoadAgain

\* The index file of a manifest is a generation's.
LEMMA ScanTyped ==
  ASSUME Typed, NEW r \in Reader, Scan(r)
  PROVE  look' \in [Reader -> Look]
<1> DEFINE skip == [look[r] EXCEPT !.rest = @ \ {Max(look[r].rest)}]
<1> DEFINE g == manifest[Max(look[r].rest)]
<1>1. look[r] \in Look
  BY DEF Typed
<1>2. skip \in Look
  BY <1>1 DEF Look
<1>3. CASE <<"index", g>> \in files /\ ReaderStep(r, [skip EXCEPT !.at = "verify", !.found = g])
  <2>1. g \in Generation
    BY <1>3 DEF Typed
  <2>2. [skip EXCEPT !.at = "verify", !.found = g] \in Look
    BY <1>2, <2>1 DEF Look
  <2>3. QED
    BY <1>3, <2>2, ReaderTyped
<1>4. CASE ReaderStep(r, skip)
  BY <1>2, <1>4, ReaderTyped
<1>5. QED
  BY <1>3, <1>4 DEF Scan

\* A reader's step keeps every variable in its range.
LEMMA ReadTyped ==
  ASSUME Typed, NEW r \in Reader, Read(r)
  PROVE  Typed'
<1>1. Typed /\ look[r] \in Look
  BY DEF Typed
<1>2. UNCHANGED <<disk, writers, committed>>
  BY DEF Read, BeginRead, List, Scan, ScanEnds, Verify, Stable, ReadLegacy, ReaderStep
<1>3. spent' \in [Trouble -> Nat] /\ \A t \in Trouble : spent'[t] <= Budget[t]
  BY <1>1, SufferTyped DEF Read, BeginRead, List, Scan, ScanEnds, Verify, Stable, ReadLegacy, Typed
<1>4. look' \in [Reader -> Look]
  <2>1. CASE BeginRead(r)
    <3>1. 1 \in 0..Attempts
      BY StoreAssumption
    <3>2. QED
      BY <1>1, <2>1, <3>1, NoLookTyped, ReaderTyped DEF BeginRead
  <2>2. CASE List(r)
    BY <1>1, <2>2 DEF List, ReaderStep, Typed, Look, Manifests
  <2>3. CASE Scan(r)
    BY <1>1, <2>3, ScanTyped
  <2>4. CASE ScanEnds(r) \/ Verify(r)
    <3>1. /\ [look[r] EXCEPT !.at = "stable"] \in Look
          /\ [look[r] EXCEPT !.at = "scan", !.found = Nothing] \in Look
      BY <1>1 DEF Look
    <3>2. QED
      BY <1>1, <2>4, <3>1, ReaderTyped DEF ScanEnds, Verify
  <2>5. CASE Stable(r)
    <3>1. /\ look[r].loads \in 0..Attempts /\ look[r].found \in Generation \cup {Legacy, Nothing}
          /\ look[r].tries < Attempts => look[r].tries + 1 \in 0..Attempts
      BY <1>1, StoreAssumption DEF Look
    <3>2. PICK new \in Look : ReaderStep(r, new)
      BY <2>5, <3>1, NoLookTyped DEF Stable
    <3>3. QED
      BY <1>1, <3>2, ReaderTyped
  <2>6. CASE ReadLegacy(r)
    <3>1. /\ [look[r] EXCEPT !.at = "legacy_state"] \in Look
          /\ [NoLook EXCEPT !.found = Legacy] \in Look
      BY <1>1, NoLookTyped DEF Look
    <3>2. QED
      BY <1>1, <2>6, <3>1, LoadAgainTyped, ReaderTyped DEF ReadLegacy
  <2>7. QED
    BY <2>1, <2>2, <2>3, <2>4, <2>5, <2>6 DEF Read
<1>5. QED
  BY <1>1, <1>2, <1>3, <1>4 DEF Typed, disk, writers

\* A reader's step leaves the directory and the processes alone.
LEMMA ReadKeeps ==
  ASSUME IndInv, NEW r \in Reader, Read(r)
  PROVE  IndInv'
<1>1. Typed'
  BY ReadTyped DEF IndInv
<1>2. UNCHANGED <<disk, writers, committed>>
  BY DEF Read, BeginRead, List, Scan, ScanEnds, Verify, Stable, ReadLegacy, ReaderStep
<1>3. /\ Complete' = Complete /\ ManifestsCommitted' /\ rotten' \subseteq committed' /\ NewestShown'
      /\ NewestIntact' <=> NewestIntact
      /\ \A s : Shows(s)' <=> Shows(s)
  BY <1>2, DirectoryKept DEF disk
<1>4. \A w \in Writer : Inside(w)'
  BY <1>2, <1>3 DEF IndInv, Inside, Numbered, Staged, StandsOnNewest, JustCommitted, KeepsNewest, disk, writers
<1>5. QED
  BY <1>1, <1>2, <1>3, <1>4 DEF IndInv, writers

-----------------------------------------------------------------------------
(***************************************************************************)
(* Theorems.                                                               *)
(***************************************************************************)
\* Every step keeps the invariant.
LEMMA StepKeeps ==
  ASSUME ReadsSucceed, IndInv, Next
  PROVE  IndInv'
<1>1. CASE Rot
  BY <1>1, RotKeeps
<1>2. ASSUME NEW w \in Writer, WriterStep(w)
      PROVE  IndInv'
  <2>1. CASE BeginSave(w) \/ BeginLoad(w)
    BY <2>1, BeginKeeps DEF BeginSave, BeginLoad
  <2>2. CASE AssertCurrent(w) \/ NextSequence(w)
    BY <2>2, AssertCurrentKeeps, NextSequenceKeeps
  <2>3. CASE StageIndex(w) \/ StageState(w) \/ RenameIndex(w) \/ RenameState(w)
    BY <2>3, StageKeeps, RenameKeeps
  <2>4. CASE CommitManifest(w)
    BY <2>4, CommitManifestKeeps
  <2>5. CASE CollectOldGenerations(w) \/ SweepManifest(w) \/ SweepData(w)
    BY <2>5, CollectKeeps, SweepManifestKeeps, SweepDataKeeps
  <2>6. CASE Swept(w)
    BY <2>6, CommittedKeeps DEF Swept, IndInv, Typed
  <2>7. CASE DeferCleanup(w)
    BY <2>7, CommittedKeeps, SufferTyped DEF DeferCleanup, IndInv
  <2>8. CASE Load(w) \/ DropLegacy(w)
    BY <2>8, LoadKeeps, DropLegacyKeeps
  <2>9. CASE MigrationFails(w) \/ Crash(w)
    BY <2>9, GivesUpKeeps
  <2>10. QED
    BY <1>2, <2>1, <2>2, <2>3, <2>4, <2>5, <2>6, <2>7, <2>8, <2>9 DEF WriterStep, SaveStep
<1>3. QED
  BY <1>1, <1>2, ReadKeeps DEF Next

\* Nothing happens: nothing changes.
LEMMA StutterKeeps ==
  ASSUME IndInv, UNCHANGED vars
  PROVE  IndInv'
<1>1. UNCHANGED <<manifest, files, temps, legacy, rotten, lock, pc, job, base, minted, look, spent, committed>>
  BY DEF vars, disk, writers
<1>2. /\ Complete' = Complete /\ ManifestsCommitted' /\ rotten' \subseteq committed' /\ NewestShown'
      /\ NewestIntact' <=> NewestIntact
      /\ \A s : Shows(s)' <=> Shows(s)
  BY <1>1, DirectoryKept
<1>3. QED
  BY <1>1, <1>2 DEF IndInv, Typed, Inside, Numbered, Staged, StandsOnNewest, JustCommitted, KeepsNewest

\* What the process inside the lock knows of the directory stays true: a number
\* above every complete manifest, the newest generation under its index, and the
\* newest manifest among those a collection keeps (snapshot_store.py save).
THEOREM InvariantHolds == ReadsSucceed => (Spec => []IndInv)
<1> SUFFICES ASSUME ReadsSucceed
             PROVE  Spec => []IndInv
  OBVIOUS
<1>1. IndInv /\ [Next]_vars => IndInv'
  BY StepKeeps, StutterKeeps
<1>2. QED
  BY <1>1, InitHolds, PTL DEF Spec

\* A loaded index only replaces the generation it was loaded from, or one that
\* has gone bad: what was checked before the files were written still holds at
\* the commit (_assert_current).
THEOREM NoUpdateIsLost == ReadsSucceed => (Spec => NoLostUpdate)
<1> SUFFICES ASSUME ReadsSucceed
             PROVE  Spec => NoLostUpdate
  OBVIOUS
<1>1. Spec => []IndInv
  BY InvariantHolds
<1>2. IndInv => \A w \in Writer :
                  /\ pc[w] = "commit" /\ committed' # committed
                  /\ base[w] # Nothing
                  => Max(committed) \in rotten \cup {base[w]}
  BY DEF IndInv, Inside, StandsOnNewest
<1>3. QED
  BY <1>1, <1>2, PTL DEF NoLostUpdate, Spec

-----------------------------------------------------------------------------
(***************************************************************************)
(* The books a collection closes, whatever the trouble, misreads included: *)
(* a manifest names its own generation, whose files are both there; the    *)
(* temporaries belong to no committed generation; and what a collection    *)
(* keeps are at most two manifests.                                        *)
(***************************************************************************)
Pair(g) == Kind \X {g}
WholeManifests == \A s \in Manifests : Pair(manifest[s]) \subseteq files
Distinct == \A s, t \in Manifests : manifest[s] = manifest[t] => s = t
TempsUncommitted == \A f \in temps : f[2] \notin committed
AtMostTwo(S) == \E a, b \in Sequence : S \subseteq {a, b}

NumberedAnew(w) ==
  pc[w] \in Writing =>
    job[w].generation = minted /\ minted \in Generation \ committed /\ job[w].sequence \in Sequence

Named(w) ==
  /\ pc[w] \in {"rename_state", "commit"} => <<"index", minted>> \in files \ temps
  /\ pc[w] = "commit" => <<"state", minted>> \in files \ temps

KeepsTwo(w) ==
  /\ pc[w] \in {"sweep_manifests", "sweep_data"} => job[w].keep \subseteq Manifests /\ AtMostTwo(job[w].keep)
  /\ pc[w] = "sweep_data" => Manifests \subseteq job[w].keep

Books(w) == pc[w] \in Locked => lock = w /\ NumberedAnew(w) /\ Named(w) /\ KeepsTwo(w)

BooksInv ==
  /\ Typed
  /\ ManifestsCommitted /\ WholeManifests /\ Distinct /\ TempsUncommitted
  /\ \A w \in Writer : Books(w)

\* Trouble within its budget, or none: a scan that may have missed a manifest.
LEMMA MisreadTyped ==
  ASSUME Typed, NEW missed, Misread(missed)
  PROVE  spent' \in [Trouble -> Nat] /\ \A u \in Trouble : spent'[u] <= Budget[u]
BY SufferTyped DEF Misread, Typed

\* A step of the process inside the lock answers for that process and the books.
LEMMA BooksStep ==
  ASSUME BooksInv, NEW w \in Writer, pc[w] \in Locked,
         \A v \in Writer \ {w} : pc'[v] = pc[v],
         Typed', ManifestsCommitted', WholeManifests', Distinct', TempsUncommitted',
         Books(w)'
  PROVE  BooksInv'
<1>1. \A v \in Writer \ {w} : pc'[v] \notin Locked
  BY DEF BooksInv, Books
<1>2. \A v \in Writer : Books(v)'
  BY <1>1 DEF Books
<1>3. QED
  BY <1>2 DEF BooksInv

\* Where the files and the history stay, the books stay.
LEMMA BooksQuiet ==
  ASSUME BooksInv, NEW w \in Writer, pc[w] \in Locked,
         \A v \in Writer \ {w} : pc'[v] = pc[v],
         UNCHANGED <<manifest, files, temps, committed>>,
         Typed', Books(w)'
  PROVE  BooksInv'
<1>1. Manifests' = Manifests
  BY DEF Manifests
<1>2. ManifestsCommitted' /\ WholeManifests' /\ Distinct' /\ TempsUncommitted'
  BY <1>1 DEF BooksInv, ManifestsCommitted, WholeManifests, Distinct, TempsUncommitted
<1>3. QED
  BY <1>2, BooksStep

\* Leaving the lock gives up every claim.
LEMMA LeaveBooks ==
  ASSUME Typed, NEW w \in Writer, Leave(w)
  PROVE  Books(w)'
BY DEF Typed, Leave, Books

\* A process that has just gone on to somewhere nothing is claimed.
LEMMA GotoBooks ==
  ASSUME Typed, NEW w \in Writer, lock = w, NEW next \in {"sequence", "collect", "drop_index", "drop_state"},
         Goto(w, next)
  PROVE  Books(w)'
BY DEF Typed, Goto, Books, NumberedAnew, Named, KeepsTwo

\* Beginning, checking and loading touch no file.
LEMMA EnterBooks ==
  ASSUME BooksInv, NEW w \in Writer, NEW purpose \in {"assert", "load"}, Begin(w, purpose)
  PROVE  BooksInv'
<1>1. \A v \in Writer : pc[v] \notin Locked
  BY StoreAssumption DEF Begin, BooksInv, Books
<1>2. Typed'
  BY DEF BooksInv, Typed, Begin, disk
<1>3. pc' = [pc EXCEPT ![w] = purpose] /\ lock' = w /\ pc \in [Writer -> {"idle"} \cup Locked]
  BY DEF Begin, BooksInv, Typed
<1>4. \A v \in Writer : Books(v)'
  BY <1>1, <1>3 DEF Books, NumberedAnew, Named, KeepsTwo
<1>5. UNCHANGED <<manifest, files, temps, committed>>
  BY DEF Begin, disk
<1>6. ManifestsCommitted' /\ WholeManifests' /\ Distinct' /\ TempsUncommitted'
  BY <1>5 DEF BooksInv, ManifestsCommitted, WholeManifests, Distinct, TempsUncommitted, Manifests
<1>7. QED
  BY <1>2, <1>4, <1>6 DEF BooksInv

\* A step that leaves the lock, or goes on with nothing claimed, and touches no file.
LEMMA PassBooks ==
  ASSUME BooksInv, NEW w \in Writer, pc[w] \in Locked,
         UNCHANGED <<disk, minted, look, committed>>,
         base' \in [Writer -> Generation \cup {Nothing}],
         spent' \in [Trouble -> Nat], \A t \in Trouble : spent'[t] <= Budget[t],
         \/ Leave(w)
         \/ /\ \E next \in {"sequence", "collect", "drop_index", "drop_state"} : Goto(w, next)
            /\ job' \in [Writer -> Job]
  PROVE  BooksInv'
<1>1. Typed /\ lock = w
  BY DEF BooksInv, Books
<1>2. CASE Leave(w)
  BY <1>1, <1>2, LeaveTyped, LeaveBooks, BooksQuiet DEF Typed, disk
<1>3. ASSUME NEW next \in {"sequence", "collect", "drop_index", "drop_state"},
             Goto(w, next), job' \in [Writer -> Job]
      PROVE  BooksInv'
  <2>1. Typed' /\ \A v \in Writer \ {w} : pc'[v] = pc[v]
    BY <1>1, <1>3, GotoTyped DEF Typed, disk
  <2>2. QED
    BY <1>1, <1>3, <2>1, GotoBooks, BooksQuiet DEF disk
<1>4. QED
  BY <1>2, <1>3

\* What a load can find is a generation.
LEMMA LatestTyped ==
  ASSUME Typed, NEW S \in SUBSET Complete, S # {}
  PROVE  Latest(S) \in Generation
<1>1. Max(S) \in S
  BY CompleteNumbers, MaxFact, StoreAssumption
<1>2. QED
  BY <1>1 DEF Latest, Complete, Manifests, Typed

\* Checking and loading touch no file.
LEMMA LookingBooks ==
  ASSUME BooksInv, NEW w \in Writer, AssertCurrent(w) \/ Load(w)
  PROVE  BooksInv'
<1>1. Typed /\ pc[w] \in Locked /\ UNCHANGED <<disk, minted, look, committed>>
  BY DEF BooksInv, AssertCurrent, Load
<1>2. spent' \in [Trouble -> Nat] /\ \A t \in Trouble : spent'[t] <= Budget[t]
  BY <1>1, MisreadTyped DEF AssertCurrent, Load, Typed
<1>3. CASE AssertCurrent(w)
  <2>1. base' = base /\ (Leave(w) \/ (Goto(w, "sequence") /\ job' = job))
    BY <1>3 DEF AssertCurrent
  <2>2. QED
    BY <1>1, <1>2, <2>1, PassBooks DEF Typed
<1>4. CASE Load(w)
  <2>1. \/ Leave(w) /\ \/ base' = base
                       \/ \E S \in SUBSET Complete : S # {} /\ base' = [base EXCEPT ![w] = Latest(S)]
        \/ Goto(w, "sequence") /\ base' = base /\ job' = [job EXCEPT ![w].migrating = TRUE]
    BY <1>4 DEF Load
  <2>2. base' \in [Writer -> Generation \cup {Nothing}]
    BY <1>1, <2>1, LatestTyped DEF Typed
  <2>3. ASSUME job' = [job EXCEPT ![w].migrating = TRUE]
        PROVE  job' \in [Writer -> Job]
    <3>1. job[w] \in Job /\ job' = [job EXCEPT ![w] = [@ EXCEPT !.migrating = TRUE]]
      BY <1>1, <2>3 DEF Typed
    <3>2. QED
      BY <1>1, <3>1 DEF Typed, Job
  <2>4. QED
    BY <1>1, <1>2, <2>1, <2>2, <2>3, PassBooks
<1>5. QED
  BY <1>3, <1>4

\* A save counts its generation, and its number fits a file name, even when the
\* scan missed the newest manifest.
LEMMA NextSequenceBooks ==
  ASSUME BooksInv, NEW w \in Writer, NextSequence(w)
  PROVE  BooksInv'
<1>1. pc[w] = "sequence" /\ Typed /\ lock = w /\ UNCHANGED <<disk, base, look, committed>>
  BY DEF BooksInv, Books, NextSequence
<1>2. PICK S \in SUBSET Complete :
        IF Exhausted(S) \/ minted = MaxGenerations
        THEN Leave(w) /\ UNCHANGED minted
        ELSE /\ minted' = minted + 1
             /\ job' = [job EXCEPT ![w].sequence = IF S = {} THEN 1 ELSE Max(S) + 1,
                                   ![w].generation = minted + 1]
             /\ Goto(w, "stage_index")
  BY DEF NextSequence
<1>3. spent' \in [Trouble -> Nat] /\ \A t \in Trouble : spent'[t] <= Budget[t]
  BY <1>1, MisreadTyped DEF NextSequence
<1>4. CASE Leave(w) /\ UNCHANGED minted
  BY <1>1, <1>3, <1>4, PassBooks DEF Typed
<1>5. CASE /\ ~ Exhausted(S) /\ minted # MaxGenerations
           /\ minted' = minted + 1
           /\ job' = [job EXCEPT ![w].sequence = IF S = {} THEN 1 ELSE Max(S) + 1,
                                 ![w].generation = minted + 1]
           /\ Goto(w, "stage_index")
  <2> DEFINE s == IF S = {} THEN 1 ELSE Max(S) + 1
  <2>1. s \in Sequence
    <3>1. CASE S = {}
      BY <3>1, StoreAssumption
    <3>2. CASE S # {}
      <4>1. Max(S) \in Sequence
        BY <3>2, CompleteNumbers, MaxFact, StoreAssumption
      <4>2. QED
        BY <4>1, <1>5, <3>2, StoreAssumption DEF Exhausted
    <3>3. QED
      BY <3>1, <3>2
  <2>2. minted + 1 \in Generation \ committed
    BY <1>1, <1>5, StoreAssumption DEF Typed
  <2>3. job[w] \in Job /\ job' = [job EXCEPT ![w] = [@ EXCEPT !.sequence = s, !.generation = minted + 1]]
    BY <1>1, <1>5 DEF Typed
  <2>4. job' \in [Writer -> Job] /\ job'[w].sequence = s /\ job'[w].generation = minted + 1
    BY <1>1, <2>1, <2>2, <2>3 DEF Typed, Job
  <2>5. pc'[w] = "stage_index" /\ lock' = w /\ \A v \in Writer \ {w} : pc'[v] = pc[v]
    BY <1>1, <1>5, GotoTyped DEF Goto
  <2>6. Typed'
    <3>1. minted' \in 0..MaxGenerations /\ committed \subseteq 1..minted'
      BY <1>1, <1>5, <2>2, StoreAssumption DEF Typed
    <3>2. pc' \in [Writer -> {"idle"} \cup Locked] /\ lock' \in Writer \cup {NoWriter}
      BY <1>1, <1>5, GotoTyped
    <3>3. QED
      BY <1>1, <1>3, <2>4, <3>1, <3>2 DEF Typed, disk
  <2>7. Books(w)'
    BY <1>1, <1>5, <2>1, <2>2, <2>4, <2>5 DEF Books, NumberedAnew, Named, KeepsTwo
  <2>8. QED
    BY <1>1, <2>5, <2>6, <2>7, BooksQuiet DEF disk
<1>6. QED
  BY <1>2, <1>4, <1>5

\* A save that fails takes its temporaries with it.
LEMMA AbandonBooks ==
  ASSUME BooksInv, NEW w \in Writer, pc[w] \in Locked, AbandonSave(w),
         UNCHANGED <<manifest, files, legacy, rotten, base, minted, look, committed>>
  PROVE  BooksInv'
<1>1. Typed /\ temps' \subseteq temps
  BY DEF BooksInv, AbandonSave
<1>2. Typed' /\ \A v \in Writer \ {w} : pc'[v] = pc[v]
  BY <1>1, AbandonTyped, LeaveTyped DEF Typed
<1>3. ManifestsCommitted' /\ WholeManifests' /\ Distinct' /\ TempsUncommitted'
  BY <1>1 DEF BooksInv, ManifestsCommitted, WholeManifests, Distinct, TempsUncommitted, Manifests
<1>4. QED
  BY <1>1, <1>2, <1>3, AbandonTyped, LeaveBooks, BooksStep

\* A temporary belongs to the generation that is being saved.
LEMMA StageBooks ==
  ASSUME BooksInv, NEW w \in Writer, StageIndex(w) \/ StageState(w)
  PROVE  BooksInv'
<1>1. PICK kind \in Kind, next \in {"stage_state", "rename_index"} :
        pc[w] \in {"stage_index", "stage_state"} /\ Stage(w, kind, next)
  BY DEF StageIndex, StageState
<1>2. Typed /\ NumberedAnew(w) /\ lock = w
  BY <1>1 DEF BooksInv, Books
<1>3. UNCHANGED <<manifest, files, legacy, rotten, base, minted, look, committed>>
  BY <1>1 DEF Stage
<1>4. CASE AbandonSave(w)
  BY <1>1, <1>3, <1>4, AbandonBooks
<1>5. CASE /\ temps' = temps \cup {<<kind, job[w].generation>>}
           /\ Goto(w, next)
           /\ UNCHANGED <<job, spent>>
  <2>1. job[w].generation = minted /\ minted \in Generation \ committed
    BY <1>1, <1>2 DEF NumberedAnew
  <2>2. pc'[w] = next /\ lock' = w /\ \A v \in Writer \ {w} : pc'[v] = pc[v]
    BY <1>1, <1>2, <1>5, GotoTyped DEF Goto
  <2>3. Typed'
    BY <1>1, <1>2, <1>3, <1>5, <2>1, GotoTyped DEF Typed
  <2>4. ManifestsCommitted' /\ WholeManifests' /\ Distinct'
    BY <1>3 DEF BooksInv, ManifestsCommitted, WholeManifests, Distinct, Manifests
  <2>5. TempsUncommitted'
    BY <1>3, <1>5, <2>1 DEF BooksInv, TempsUncommitted
  <2>6. Books(w)'
    BY <1>1, <1>2, <1>3, <1>5, <2>2 DEF Books, NumberedAnew, Named, KeepsTwo
  <2>7. QED
    BY <1>1, <2>2, <2>3, <2>4, <2>5, <2>6, BooksStep
<1>6. QED
  BY <1>1, <1>4, <1>5 DEF Stage

\* A rename puts a file in the place of its temporary.
LEMMA RenameBooks ==
  ASSUME BooksInv, NEW w \in Writer, RenameIndex(w) \/ RenameState(w)
  PROVE  BooksInv'
<1>1. PICK kind \in Kind, next \in {"rename_state", "commit"} :
        /\ Rename(w, kind, next)
        /\ \/ pc[w] = "rename_index" /\ kind = "index" /\ next = "rename_state"
           \/ pc[w] = "rename_state" /\ kind = "state" /\ next = "commit"
  BY DEF RenameIndex, RenameState
<1>2. Typed /\ NumberedAnew(w) /\ Named(w) /\ lock = w
  BY <1>1 DEF BooksInv, Books
<1>3. UNCHANGED <<manifest, legacy, rotten, base, minted, look, committed>>
  BY <1>1 DEF Rename
<1>4. CASE AbandonSave(w) /\ UNCHANGED files
  BY <1>1, <1>3, <1>4, AbandonBooks
<1>5. CASE /\ temps' = temps \ {<<kind, job[w].generation>>}
           /\ files' = files \cup {<<kind, job[w].generation>>}
           /\ Goto(w, next)
           /\ UNCHANGED <<job, spent>>
  <2>1. job[w].generation = minted /\ minted \in Generation \ committed
    BY <1>1, <1>2 DEF NumberedAnew
  <2>2. pc'[w] = next /\ lock' = w /\ \A v \in Writer \ {w} : pc'[v] = pc[v]
    BY <1>1, <1>2, <1>5, GotoTyped DEF Goto
  <2>3. Typed'
    BY <1>1, <1>2, <1>3, <1>5, <2>1, GotoTyped DEF Typed
  <2>4. ManifestsCommitted' /\ WholeManifests' /\ Distinct' /\ TempsUncommitted'
    BY <1>3, <1>5 DEF BooksInv, ManifestsCommitted, WholeManifests, Distinct, Manifests, TempsUncommitted
  <2>5. Named(w)'
    BY <1>1, <1>2, <1>3, <1>5, <2>1, <2>2 DEF Named
  <2>6. Books(w)'
    BY <1>1, <1>2, <1>3, <1>5, <2>2, <2>5 DEF Books, NumberedAnew, KeepsTwo
  <2>7. QED
    BY <1>1, <2>2, <2>3, <2>4, <2>6, BooksStep
<1>6. QED
  BY <1>1, <1>4, <1>5 DEF Rename

\* The commit gives a manifest to a generation that no other names, with both
\* its files and without a temporary.
LEMMA CommitBooks ==
  ASSUME BooksInv, NEW w \in Writer, CommitManifest(w)
  PROVE  BooksInv'
<1>1. pc[w] = "commit" /\ Typed /\ NumberedAnew(w) /\ Named(w) /\ lock = w
  BY DEF CommitManifest, BooksInv, Books
<1>2. UNCHANGED <<files, legacy, rotten, base, minted, look>>
  BY DEF CommitManifest
<1>3. CASE AbandonSave(w) /\ UNCHANGED <<manifest, committed>>
  BY <1>1, <1>2, <1>3, AbandonBooks
<1>4. CASE /\ manifest' = [manifest EXCEPT ![job[w].sequence] = job[w].generation]
           /\ committed' = committed \cup {job[w].generation}
           /\ \/ Goto(w, "collect") /\ UNCHANGED <<temps, job, spent>>
              \/ AbandonSave(w)
  <2>1. PICK s \in Sequence, g \in Generation \ committed :
          s = job[w].sequence /\ g = job[w].generation /\ g = minted
    BY <1>1 DEF NumberedAnew
  <2>2. /\ manifest' = [manifest EXCEPT ![s] = g] /\ committed' = committed \cup {g}
        /\ manifest'[s] = g /\ \A t \in Sequence \ {s} : manifest'[t] = manifest[t]
    BY <1>1, <1>4, <2>1 DEF Typed
  <2>3. manifest' \in [Sequence -> Generation \cup {Nothing}] /\ committed' \subseteq 1..minted'
    <3>1. g \in 1..minted
      BY <2>1, StoreAssumption
    <3>2. QED
      BY <1>1, <1>2, <2>1, <2>2, <3>1 DEF Typed
  <2>4. ManifestsCommitted'
    BY <2>2 DEF BooksInv, ManifestsCommitted
  <2>5. \A t \in Manifests' : t = s \/ (t \in Manifests /\ manifest'[t] = manifest[t] /\ manifest[t] \in committed)
    BY <2>2 DEF Manifests, BooksInv, ManifestsCommitted
  <2>6. Distinct'
    BY <2>1, <2>2, <2>5 DEF Distinct, BooksInv
  <2>7. WholeManifests'
    <3>1. Pair(g) \subseteq files
      BY <1>1, <2>1 DEF Named, Pair
    <3>2. QED
      BY <1>2, <2>2, <2>5, <3>1 DEF WholeManifests, BooksInv
  <2>8. temps' \subseteq temps
    BY <1>4 DEF AbandonSave
  <2>9. TempsUncommitted'
    <3>1. ASSUME NEW f \in temps'
          PROVE  f[2] \notin committed'
      <4>1. f \in temps /\ f[2] \notin committed /\ f \in Kind \X Generation
        BY <1>1, <2>8 DEF BooksInv, TempsUncommitted, Typed
      <4>2. f[2] # g
        BY <1>1, <2>1, <4>1 DEF Named
      <4>3. QED
        BY <2>2, <4>1, <4>2
    <3>2. QED
      BY <3>1 DEF TempsUncommitted
  <2>10. CASE Goto(w, "collect") /\ UNCHANGED <<temps, job, spent>>
    <3>1. Typed' /\ \A v \in Writer \ {w} : pc'[v] = pc[v]
      BY <1>1, <1>2, <2>3, <2>10, GotoTyped DEF Typed
    <3>2. QED
      BY <1>1, <2>4, <2>6, <2>7, <2>9, <2>10, <3>1, GotoBooks, BooksStep
  <2>11. CASE AbandonSave(w)
    <3>1. Typed' /\ \A v \in Writer \ {w} : pc'[v] = pc[v]
      BY <1>1, <1>2, <2>3, <2>11, AbandonTyped, LeaveTyped DEF Typed
    <3>2. QED
      BY <1>1, <2>4, <2>6, <2>7, <2>9, <2>11, <3>1, AbandonTyped, LeaveBooks, BooksStep
  <2>12. QED
    BY <1>4, <2>10, <2>11
<1>5. QED
  BY <1>1, <1>3, <1>4 DEF CommitManifest

\* The greatest two of a set of numbers.
LEMMA RetainedAreTwo ==
  ASSUME NEW S \in SUBSET Sequence, S # {}
  PROVE  AtMostTwo(Retained(S))
<1>1. PICK a \in S : \A t \in S : t <= a
  BY MaxFact, StoreAssumption
<1>2. CASE S \ {a} = {}
  <2>1. Retained(S) \subseteq S
    BY DEF Retained
  <2>2. S \subseteq {a, a} /\ a \in Sequence
    BY <1>2
  <2>3. QED
    BY <2>1, <2>2 DEF AtMostTwo
<1>3. CASE S \ {a} # {}
  <2>1. PICK b \in S \ {a} : \A t \in S \ {a} : t <= b
    BY <1>3, MaxFact, StoreAssumption
  <2>2. ASSUME NEW s \in Retained(S)
        PROVE  s \in {a, b}
    <3> SUFFICES ASSUME s \notin {a, b}
                 PROVE  FALSE
      OBVIOUS
    <3> DEFINE above == {t \in S : t > s}
    <3>1. s \in S /\ Cardinality(above) < 2
      BY DEF Retained
    <3>2. {a, b} \subseteq above
      BY <1>1, <2>1, <3>1, StoreAssumption
    <3>3. IsFiniteSet(above)
      <4>1. IsFiniteSet(1..MaxSequence)
        BY FS_Interval, StoreAssumption
      <4>2. above \subseteq 1..MaxSequence
        OBVIOUS
      <4>3. QED
        BY <4>1, <4>2, FS_Subset
    <3>4. Cardinality({a, b}) = 2
      <4>1. Cardinality({a}) = 1 /\ IsFiniteSet({a})
        BY FS_Singleton
      <4>2. {a, b} = {a} \cup {b} /\ b \notin {a}
        BY <2>1
      <4>3. Cardinality({a} \cup {b}) = IF b \in {a} THEN Cardinality({a}) ELSE Cardinality({a}) + 1
        BY <4>1, FS_AddElement, Zenon
      <4>4. QED
        BY <4>1, <4>2, <4>3
    <3>5. Cardinality({a, b}) <= Cardinality(above)
      BY <3>2, <3>3, FS_Subset
    <3>6. Cardinality(above) \in Nat
      BY <3>3, FS_CardinalityType
    <3>7. QED
      BY <3>1, <3>4, <3>5, <3>6
  <2>3. QED
    BY <1>1, <2>1, <2>2 DEF AtMostTwo
<1>4. QED
  BY <1>2, <1>3

\* A collection keeps two manifests, whichever it read.
LEMMA CollectBooks ==
  ASSUME BooksInv, NEW w \in Writer, CollectOldGenerations(w)
  PROVE  BooksInv'
<1>1. pc[w] = "collect" /\ Typed /\ lock = w
  BY DEF CollectOldGenerations, BooksInv, Books
<1>2. UNCHANGED <<disk, base, minted, look, committed>> /\ Goto(w, "sweep_manifests")
  BY DEF CollectOldGenerations
<1>3. PICK S \in SUBSET Complete : job' = [job EXCEPT ![w].keep = Retained(S)]
  BY DEF CollectOldGenerations
<1>4. spent' \in [Trouble -> Nat] /\ \A t \in Trouble : spent'[t] <= Budget[t]
  BY <1>1, MisreadTyped DEF CollectOldGenerations
<1>5. pc'[w] = "sweep_manifests" /\ lock' = w /\ \A v \in Writer \ {w} : pc'[v] = pc[v]
  BY <1>1, <1>2, GotoTyped DEF Goto
<1>6. Retained(S) \subseteq Manifests /\ Manifests \subseteq Sequence
  BY <1>3 DEF Retained, Complete, Manifests
<1>7. job' \in [Writer -> Job] /\ job'[w].keep = Retained(S)
  <2>1. job[w] \in Job /\ job' = [job EXCEPT ![w] = [@ EXCEPT !.keep = Retained(S)]]
    BY <1>1, <1>3 DEF Typed
  <2>2. QED
    BY <1>1, <1>6, <2>1 DEF Typed, Job
<1>8. Typed'
  BY <1>1, <1>2, <1>4, <1>7, GotoTyped DEF Typed, disk
<1>9. AtMostTwo(Retained(S))
  <2>1. CASE S = {}
    BY <2>1, StoreAssumption DEF AtMostTwo, Retained
  <2>2. CASE S # {}
    BY <1>6, <2>2, CompleteNumbers, RetainedAreTwo
  <2>3. QED
    BY <2>1, <2>2
<1>10. AtMostTwo(job'[w].keep) /\ job'[w].keep \subseteq Manifests'
  BY <1>2, <1>6, <1>7, <1>9 DEF Manifests, disk
<1>11. Books(w)'
  BY <1>5, <1>10 DEF Books, NumberedAnew, Named, KeepsTwo, AtMostTwo
<1>12. QED
  BY <1>1, <1>2, <1>5, <1>8, <1>11, BooksQuiet DEF disk

\* A sweep takes what is not kept, the manifests before the files they name.
LEMMA SweepBooks ==
  ASSUME BooksInv, NEW w \in Writer, SweepManifest(w) \/ SweepData(w)
  PROVE  BooksInv'
<1>1. pc[w] \in {"sweep_manifests", "sweep_data"} /\ Typed /\ KeepsTwo(w) /\ lock = w
  BY DEF SweepManifest, SweepData, BooksInv, Books
<1>2. UNCHANGED <<legacy, rotten, job, base, minted, look, spent, committed>>
  BY DEF SweepManifest, SweepData, writers
<1>3. CASE SweepManifest(w)
  <2> DEFINE old == Manifests \ job[w].keep
  <2>1. UNCHANGED <<files, temps>> /\ pc[w] = "sweep_manifests"
    BY <1>3 DEF SweepManifest
  <2>2. CASE old # {} /\ manifest' = [manifest EXCEPT ![Max(old)] = Nothing] /\ UNCHANGED <<lock, pc>>
    <3>1. PICK m \in old : manifest' = [manifest EXCEPT ![m] = Nothing]
      BY <2>2, MaxFact, StoreAssumption DEF Manifests
    <3>2. /\ Manifests' = Manifests \ {m} /\ m \in Sequence
          /\ \A t \in Manifests' : manifest'[t] = manifest[t]
      BY <1>1, <3>1 DEF Manifests, Typed
    <3>3. Typed'
      BY <1>1, <1>2, <2>1, <2>2, <3>1 DEF Typed
    <3>4. ManifestsCommitted'
      BY <1>1, <1>2, <3>1 DEF ManifestsCommitted, BooksInv, Typed
    <3>5. WholeManifests' /\ Distinct' /\ TempsUncommitted'
      BY <1>2, <2>1, <3>2 DEF WholeManifests, Distinct, TempsUncommitted, BooksInv
    <3>6. KeepsTwo(w)'
      BY <1>1, <1>2, <2>1, <2>2, <3>1, <3>2 DEF KeepsTwo, AtMostTwo
    <3>7. Books(w)'
      BY <1>1, <2>1, <2>2, <3>6 DEF Books, NumberedAnew, Named
    <3>8. QED
      BY <1>1, <2>2, <3>3, <3>4, <3>5, <3>7, BooksStep
  <2>3. CASE old = {} /\ Goto(w, "sweep_data") /\ UNCHANGED manifest
    <3>1. pc'[w] = "sweep_data" /\ lock' = w /\ \A v \in Writer \ {w} : pc'[v] = pc[v]
      BY <1>1, <2>3, GotoTyped DEF Goto
    <3>2. Typed'
      BY <1>1, <1>2, <2>1, <2>3, GotoTyped DEF Typed
    <3>3. Manifests' = Manifests
      BY <2>3 DEF Manifests
    <3>4. KeepsTwo(w)'
      BY <1>1, <1>2, <2>1, <2>3, <3>1, <3>3 DEF KeepsTwo, AtMostTwo
    <3>5. Books(w)'
      BY <3>1, <3>4 DEF Books, NumberedAnew, Named
    <3>6. QED
      BY <1>1, <1>2, <2>1, <2>3, <3>1, <3>2, <3>5, BooksQuiet
  <2>4. QED
    BY <1>3, <2>2, <2>3 DEF SweepManifest
<1>4. CASE SweepData(w)
  <2>1. pc[w] = "sweep_data" /\ UNCHANGED <<manifest, lock, pc>>
    BY <1>4 DEF SweepData, writers
  <2>2. PICK f \in Unreferenced(w) : files' = files \ {f} /\ temps' = temps \ {f}
    BY <1>4 DEF SweepData
  <2>3. Typed'
    BY <1>1, <1>2, <2>1, <2>2 DEF Typed
  <2>4. Manifests' = Manifests /\ Manifests \subseteq job[w].keep
    BY <1>1, <2>1 DEF Manifests, KeepsTwo
  <2>5. ManifestsCommitted' /\ Distinct' /\ TempsUncommitted'
    BY <1>2, <2>1, <2>2, <2>4 DEF BooksInv, ManifestsCommitted, Distinct, TempsUncommitted
  <2>6. WholeManifests'
    <3>1. \A s \in Manifests : f \notin Pair(manifest[s])
      BY <2>2, <2>4 DEF Unreferenced, Pair
    <3>2. QED
      BY <2>1, <2>2, <2>4, <3>1 DEF BooksInv, WholeManifests, Pair
  <2>7. KeepsTwo(w)'
    BY <1>1, <1>2, <2>1, <2>4 DEF KeepsTwo, AtMostTwo
  <2>8. Books(w)'
    BY <1>1, <2>1, <2>7 DEF Books, NumberedAnew, Named
  <2>9. QED
    BY <1>1, <2>1, <2>3, <2>5, <2>6, <2>8, BooksStep
<1>5. QED
  BY <1>3, <1>4

\* A save or a migration that ends, well or not, and a death.
LEMMA EndBooks ==
  ASSUME BooksInv, NEW w \in Writer,
         Swept(w) \/ DeferCleanup(w) \/ DropLegacy(w) \/ MigrationFails(w) \/ Crash(w)
  PROVE  BooksInv'
<1>1. Typed /\ pc[w] \in Locked /\ lock = w /\ job[w].generation \in Generation \cup {Nothing}
  BY DEF BooksInv, Books, Swept, DeferCleanup, DropLegacy, MigrationFails, Crash, Typed, Job
<1>2. base' \in [Writer -> Generation \cup {Nothing}]
  BY <1>1 DEF Swept, DeferCleanup, DropLegacy, MigrationFails, Crash, Committed, Typed
<1>3. spent' \in [Trouble -> Nat] /\ \A t \in Trouble : spent'[t] <= Budget[t]
  BY <1>1, SufferTyped DEF Swept, DeferCleanup, DropLegacy, MigrationFails, Crash, Typed
<1>4. /\ UNCHANGED <<manifest, files, temps, rotten, minted, look, committed>>
      /\ legacy' \in SUBSET Kind
  BY <1>1 DEF Swept, DeferCleanup, DropLegacy, MigrationFails, Crash, Typed, disk
<1>5. \/ Leave(w)
      \/ \E next \in {"drop_index", "drop_state"} : Goto(w, next) /\ job' = job
  BY DEF Swept, DeferCleanup, DropLegacy, MigrationFails, Crash, Committed
<1>6. CASE Leave(w)
  <2>1. Typed' /\ \A v \in Writer \ {w} : pc'[v] = pc[v]
    BY <1>1, <1>2, <1>3, <1>4, <1>6, LeaveTyped DEF Typed
  <2>2. QED
    BY <1>1, <1>4, <1>6, <2>1, LeaveBooks, BooksQuiet
<1>7. ASSUME NEW next \in {"drop_index", "drop_state"}, Goto(w, next), job' = job
      PROVE  BooksInv'
  <2>1. Typed' /\ \A v \in Writer \ {w} : pc'[v] = pc[v]
    BY <1>1, <1>2, <1>3, <1>4, <1>7, GotoTyped DEF Typed
  <2>2. QED
    BY <1>1, <1>4, <1>7, <2>1, GotoBooks, BooksQuiet
<1>8. QED
  BY <1>5, <1>6, <1>7

\* Readers and rot leave the books alone.
LEMMA OutsideBooks ==
  ASSUME BooksInv, Rot \/ \E r \in Reader : Read(r)
  PROVE  BooksInv'
<1>1. UNCHANGED <<manifest, files, temps, legacy, writers, committed>>
  BY DEF Rot, Read, BeginRead, List, Scan, ScanEnds, Verify, Stable, ReadLegacy, ReaderStep, disk
<1>2. Typed'
  <2>1. CASE Rot
    <3>1. PICK s \in Complete : rotten' = rotten \cup {manifest[s]}
      BY <2>1 DEF Rot
    <3>2. manifest[s] \in Generation
      BY <3>1 DEF BooksInv, Typed, Complete, Manifests
    <3>3. QED
      BY <1>1, <2>1, <3>1, <3>2, SufferTyped DEF Rot, BooksInv, Typed, writers
  <2>2. ASSUME NEW r \in Reader, Read(r)
        PROVE  Typed'
    BY <2>2, ReadTyped DEF BooksInv
  <2>3. QED
    BY <2>1, <2>2
<1>3. ManifestsCommitted' /\ WholeManifests' /\ Distinct' /\ TempsUncommitted'
  BY <1>1 DEF BooksInv, ManifestsCommitted, WholeManifests, Distinct, TempsUncommitted, Manifests
<1>4. \A w \in Writer : Books(w)'
  BY <1>1 DEF BooksInv, Books, NumberedAnew, Named, KeepsTwo, AtMostTwo, Manifests, writers
<1>5. QED
  BY <1>2, <1>3, <1>4 DEF BooksInv

\* Every step keeps the books.
LEMMA BooksHold ==
  ASSUME BooksInv, [Next]_vars
  PROVE  BooksInv'
<1>1. ASSUME NEW w \in Writer, WriterStep(w)
      PROVE  BooksInv'
  <2>1. CASE BeginSave(w) \/ BeginLoad(w)
    BY <2>1, EnterBooks DEF BeginSave, BeginLoad
  <2>2. CASE SaveStep(w)
    BY <2>2, LookingBooks, NextSequenceBooks, StageBooks, RenameBooks, CommitBooks, CollectBooks,
      SweepBooks, EndBooks DEF SaveStep
  <2>3. CASE Load(w) \/ DropLegacy(w) \/ MigrationFails(w) \/ Crash(w)
    BY <2>3, LookingBooks, EndBooks
  <2>4. QED
    BY <1>1, <2>1, <2>2, <2>3 DEF WriterStep
<1>2. CASE UNCHANGED vars
  BY <1>2 DEF vars, disk, writers, BooksInv, Typed, ManifestsCommitted, WholeManifests, Distinct,
    TempsUncommitted, Books, NumberedAnew, Named, KeepsTwo, AtMostTwo, Manifests
<1>3. QED
  BY <1>1, <1>2, OutsideBooks DEF Next

\* A manifest names its own generation, whose two files are there, whatever
\* reads, writes and processes fail: manifests are written after the files and
\* removed before them (save, _collect_old_generations).
THEOREM BooksInvariant == Spec => []BooksInv
<1>1. Init => BooksInv
  <2> SUFFICES ASSUME Init
               PROVE  BooksInv
    OBVIOUS
  <2>1. IndInv
    BY InitHolds
  <2>2. Manifests = {} /\ temps = {}
    BY DEF Init, Manifests
  <2>3. \A w \in Writer : Books(w)
    BY DEF Init, Books
  <2>4. QED
    BY <2>1, <2>2, <2>3 DEF IndInv, BooksInv, WholeManifests, Distinct, TempsUncommitted
<1>2. QED
  BY <1>1, BooksHold, PTL DEF Spec

Loadable == Generation \cup {Legacy, Nothing}
NewestLoadable == Newest \in Loadable
SeenLoadable == newestSeen \in [Reader -> SUBSET Loadable]

\* A load finds a generation, the 0.4.0 pair, or nothing.
LEMMA NewestTyped == Typed => NewestLoadable
<1> SUFFICES ASSUME Typed
             PROVE  Newest \in Loadable
  BY DEF NewestLoadable
<1>1. CASE Complete # {}
  <2>1. Max(Complete) \in Complete
    BY <1>1, CompleteNumbers, MaxFact, StoreAssumption
  <2>2. manifest[Max(Complete)] \in Generation
    BY <2>1 DEF Typed, Complete, Manifests
  <2>3. QED
    BY <1>1, <2>2 DEF Newest, Latest, Loadable
<1>2. CASE Complete = {}
  BY <1>2 DEF Newest, Loadable
<1>3. QED
  BY <1>1, <1>2

\* What a reader has seen are things a load finds.
LEMMA SeenStep ==
  ASSUME NewestLoadable, NewestLoadable', SeenLoadable, [Next]_vars
  PROVE  SeenLoadable'
<1>1. CASE Next
  BY <1>1 DEF Next, Observe, SeenLoadable, NewestLoadable
<1>2. CASE UNCHANGED vars
  BY <1>2 DEF vars, SeenLoadable
<1>3. QED
  BY <1>1, <1>2

\* Every variable keeps to its range, whoever dies wherever and whatever a scan
\* misses, and no sequence number outgrows the file name that holds it
\* (_next_sequence).
THEOREM TypeCorrect == Spec => []TypeInvariant
<1>1. Spec => []BooksInv
  BY BooksInvariant
<1>2. BooksInv => Typed
  BY DEF BooksInv
<1>3. Init => SeenLoadable
  BY DEF Init, SeenLoadable
<1>4. NewestLoadable /\ NewestLoadable' /\ SeenLoadable /\ [Next]_vars => SeenLoadable'
  BY SeenStep
<1>5. Typed /\ SeenLoadable => TypeInvariant
  BY DEF TypeInvariant, SeenLoadable, Loadable
<1>6. QED
  BY <1>1, <1>2, <1>3, <1>4, <1>5, NewestTyped, PTL DEF Spec

\* A collection that ends leaves two manifests at most, their files and no other,
\* and nothing of the saves that failed or died before it, although each of its
\* unlinks is a step that another process can fall between
\* (_collect_old_generations).
THEOREM CollectionExact == Spec => CollectedExactly
<1>1. ASSUME BooksInv, NEW w \in Writer, Swept(w)
      PROVE  /\ Cardinality(Manifests') <= 2
             /\ files' = Kind \X {manifest'[s] : s \in Manifests'}
             /\ temps' = {}
  <2>1. /\ Typed /\ WholeManifests /\ TempsUncommitted /\ ManifestsCommitted
        /\ pc[w] = "sweep_data" /\ Unreferenced(w) = {} /\ UNCHANGED <<manifest, files, temps>>
        /\ job[w].keep = Manifests /\ AtMostTwo(Manifests)
    BY <1>1 DEF BooksInv, Books, KeepsTwo, Swept, disk
  <2>2. Manifests' = Manifests
    BY <2>1 DEF Manifests
  <2>3. \A f \in files \cup temps : f \in Kind \X Generation /\ f[2] \in {manifest[s] : s \in Manifests}
    BY <2>1 DEF Unreferenced, Typed
  <2>4. files = Kind \X {manifest[s] : s \in Manifests}
    <3>1. \A s \in Manifests, k \in Kind : <<k, manifest[s]>> \in files
      BY <2>1 DEF WholeManifests, Pair
    <3>2. files \subseteq Kind \X {manifest[s] : s \in Manifests}
      <4>1. ASSUME NEW f \in files
            PROVE  f \in Kind \X {manifest[s] : s \in Manifests}
        BY <2>3
      <4>2. QED
        BY <4>1
    <3>3. Kind \X {manifest[s] : s \in Manifests} \subseteq files
      <4> DEFINE named == {manifest[s] : s \in Manifests}
      <4>1. \A k \in Kind, g \in named : <<k, g>> \in files
        BY <3>1
      <4> HIDE DEF named
      <4>2. \A f \in Kind \X named : \E k \in Kind, g \in named : f = <<k, g>>
        OBVIOUS
      <4>3. Kind \X named \subseteq files
        BY <4>1, <4>2
      <4>4. QED
        BY <4>3 DEF named
    <3>4. QED
      BY <3>2, <3>3
  <2>5. temps = {}
    <3>1. \A s \in Manifests : manifest[s] \in committed
      BY <2>1 DEF ManifestsCommitted, Manifests
    <3>2. QED
      BY <2>1, <2>3, <3>1 DEF TempsUncommitted
  <2>6. Cardinality(Manifests) <= 2
    <3>1. PICK a \in Sequence, b \in Sequence : Manifests \subseteq {a, b}
      BY <2>1 DEF AtMostTwo
    <3>2. IsFiniteSet({a}) /\ Cardinality({a}) = 1
      BY FS_Singleton
    <3>3. {a, b} = {a} \cup {b}
      OBVIOUS
    <3>4. IsFiniteSet({a, b}) /\ Cardinality({a, b}) \in {1, 2}
      BY <3>2, <3>3, FS_AddElement
    <3>5. Cardinality(Manifests) <= Cardinality({a, b}) /\ Cardinality(Manifests) \in Nat
      BY <3>1, <3>4, FS_Subset, FS_CardinalityType
    <3>6. QED
      BY <3>4, <3>5
  <2>7. QED
    BY <2>1, <2>2, <2>4, <2>5, <2>6
<1>2. BooksInv => (\A w \in Writer : Swept(w) =>
                     /\ Cardinality(Manifests') <= 2
                     /\ files' = Kind \X {manifest'[s] : s \in Manifests'}
                     /\ temps' = {})
  BY <1>1
<1>3. QED
  BY <1>2, BooksInvariant, PTL DEF CollectedExactly, Spec

-----------------------------------------------------------------------------
(***************************************************************************)
(* The generation behind the newest.  Whichever one generation goes bad,   *)
(* or none, the last commit but that one is the highest of what is left:   *)
(* the second newest has to be there, and below the newest, before it is   *)
(* needed, and a collection has to keep both.                              *)
(***************************************************************************)
Sweeping == {"sweep_manifests", "sweep_data"}
OneBad == {{}} \cup {{g} : g \in Generation}

\* Without the generations X, manifest s is the highest and shows the last commit.
Tops(X, s) ==
  /\ s \in Complete /\ manifest[s] \notin X
  /\ manifest[s] = Max(committed \ X)
  /\ \A t \in Complete : manifest[t] \notin X => t <= s

\* What went bad is among X, and that is not everything.
Bearable(X) == X \in OneBad /\ rotten \subseteq X /\ committed \ X # {}

Backed == \A X : Bearable(X) => \E s \in Sequence : Tops(X, s)
KeepsBacked(w) == pc[w] \in Sweeping => \A X : Bearable(X) => \E s \in job[w].keep : Tops(X, s)
BackInv == Backed /\ \A w \in Writer : KeepsBacked(w)

\* A step that changes no complete generation, nor what a collection keeps.
LEMMA BackQuiet ==
  ASSUME BackInv, UNCHANGED <<manifest, rotten, committed>>, Complete' = Complete,
         \A v \in Writer : pc'[v] \in Sweeping => pc[v] \in Sweeping /\ job'[v].keep = job[v].keep
  PROVE  BackInv'
<1>1. \A X, s : Tops(X, s)' <=> Tops(X, s)
  BY DEF Tops
<1>2. \A X : Bearable(X)' <=> Bearable(X)
  BY DEF Bearable
<1>3. Backed'
  BY <1>1, <1>2 DEF BackInv, Backed
<1>4. \A v \in Writer : KeepsBacked(v)'
  BY <1>1, <1>2 DEF BackInv, KeepsBacked
<1>5. QED
  BY <1>3, <1>4 DEF BackInv

\* A step of one process is nobody else's, and only a collection changes what
\* is kept.
LEMMA WriterAlone ==
  ASSUME Typed, NEW w \in Writer, WriterStep(w)
  PROVE  /\ \A v \in Writer \ {w} : pc'[v] = pc[v] /\ job'[v] = job[v]
         /\ pc'[w] \in Sweeping => CollectOldGenerations(w) \/ (pc[w] \in Sweeping /\ job'[w] = job[w])
<1>1. CASE BeginSave(w) \/ BeginLoad(w)
  BY <1>1 DEF BeginSave, BeginLoad, Begin, Typed, Sweeping
<1>2. CASE AssertCurrent(w) \/ NextSequence(w) \/ Load(w)
  BY <1>2 DEF AssertCurrent, NextSequence, Load, Goto, Leave, Typed, Sweeping
<1>3. CASE StageIndex(w) \/ StageState(w) \/ RenameIndex(w) \/ RenameState(w) \/ CommitManifest(w)
  BY <1>3 DEF StageIndex, StageState, RenameIndex, RenameState, Stage, Rename, CommitManifest,
    AbandonSave, Goto, Leave, Typed, Sweeping
<1>4. CASE CollectOldGenerations(w)
  BY <1>4 DEF CollectOldGenerations, Goto, Typed
<1>5. CASE SweepManifest(w) \/ SweepData(w)
  BY <1>5 DEF SweepManifest, SweepData, Goto, Typed, Sweeping, writers
<1>6. CASE Swept(w) \/ DeferCleanup(w) \/ DropLegacy(w) \/ MigrationFails(w) \/ Crash(w)
  BY <1>6 DEF Swept, DeferCleanup, DropLegacy, MigrationFails, Crash, Committed, Goto, Leave, Typed, Sweeping
<1>7. QED
  BY <1>1, <1>2, <1>3, <1>4, <1>5, <1>6 DEF WriterStep, SaveStep

\* The commit of a generation: it is the newest, and the one before it stands in
\* for it.
LEMMA CommitBacks ==
  ASSUME IndInv, BackInv, NEW w \in Writer, CommitManifest(w), committed' # committed
  PROVE  Backed'
<1>1. /\ pc[w] = "commit" /\ Typed /\ Numbered(w) /\ UNCHANGED <<files, rotten>>
      /\ manifest' = [manifest EXCEPT ![job[w].sequence] = job[w].generation]
      /\ committed' = committed \cup {job[w].generation}
  BY DEF CommitManifest, IndInv, Inside
<1>2. PICK s \in Sequence, g \in Generation \ committed :
        s = job[w].sequence /\ g = job[w].generation /\ g = minted
  BY <1>1 DEF Numbered
<1>3. Max(committed') = g /\ Shows(s)'
  BY <1>1, <1>2, CommitShows
<1>4. /\ committed' = committed \cup {g} /\ manifest'[s] = g
      /\ \A t \in Sequence \ {s} : manifest'[t] = manifest[t]
      /\ \A t \in Complete : t < s /\ t # s
  <2>1. committed' = committed \cup {g} /\ manifest'[s] = g
    BY <1>1, <1>2 DEF Typed
  <2>2. \A t \in Sequence \ {s} : manifest'[t] = manifest[t]
    BY <1>1, <1>2
  <2>3. \A t \in Complete : t < s
    BY <1>1, <1>2 DEF Numbered
  <2>4. \A t \in Complete : t \in Nat
    BY StoreAssumption DEF Complete, Manifests
  <2>5. \A t \in Complete : t # s
    BY <2>3, <2>4
  <2>6. QED
    BY <2>1, <2>2, <2>3, <2>5
<1>5. Complete' \subseteq Complete \cup {s} /\ Complete \subseteq Complete'
  BY <1>1, <1>3, <1>4 DEF Complete, Manifests, Verifies
<1>6. ASSUME NEW X, Bearable(X)'
      PROVE  \E t \in Sequence : Tops(X, t)'
  <2>1. X \in OneBad /\ rotten \subseteq X /\ committed' \ X # {}
    BY <1>1, <1>6 DEF Bearable
  <2>2. CASE g \notin X
    <3>a. committed \subseteq 1..g /\ g \in Nat
      BY <1>1, <1>2, StoreAssumption DEF Typed
    <3>b. \A h \in committed' : h \in Int /\ h <= g
      BY <1>4, <3>a
    <3>1. committed' \ X \in SUBSET Int /\ g \in committed' \ X /\ \A h \in committed' \ X : h <= g
      <4>1. g \in committed' \ X
        BY <1>4, <2>2
      <4>2. committed' \ X \subseteq Int
        BY <3>b
      <4>3. QED
        BY <3>b, <4>1, <4>2
    <3>2. Max(committed' \ X) = g
      BY <3>1, MaxIs
    <3>3. Tops(X, s)'
      BY <1>3, <1>4, <2>2, <3>2 DEF Tops, Shows
    <3>4. QED
      BY <3>3
  <2>3. CASE g \in X
    <3>1. X = {g}
      BY <2>1, <2>3 DEF OneBad
    <3>2. rotten = {} /\ committed' \ X = committed
      BY <1>2, <1>4, <2>1, <3>1 DEF IndInv
    <3>3. Bearable({}) /\ committed \ {} = committed
      BY <2>1, <3>2 DEF Bearable, OneBad
    <3>4. PICK t \in Sequence : Tops({}, t)
      BY <3>3 DEF BackInv, Backed
    <3>5. t \in Complete /\ manifest[t] = Max(committed) /\ \A u \in Complete : u <= t
      BY <3>3, <3>4 DEF Tops
    <3>6. manifest'[t] = manifest[t] /\ manifest[t] \in committed /\ t \in Complete'
      BY <1>4, <1>5, <3>5 DEF IndInv, ManifestsCommitted, Complete, Manifests
    <3>7. Tops(X, t)'
      BY <1>2, <1>4, <1>5, <3>1, <3>2, <3>5, <3>6 DEF Tops
    <3>8. QED
      BY <3>7
  <2>4. QED
    BY <2>2, <2>3
<1>7. QED
  BY <1>6 DEF Backed

\* At most one complete manifest is above the highest that is left, so a
\* collection keeps that one.
LEMMA CollectBacks ==
  ASSUME ReadsSucceed, IndInv, BooksInv, BackInv, NEW w \in Writer, CollectOldGenerations(w)
  PROVE  KeepsBacked(w)'
<1>1. Typed /\ UNCHANGED <<manifest, files, rotten, committed>>
  BY DEF CollectOldGenerations, IndInv, disk
<1>2. job' = [job EXCEPT ![w].keep = Retained(Complete)]
  BY <1>1, NothingMissed DEF CollectOldGenerations
<1>3. job'[w].keep = Retained(Complete)
  <2>1. job[w] \in Job /\ job' = [job EXCEPT ![w] = [@ EXCEPT !.keep = Retained(Complete)]]
    BY <1>1, <1>2 DEF Typed
  <2>2. QED
    BY <1>1, <2>1 DEF Typed, Job
<1>4. Complete' = Complete
  BY <1>1 DEF Complete, Manifests, Verifies
<1>5. ASSUME NEW X, Bearable(X)
      PROVE  \E s \in Retained(Complete) : Tops(X, s)
  <2>1. PICK s \in Sequence : Tops(X, s)
    BY <1>5 DEF BackInv, Backed
  <2> DEFINE above == {t \in Complete : t > s}
  <2>2. s \in Complete /\ \A t \in Complete : manifest[t] \notin X => t <= s
    BY <2>1 DEF Tops
  <2>3. \A t \in above : manifest[t] \in X
    BY <2>2, CompleteNumbers
  <2>4. \A t, u \in above : t = u
    <3>1. \A t, u \in above : manifest[t] = manifest[u]
      BY <1>5, <2>3 DEF Bearable, OneBad
    <3>2. QED
      BY <3>1 DEF BooksInv, Distinct, Complete
  <2>5. Cardinality(above) < 2
    <3>1. CASE above = {}
      BY <3>1, FS_EmptySet
    <3>2. CASE above # {}
      <4>1. PICK t \in above : above = {t}
        BY <2>4, <3>2
      <4>2. Cardinality({t}) = 1
        BY FS_Singleton
      <4>3. QED
        BY <4>1, <4>2
    <3>3. QED
      BY <3>1, <3>2
  <2>6. QED
    BY <2>1, <2>2, <2>5 DEF Retained
<1>6. ASSUME NEW X, Bearable(X)'
      PROVE  \E s \in job'[w].keep : Tops(X, s)'
  <2>1. Bearable(X)
    BY <1>1, <1>6 DEF Bearable
  <2>2. PICK s \in Retained(Complete) : Tops(X, s)
    BY <1>5, <2>1
  <2>3. QED
    BY <1>1, <1>3, <1>4, <2>2 DEF Tops
<1>7. QED
  BY <1>6 DEF KeepsBacked

\* What a collection keeps, it leaves complete.
LEMMA SweepBacks ==
  ASSUME IndInv, BackInv, NEW w \in Writer, SweepManifest(w) \/ SweepData(w)
  PROVE  Backed' /\ KeepsBacked(w)'
<1>1. Typed /\ pc[w] \in Sweeping /\ UNCHANGED <<rotten, committed, job>>
  BY DEF IndInv, SweepManifest, SweepData, writers, Sweeping
<1>2. /\ Complete' \subseteq Complete
      /\ \A t \in Complete' : manifest'[t] = manifest[t]
      /\ Complete \cap job[w].keep \subseteq Complete'
  <2>1. CASE SweepManifest(w)
    <3>1. CASE UNCHANGED manifest
      BY <1>1, <2>1, <3>1 DEF SweepManifest, Complete, Manifests, Verifies
    <3>2. CASE /\ Manifests \ job[w].keep # {}
               /\ manifest' = [manifest EXCEPT ![Max(Manifests \ job[w].keep)] = Nothing]
      <4>1. PICK m \in Manifests \ job[w].keep : manifest' = [manifest EXCEPT ![m] = Nothing]
        BY <3>2, MaxFact, StoreAssumption DEF Manifests
      <4>2. QED
        BY <1>1, <2>1, <4>1 DEF SweepManifest, Complete, Manifests, Verifies, Typed
    <3>3. QED
      BY <2>1, <3>1, <3>2 DEF SweepManifest
  <2>2. CASE SweepData(w)
    <3>1. PICK f \in Unreferenced(w) : files' = files \ {f}
      BY <2>2 DEF SweepData
    <3>2. \A s \in job[w].keep, k \in Kind : <<k, manifest[s]>> # f
      BY <3>1 DEF Unreferenced
    <3>3. QED
      BY <1>1, <2>2, <3>1, <3>2 DEF SweepData, Complete, Manifests, Verifies
  <2>3. QED
    BY <2>1, <2>2
<1>3. \A X, s : s \in job[w].keep /\ Tops(X, s) => Tops(X, s)'
  BY <1>1, <1>2 DEF Tops
<1>4. \A X : Bearable(X)' => Bearable(X)
  BY <1>1 DEF Bearable
<1>5. \A X : Bearable(X)' => \E s \in job[w].keep : Tops(X, s)'
  BY <1>1, <1>3, <1>4 DEF BackInv, KeepsBacked
<1>6. job[w].keep \subseteq Sequence
  BY <1>1 DEF Typed, Job
<1>7. QED
  BY <1>1, <1>5, <1>6 DEF Backed, KeepsBacked

\* What is said of X is said of what is not among X, and only that goes bad.
LEMMA RotBacks ==
  ASSUME IndInv, BackInv, Rot
  PROVE  BackInv'
<1>1. /\ UNCHANGED <<manifest, files, pc, job, committed>>
      /\ rotten \subseteq rotten'
  BY DEF Rot, writers
<1>2. \A t : t \in Complete' <=> t \in Complete /\ manifest[t] \notin rotten'
  BY <1>1 DEF Complete, Manifests, Verifies
<1>3. \A X : Bearable(X)' => Bearable(X) /\ rotten' \subseteq X
  BY <1>1 DEF Bearable
<1>4. \A X, s : rotten' \subseteq X /\ Tops(X, s) => Tops(X, s)'
  BY <1>1, <1>2 DEF Tops
<1>5. Backed'
  BY <1>3, <1>4 DEF BackInv, Backed
<1>6. \A w \in Writer : KeepsBacked(w)'
  BY <1>1, <1>3, <1>4 DEF BackInv, KeepsBacked
<1>7. QED
  BY <1>5, <1>6 DEF BackInv

\* Every step keeps a generation behind the newest.
LEMMA BackHolds ==
  ASSUME ReadsSucceed, IndInv, BooksInv, BackInv, [Next]_vars
  PROVE  BackInv'
<1>1. ASSUME NEW w \in Writer, WriterStep(w)
      PROVE  BackInv'
  <2>1. /\ \A v \in Writer \ {w} : pc'[v] = pc[v] /\ job'[v] = job[v]
        /\ pc'[w] \in Sweeping => CollectOldGenerations(w) \/ (pc[w] \in Sweeping /\ job'[w] = job[w])
    BY <1>1, WriterAlone DEF IndInv
  <2>2. ASSUME pc[w] \in Locked
        PROVE  \A v \in Writer \ {w} : KeepsBacked(v)'
    <3>1. \A v \in Writer \ {w} : pc'[v] \notin Locked
      BY <2>1, <2>2, Alone
    <3>2. QED
      BY <3>1 DEF KeepsBacked, Sweeping
  <2>3. CASE CollectOldGenerations(w)
    <3>1. pc[w] \in Locked /\ UNCHANGED <<manifest, files, rotten, committed>>
      BY <2>3 DEF CollectOldGenerations, disk
    <3>2. Complete' = Complete
      BY <3>1, DirectoryKept
    <3>3. Backed'
      BY <3>1, <3>2 DEF BackInv, Backed, Bearable, Tops
    <3>4. QED
      BY <2>2, <2>3, <3>1, <3>3, CollectBacks DEF BackInv
  <2>4. CASE SweepManifest(w) \/ SweepData(w)
    <3>1. pc[w] \in Locked
      BY <2>4 DEF SweepManifest, SweepData
    <3>2. QED
      BY <2>2, <2>4, <3>1, SweepBacks DEF BackInv
  <2>5. CASE CommitManifest(w) /\ committed' # committed
    <3>1. pc[w] = "commit" /\ ~ CollectOldGenerations(w)
      BY <2>5 DEF CommitManifest, CollectOldGenerations
    <3>2. KeepsBacked(w)'
      BY <2>1, <3>1 DEF KeepsBacked, Sweeping
    <3>3. QED
      BY <2>2, <2>5, <3>1, <3>2, CommitBacks DEF BackInv
  <2>6. CASE /\ UNCHANGED <<manifest, rotten, committed>> /\ Complete' = Complete
             /\ ~ CollectOldGenerations(w)
    BY <2>1, <2>6, BackQuiet
  <2>7. CASE CommitManifest(w) /\ committed' = committed
    <3>1. UNCHANGED <<manifest, files, rotten>>
      <4>1. CASE UNCHANGED manifest
        BY <2>7, <4>1 DEF CommitManifest
      <4>2. CASE committed' = committed \cup {job[w].generation}
        BY <2>7, <4>2 DEF CommitManifest, IndInv, Inside, Numbered
      <4>3. QED
        BY <2>7, <4>1, <4>2 DEF CommitManifest
    <3>2. Complete' = Complete
      BY <2>7, <3>1, DirectoryKept
    <3>3. QED
      BY <2>6, <2>7, <3>1, <3>2 DEF CommitManifest, CollectOldGenerations
  <2>8. CASE StageIndex(w) \/ StageState(w) \/ RenameIndex(w) \/ RenameState(w)
    <3>1. /\ pc[w] \in Writing /\ UNCHANGED <<manifest, rotten, committed>>
          /\ \E k \in Kind : files' \in {files, files \cup {<<k, job[w].generation>>}}
      BY <2>8 DEF StageIndex, StageState, Stage, RenameIndex, RenameState, Rename
    <3>2. job[w].generation \notin committed
      BY <3>1 DEF IndInv, Inside, Numbered
    <3>3. Complete' = Complete
      BY <3>1, <3>2, CompleteKept
    <3>4. QED
      BY <2>6, <3>1, <3>3 DEF CollectOldGenerations
  <2>9. CASE BeginSave(w) \/ AssertCurrent(w) \/ NextSequence(w) \/ Swept(w) \/ DeferCleanup(w)
             \/ BeginLoad(w) \/ Load(w) \/ DropLegacy(w) \/ MigrationFails(w) \/ Crash(w)
    <3>1. UNCHANGED <<manifest, files, rotten, committed>>
      BY <2>9 DEF BeginSave, BeginLoad, Begin, AssertCurrent, NextSequence, Swept, DeferCleanup, Load,
        DropLegacy, MigrationFails, Crash, disk
    <3>2. Complete' = Complete
      BY <3>1, DirectoryKept
    <3>3. QED
      BY <2>3, <2>6, <3>1, <3>2
  <2>10. QED
    BY <1>1, <2>3, <2>4, <2>5, <2>7, <2>8, <2>9 DEF WriterStep, SaveStep
<1>2. CASE UNCHANGED vars \/ \E r \in Reader : Read(r)
  <2>1. UNCHANGED <<manifest, files, rotten, committed, pc, job>>
    <3>1. CASE UNCHANGED vars
      BY <3>1 DEF vars, disk, writers
    <3>2. ASSUME NEW r \in Reader, Read(r)
          PROVE  UNCHANGED <<manifest, files, rotten, committed, pc, job>>
      BY <3>2 DEF disk, writers, Read, BeginRead, List, Scan, ScanEnds, Verify, Stable, ReadLegacy, ReaderStep
    <3>3. QED
      BY <1>2, <3>1, <3>2
  <2>2. Complete' = Complete
    BY <2>1, DirectoryKept
  <2>3. QED
    BY <2>1, <2>2, BackQuiet
<1>3. QED
  BY <1>1, <1>2, RotBacks DEF Next

\* A load finds the last generation that was committed, or the one before it when
\* that one has gone bad: at every moment of a save, of a collection and of a
\* migration, and after a death in the middle of one (latest).
THEOREM NewestRecovered == ReadsSucceed => (Spec => []RecoversNewestIntact)
<1> SUFFICES ASSUME ReadsSucceed
             PROVE  Spec => []RecoversNewestIntact
  OBVIOUS
<1>1. Spec => []IndInv /\ []BooksInv
  BY InvariantHolds, BooksInvariant
<1>2. Init => BackInv
  BY DEF Init, BackInv, Backed, Bearable, KeepsBacked, Sweeping
<1>3. IndInv /\ BooksInv /\ BackInv /\ [Next]_vars => BackInv'
  BY BackHolds
<1>4. IndInv /\ BackInv => RecoversNewestIntact
  <2> SUFFICES ASSUME IndInv, BackInv, Cardinality(rotten) <= 1, committed \ rotten # {}
               PROVE  Newest = Max(committed \ rotten)
    BY DEF RecoversNewestIntact
  <2>1. rotten \in OneBad
    <3>1. rotten \subseteq 1..MaxGenerations
      BY DEF IndInv, Typed
    <3>a. IsFiniteSet(1..MaxGenerations)
      BY FS_Interval, StoreAssumption
    <3>2. IsFiniteSet(rotten) /\ Cardinality(rotten) \in Nat
      BY <3>1, <3>a, FS_Subset, FS_CardinalityType
    <3>3. ASSUME NEW g \in rotten
          PROVE  rotten = {g}
      <4>1. IsFiniteSet(rotten \ {g}) /\ Cardinality(rotten \ {g}) = Cardinality(rotten) - 1
        BY <3>2, FS_RemoveElement
      <4>2. Cardinality(rotten \ {g}) \in Nat
        BY <4>1, FS_CardinalityType
      <4>3. Cardinality(rotten \ {g}) = 0
        BY <3>2, <4>1, <4>2
      <4>4. rotten \ {g} = {}
        BY <4>1, <4>3, FS_EmptySet
      <4>5. QED
        BY <4>4
    <3>4. QED
      BY <3>1, <3>3 DEF OneBad
  <2>2. PICK s \in Sequence : Tops(rotten, s)
    BY <2>1 DEF BackInv, Backed, Bearable
  <2>3. \A t \in Complete : manifest[t] \notin rotten
    BY DEF Complete, Verifies
  <2>4. s \in Complete /\ manifest[s] = Max(committed \ rotten) /\ \A t \in Complete : t <= s
    BY <2>2, <2>3 DEF Tops
  <2>5. Complete \in SUBSET Int
    BY CompleteNumbers
  <2>6. Max(Complete) = s
    BY <2>4, <2>5, MaxIs
  <2>7. Complete # {} /\ Manifests # {}
    BY <2>4 DEF Complete
  <2>8. QED
    BY <2>4, <2>6, <2>7 DEF Newest, Latest
<1>5. QED
  BY <1>1, <1>2, <1>3, <1>4, PTL DEF Spec

-----------------------------------------------------------------------------
(***************************************************************************)
(* A directory whose files stay good.                                      *)
(***************************************************************************)
NothingRots == Budget["rot"] = 0
Sound == rotten = {} /\ spent["rot"] \in Nat

\* What a load finds is the last commit.
NewestIsLast ==
  Newest = IF committed # {} THEN Max(committed)
           ELSE IF Manifests = {} /\ legacy = Kind THEN Legacy ELSE Nothing

\* With every file good, the last commit is what shows.
LEMMA NewestFact == IndInv /\ rotten = {} => NewestIsLast
<1> SUFFICES ASSUME IndInv, rotten = {}
             PROVE  NewestIsLast
  OBVIOUS
<1>1. CASE committed # {}
  <2>1. Complete # {}
    BY <1>1 DEF IndInv, NewestShown, NewestIntact, Shows
  <2>2. Latest(Complete) = Max(committed)
    BY <2>1, LatestIsNewest
  <2>3. Manifests # {}
    BY <2>1 DEF Complete
  <2>4. QED
    BY <1>1, <2>1, <2>2, <2>3 DEF Newest, NewestIsLast
<1>2. CASE committed = {}
  <2>1. Complete = {}
    BY <1>2 DEF IndInv, ManifestsCommitted, Complete, Manifests
  <2>2. QED
    BY <1>2, <2>1 DEF Newest, NewestIsLast
<1>3. QED
  BY <1>1, <1>2

\* Nothing goes bad without the trouble for it.
LEMMA SoundHolds == ReadsSucceed /\ NothingRots => (Spec => []Sound)
<1> SUFFICES ASSUME ReadsSucceed, NothingRots
             PROVE  Spec => []Sound
  OBVIOUS
<1>1. Spec => []IndInv
  BY InvariantHolds
<1>2. Init => Sound
  BY DEF Init, Sound
<1>3. IndInv /\ IndInv' /\ Sound /\ [Next]_vars => Sound'
  <2> SUFFICES ASSUME IndInv, IndInv', Sound, [Next]_vars
               PROVE  rotten' = {}
    BY DEF Sound, IndInv, Typed
  <2>1. ~ Rot
    <3>1. spent["rot"] \in Nat /\ spent["rot"] <= Budget["rot"]
      BY DEF IndInv, Typed
    <3>2. ~ (spent["rot"] < Budget["rot"])
      BY <3>1 DEF NothingRots
    <3>3. QED
      BY <3>2 DEF Rot, Suffer
  <2>2. ASSUME NEW w \in Writer, WriterStep(w)
        PROVE  rotten' = rotten
    BY <2>2 DEF WriterStep, SaveStep, BeginSave, BeginLoad, Begin, AssertCurrent, NextSequence,
      StageIndex, StageState, Stage, RenameIndex, RenameState, Rename, CommitManifest,
      CollectOldGenerations, SweepManifest, SweepData, Swept, DeferCleanup, Load, DropLegacy,
      MigrationFails, Crash, disk
  <2>3. ASSUME NEW r \in Reader, Read(r)
        PROVE  rotten' = rotten
    BY <2>3 DEF Read, BeginRead, List, Scan, ScanEnds, Verify, Stable, ReadLegacy, ReaderStep, disk
  <2>4. QED
    BY <2>1, <2>2, <2>3 DEF Next, vars, disk, Sound
<1>4. QED
  BY <1>1, <1>2, <1>3, PTL DEF Spec

-----------------------------------------------------------------------------
(***************************************************************************)
(* The register.                                                           *)
(***************************************************************************)
\* What is current: the last commit.
CurrentIsLast == Current = IF committed # {} THEN Max(committed) ELSE Nothing

\* The current value of the register is the last commit.
LEMMA CurrentFact == IndInv /\ Sound => CurrentIsLast
<1> SUFFICES ASSUME IndInv, Sound
             PROVE  CurrentIsLast
  OBVIOUS
<1>1. NewestIsLast
  BY NewestFact DEF Sound
<1>2. CASE committed # {}
  <2>1. Max(committed) \in committed
    BY <1>2, CommittedGenerations, MaxFact, StoreAssumption DEF IndInv
  <2>2. Max(committed) # Legacy
    BY <2>1, CommittedGenerations, StoreAssumption DEF IndInv
  <2>3. QED
    BY <1>1, <1>2, <2>2 DEF NewestIsLast, CurrentIsLast, Current
<1>3. CASE committed = {}
  BY <1>1, <1>3 DEF NewestIsLast, CurrentIsLast, Current
<1>4. QED
  BY <1>2, <1>3

Commits(w) ==
  /\ pc[w] = "commit"
  /\ committed' = committed \cup {job[w].generation}
  /\ UNCHANGED base

Adopts(w) ==
  /\ committed # {}
  /\ base' = [base EXCEPT ![w] = Max(committed)]
  /\ UNCHANGED committed

Restarts(w) ==
  /\ base' = [base EXCEPT ![w] = Nothing]
  /\ UNCHANGED committed

\* What a step does to the history and to what the indexes stand on.
LEMMA WriterChanges ==
  ASSUME ReadsSucceed, IndInv, Sound, NEW w \in Writer, WriterStep(w)
  PROVE  UNCHANGED <<committed, base>> \/ Commits(w) \/ Adopts(w) \/ Restarts(w)
<1>1. CASE BeginSave(w) \/ BeginLoad(w) \/ AssertCurrent(w) \/ NextSequence(w)
           \/ StageIndex(w) \/ StageState(w) \/ RenameIndex(w) \/ RenameState(w)
  BY <1>1 DEF BeginSave, BeginLoad, Begin, AssertCurrent, NextSequence,
    StageIndex, StageState, Stage, RenameIndex, RenameState, Rename
<1>2. CASE CommitManifest(w)
  BY <1>2 DEF CommitManifest, Commits
<1>3. CASE CollectOldGenerations(w) \/ SweepManifest(w) \/ SweepData(w) \/ MigrationFails(w)
  BY <1>3 DEF CollectOldGenerations, SweepManifest, SweepData, MigrationFails, writers
<1>4. CASE Swept(w) \/ DeferCleanup(w)
  <2>1. pc[w] \in {"collect", "sweep_manifests", "sweep_data"} /\ Committed(w) /\ UNCHANGED committed
    BY <1>4 DEF Swept, DeferCleanup
  <2>2. job[w].generation \in committed /\ job[w].generation = Max(committed)
    BY <2>1 DEF IndInv, Inside, JustCommitted
  <2>3. QED
    BY <2>1, <2>2 DEF Committed, Adopts
<1>5. CASE Load(w)
  <2>1. UNCHANGED committed /\ (UNCHANGED base \/ \E missed \in SUBSET Sequence :
          Misread(missed) /\ Complete \ missed # {} /\ base' = [base EXCEPT ![w] = Latest(Complete \ missed)])
    BY <1>5 DEF Load
  <2>2. CASE UNCHANGED base
    BY <2>1, <2>2
  <2>3. CASE \E missed \in SUBSET Sequence :
          Misread(missed) /\ Complete \ missed # {} /\ base' = [base EXCEPT ![w] = Latest(Complete \ missed)]
    <3>1. Complete # {} /\ base' = [base EXCEPT ![w] = Latest(Complete)]
      BY <2>3, NothingMissed DEF IndInv
    <3>2. Latest(Complete) = Max(committed) /\ committed # {}
      BY <3>1, LatestIsNewest DEF Sound
    <3>3. QED
      BY <2>1, <3>1, <3>2 DEF Adopts
  <2>4. QED
    BY <2>1, <2>2, <2>3
<1>6. CASE DropLegacy(w)
  <2>1. job[w].generation \in committed /\ job[w].generation = Max(committed)
    BY <1>6 DEF DropLegacy, IndInv, Inside, JustCommitted
  <2>2. QED
    BY <1>6, <2>1 DEF DropLegacy, Adopts
<1>7. CASE Crash(w)
  BY <1>7 DEF Crash, Restarts
<1>8. QED
  BY <1>1, <1>2, <1>3, <1>4, <1>5, <1>6, <1>7 DEF WriterStep, SaveStep

\* A commit is a save of the register, by an index that stands on what is current.
LEMMA CommitSaves ==
  ASSUME IndInv, IndInv', Sound, CurrentIsLast, CurrentIsLast', NEW w \in Writer, Commits(w)
  PROVE  Register!Save(w)
<1>1. Typed /\ Numbered(w) /\ StandsOnNewest(w)
  BY DEF Commits, IndInv, Inside
<1>2. PICK g \in Generation : g = job[w].generation /\ g = minted /\ g \notin committed
  BY <1>1 DEF Commits, Numbered
<1>3. Max(committed') = g
  <2>1. committed' = committed \cup {g} /\ committed \subseteq 1..g
    BY <1>1, <1>2 DEF Commits, Typed
  <2>2. committed' \in SUBSET Int /\ g \in committed' /\ \A t \in committed' : t <= g
    BY <2>1, StoreAssumption
  <2>3. QED
    BY <2>2, MaxIs
<1>4. Current' = g
  BY <1>2, <1>3 DEF Commits, CurrentIsLast
<1>5. Current # g
  <2>1. CASE committed # {}
    BY <1>2, <2>1, CommittedGenerations, MaxFact, StoreAssumption DEF CurrentIsLast, IndInv
  <2>2. CASE committed = {}
    BY <2>2, StoreAssumption DEF CurrentIsLast
  <2>3. QED
    BY <2>1, <2>2
<1>6. base[w] \in {Nothing, Current}
  <2>1. base[w] # Nothing => committed # {}
    BY DEF IndInv
  <2>2. base[w] # Nothing => Max(committed) = base[w]
    BY <1>1 DEF Commits, StandsOnNewest, Sound
  <2>3. QED
    BY <2>1, <2>2 DEF CurrentIsLast
<1>7. QED
  BY <1>4, <1>5, <1>6 DEF Register!Save, Commits

\* Every step is a step of the register, or none.
LEMMA RegisterStep ==
  ASSUME ReadsSucceed, IndInv, IndInv', Sound, Sound', CurrentIsLast, CurrentIsLast', [Next]_vars
  PROVE  [Register!Next]_(Register!vars)
<1>1. CASE UNCHANGED <<committed, base>>
  BY <1>1 DEF CurrentIsLast, Register!vars
<1>2. ASSUME NEW w \in Writer, WriterStep(w)
      PROVE  [Register!Next]_(Register!vars)
  <2>1. CASE Commits(w)
    BY <2>1, CommitSaves DEF Register!Next
  <2>2. CASE Adopts(w)
    <3>1. Current' = Current /\ base' = [base EXCEPT ![w] = Current]
      BY <2>2 DEF Adopts, CurrentIsLast
    <3>2. QED
      BY <3>1 DEF Register!Next, Register!Adopt
  <2>3. CASE Restarts(w)
    <3>1. Current' = Current /\ base' = [base EXCEPT ![w] = Nothing]
      BY <2>3 DEF Restarts, CurrentIsLast
    <3>2. QED
      BY <3>1 DEF Register!Next, Register!Restart
  <2>4. QED
    BY <1>1, <1>2, <2>1, <2>2, <2>3, WriterChanges
<1>3. ASSUME NEW r \in Reader, Read(r)
      PROVE  UNCHANGED <<committed, base>>
  BY <1>3 DEF Read, BeginRead, List, Scan, ScanEnds, Verify, Stable, ReadLegacy, ReaderStep, writers
<1>4. CASE Rot
  BY <1>1, <1>4 DEF Rot, writers
<1>5. QED
  BY <1>1, <1>2, <1>3, <1>4 DEF Next, vars, writers

\* The files, the lock, the collections and the deaths do not show: the directory
\* is one compare-and-swap register (snapshot_store.py save, faiss_index.py).
THEOREM RegisterImplemented == ReadsSucceed /\ NothingRots => (Spec => ImplementsRegister)
<1> SUFFICES ASSUME ReadsSucceed, NothingRots
             PROVE  Spec => ImplementsRegister
  OBVIOUS
<1>1. Spec => []IndInv /\ []Sound
  BY InvariantHolds, SoundHolds
<1>2. Init /\ CurrentIsLast => Register!Init
  BY DEF Init, CurrentIsLast, Register!Init
<1>3. IndInv /\ IndInv' /\ Sound /\ Sound' /\ CurrentIsLast /\ CurrentIsLast' /\ [Next]_vars
      => [Register!Next]_(Register!vars)
  BY RegisterStep
<1>4. QED
  BY <1>1, <1>2, <1>3, CurrentFact, PTL DEF Spec, ImplementsRegister, Register!Spec
-----------------------------------------------------------------------------
(***************************************************************************)
(* Readers without the lock, while at most one file goes bad.  The         *)
(* manifests are numbered without a gap below the newest, but for what a   *)
(* collection took away beneath two newer ones; so a number is only given  *)
(* again when the newest generation itself has gone bad.                   *)
(***************************************************************************)
RotsAtMostOnce == Budget["rot"] <= 1

\* What has gone bad is one generation, and no other will.
RotsOnce ==
  /\ \A x, y \in rotten : x = y
  /\ rotten # {} => spent["rot"] >= 1

\* A manifest that is not complete is not far above the complete ones.
Close == \A s \in Manifests \ Complete : s = 1 \/ \E c \in Complete : s <= c + 1

\* While all is good, below the newest manifest there is the one before it.
Dense ==
  rotten = {} =>
    \A s \in Manifests : s = 1 \/ s - 1 \in Manifests \/ \E t \in Manifests : t > s

\* The 0.4.0 index is the first of its pair to go.
IndexFirst ==
  /\ "index" \in legacy => legacy = Kind
  /\ \A w \in Writer : pc[w] = "drop_state" => "index" \notin legacy

\* A number that was chosen is the next one, or the first.
Follows(w) ==
  pc[w] \in Writing /\ rotten = {} =>
    job[w].sequence = 1 \/ job[w].sequence - 1 \in Manifests

\* What a collection takes lies beneath two manifests that it keeps.
Covers(w) ==
  pc[w] \in Sweeping =>
    \A s \in Complete \ job[w].keep :
      \E m, n \in job[w].keep \cap Manifests : m # n /\ m > s /\ n > s

ShapeInv ==
  /\ RotsOnce /\ Close /\ Dense /\ IndexFirst
  /\ \A w \in Writer : Follows(w) /\ Covers(w)

\* A manifest is complete unless its generation has gone bad, and the highest
\* complete one is what a load finds.
Apex ==
  /\ Complete = {s \in Manifests : manifest[s] \notin rotten}
  /\ \A m \in Complete : (\A c \in Complete : c <= m) => Newest = manifest[m]

\* Both files of every manifest are there.
LEMMA ApexFact == BooksInv => Apex
<1> SUFFICES ASSUME BooksInv
             PROVE  Apex
  OBVIOUS
<1>1. Complete = {s \in Manifests : manifest[s] \notin rotten}
  BY DEF BooksInv, WholeManifests, Pair, Complete, Verifies
<1>2. ASSUME NEW m \in Complete, \A c \in Complete : c <= m
      PROVE  Newest = manifest[m]
  <2>1. Complete \in SUBSET Int
    BY CompleteNumbers
  <2>2. Max(Complete) = m
    BY <1>2, <2>1, MaxIs
  <2>3. Complete # {} /\ Manifests # {}
    BY DEF Complete
  <2>4. QED
    BY <2>2, <2>3 DEF Newest, Latest
<1>3. QED
  BY <1>1, <1>2 DEF Apex

-----------------------------------------------------------------------------
(***************************************************************************)
(* What a step does to the manifests: nothing, or one is added above the   *)
(* complete ones, or one is dropped beneath two others, or one is spoilt.  *)
(***************************************************************************)
Still == UNCHANGED <<manifest, rotten>> /\ Manifests' = Manifests /\ Complete' = Complete

Adds(n) ==
  /\ n \in Sequence /\ \A c \in Complete : c < n
  /\ rotten = {} => n = 1 \/ n - 1 \in Manifests
  /\ \A t \in Sequence \ {n} : manifest'[t] = manifest[t]
  /\ Manifests' = Manifests \cup {n} /\ Complete' = Complete \cup {n}
  /\ rotten' = rotten

Drops(s) ==
  /\ s \in Manifests
  /\ s \in Complete =>
       \E x \in Complete, y \in Manifests :
         x # y /\ x > s /\ y > s /\ (rotten = {} => y \in Complete)
  /\ \A t \in Sequence \ {s} : manifest'[t] = manifest[t]
  /\ Manifests' = Manifests \ {s} /\ Complete' = Complete \ {s}
  /\ rotten' = rotten

Spoils(s) ==
  /\ s \in Complete /\ rotten = {} /\ Complete = Manifests
  /\ manifest' = manifest /\ Manifests' = Manifests
  /\ Complete' = Complete \ {s}
  /\ rotten' = {manifest[s]}

Moves ==
  \/ Still
  \/ \E n \in Sequence : Adds(n)
  \/ \E s \in Manifests : Drops(s) \/ Spoils(s)

\* Manifests and bad generations that stay are the same complete ones.
LEMMA StandsStill ==
  ASSUME Apex, Apex', UNCHANGED <<manifest, rotten>>
  PROVE  Still
<1>1. Manifests' = Manifests
  BY DEF Manifests
<1>2. QED
  BY <1>1 DEF Apex, Still

\* A commit adds a manifest that follows the newest one.
LEMMA CommitAdds ==
  ASSUME IndInv, ShapeInv, Apex, Apex', NEW w \in Writer, CommitManifest(w)
  PROVE  Moves
<1>1. pc[w] = "commit" /\ Typed /\ Numbered(w) /\ Follows(w) /\ rotten' = rotten
  BY DEF CommitManifest, IndInv, Inside, ShapeInv
<1>2. CASE manifest' = manifest
  BY <1>1, <1>2, StandsStill DEF Moves
<1>3. CASE manifest' = [manifest EXCEPT ![job[w].sequence] = job[w].generation]
  <2>1. PICK n \in Sequence, g \in Generation \ committed : n = job[w].sequence /\ g = job[w].generation
    BY <1>1 DEF Numbered
  <2>2. /\ manifest'[n] = g /\ g # Nothing /\ g \notin rotten
        /\ \A t \in Sequence \ {n} : manifest'[t] = manifest[t]
    BY <1>1, <1>3, <2>1 DEF Typed, IndInv
  <2>3. \A c \in Complete : c < n
    BY <1>1, <2>1 DEF Numbered
  <2>4. rotten = {} => n = 1 \/ n - 1 \in Manifests
    BY <1>1, <2>1 DEF Follows
  <2>5. Manifests' = Manifests \cup {n}
    BY <2>2 DEF Manifests
  <2>6. Complete' = Complete \cup {n}
    BY <1>1, <2>2, <2>5 DEF Apex, Manifests
  <2>7. Adds(n)
    BY <1>1, <2>2, <2>3, <2>4, <2>5, <2>6 DEF Adds
  <2>8. QED
    BY <2>7 DEF Moves
<1>4. QED
  BY <1>2, <1>3 DEF CommitManifest

\* A collection drops a manifest beneath two that it keeps, of which at most one
\* has gone bad.
LEMMA SweepDrops ==
  ASSUME BooksInv, ShapeInv, Apex, Apex', NEW w \in Writer, SweepManifest(w)
  PROVE  Moves
<1>1. pc[w] \in Sweeping /\ Covers(w) /\ RotsOnce /\ Typed /\ Distinct /\ rotten' = rotten
  BY DEF SweepManifest, ShapeInv, BooksInv, Sweeping
<1>2. CASE manifest' = manifest
  BY <1>1, <1>2, StandsStill DEF Moves
<1>3. CASE /\ Manifests \ job[w].keep # {}
           /\ manifest' = [manifest EXCEPT ![Max(Manifests \ job[w].keep)] = Nothing]
  <2>1. PICK s \in Manifests \ job[w].keep : manifest' = [manifest EXCEPT ![s] = Nothing]
    BY <1>3, MaxFact, StoreAssumption DEF Manifests
  <2>2. manifest'[s] = Nothing /\ \A t \in Sequence \ {s} : manifest'[t] = manifest[t]
    BY <1>1, <2>1 DEF Typed, Manifests
  <2>3. Manifests' = Manifests \ {s}
    BY <2>2 DEF Manifests
  <2>4. Complete' = Complete \ {s}
    BY <1>1, <2>2, <2>3 DEF Apex, Manifests
  <2>5. ASSUME s \in Complete
        PROVE  \E x \in Complete, y \in Manifests :
                 x # y /\ x > s /\ y > s /\ (rotten = {} => y \in Complete)
    <3>1. PICK x \in Manifests, y \in Manifests : x # y /\ x > s /\ y > s
      BY <1>1, <2>1, <2>5 DEF Covers
    <3>2. x \in Complete \/ y \in Complete
      BY <1>1, <3>1 DEF Apex, RotsOnce, Distinct
    <3>3. rotten = {} => x \in Complete /\ y \in Complete
      BY <3>1 DEF Apex
    <3>4. QED
      BY <3>1, <3>2, <3>3
  <2>6. Drops(s)
    BY <1>1, <2>1, <2>2, <2>3, <2>4, <2>5 DEF Drops
  <2>7. QED
    BY <2>1, <2>6 DEF Moves
<1>4. QED
  BY <1>2, <1>3 DEF SweepManifest

\* The first generation to go bad is spoilt, and there is no second one.
LEMMA RotSpoils ==
  ASSUME RotsAtMostOnce, BooksInv, ShapeInv, Apex, Apex', Rot
  PROVE  Moves
<1>1. rotten = {}
  <2>1. spent["rot"] < Budget["rot"] /\ spent["rot"] \in Nat /\ Budget["rot"] \in Nat
    BY StoreAssumption DEF Rot, Suffer, BooksInv, Typed
  <2>2. QED
    BY <2>1 DEF RotsAtMostOnce, ShapeInv, RotsOnce
<1>2. PICK s \in Complete : rotten' = {manifest[s]}
  BY <1>1 DEF Rot
<1>3. manifest' = manifest /\ Manifests' = Manifests
  BY DEF Rot, Manifests
<1>4. Complete = Manifests
  BY <1>1 DEF Apex
<1>5. Complete' = Complete \ {s}
  BY <1>2, <1>3, <1>4 DEF Apex, BooksInv, Distinct
<1>6. Spoils(s)
  BY <1>1, <1>2, <1>3, <1>4, <1>5 DEF Spoils
<1>7. QED
  BY <1>4, <1>6 DEF Moves

\* Every step does one of these to the manifests.
LEMMA StepMoves ==
  ASSUME RotsAtMostOnce, IndInv, BooksInv, ShapeInv, Apex, Apex', [Next]_vars
  PROVE  Moves
<1>1. ASSUME NEW w \in Writer, WriterStep(w)
      PROVE  Moves
  <2>1. CASE CommitManifest(w)
    BY <2>1, CommitAdds
  <2>2. CASE SweepManifest(w)
    BY <2>2, SweepDrops
  <2>3. CASE BeginSave(w) \/ AssertCurrent(w) \/ NextSequence(w) \/ StageIndex(w) \/ StageState(w)
             \/ RenameIndex(w) \/ RenameState(w) \/ CollectOldGenerations(w) \/ SweepData(w) \/ Swept(w)
             \/ DeferCleanup(w) \/ BeginLoad(w) \/ Load(w) \/ DropLegacy(w) \/ MigrationFails(w) \/ Crash(w)
    <3>1. UNCHANGED <<manifest, rotten>>
      BY <2>3 DEF BeginSave, BeginLoad, Begin, AssertCurrent, NextSequence, StageIndex, StageState, Stage,
        RenameIndex, RenameState, Rename, CollectOldGenerations, SweepData, Swept, DeferCleanup, Load,
        DropLegacy, MigrationFails, Crash, disk
    <3>2. QED
      BY <3>1, StandsStill DEF Moves
  <2>4. QED
    BY <1>1, <2>1, <2>2, <2>3 DEF WriterStep, SaveStep
<1>2. ASSUME NEW r \in Reader, Read(r)
      PROVE  Moves
  <2>1. UNCHANGED <<manifest, rotten>>
    BY <1>2 DEF disk, Read, BeginRead, List, Scan, ScanEnds, Verify, Stable, ReadLegacy, ReaderStep
  <2>2. QED
    BY <2>1, StandsStill DEF Moves
<1>3. CASE UNCHANGED vars
  BY <1>3, StandsStill DEF Moves, vars, disk
<1>4. QED
  BY <1>1, <1>2, <1>3, RotSpoils DEF Next

\* Trouble is only ever spent, and a generation that goes bad costs some.
LEMMA RotsCounted ==
  ASSUME IndInv, IndInv', ShapeInv, Moves, [Next]_vars
  PROVE  RotsOnce'
<1>1. spent["rot"] \in Nat /\ spent'["rot"] \in Nat
  BY DEF IndInv, Typed
<1>2. ASSUME NEW t \in Trouble, Suffer(t)
      PROVE  spent'["rot"] >= spent["rot"] /\ (t = "rot" => spent'["rot"] >= 1)
  BY <1>1, <1>2 DEF Suffer, IndInv, Typed
<1>3. spent'["rot"] >= spent["rot"]
  <2>1. CASE UNCHANGED spent
    BY <1>1, <2>1
  <2>2. ASSUME NEW w \in Writer, WriterStep(w)
        PROVE  UNCHANGED spent \/ \E t \in Trouble : Suffer(t)
    BY <2>2 DEF WriterStep, SaveStep, BeginSave, BeginLoad, Begin, AssertCurrent, NextSequence,
      StageIndex, StageState, Stage, RenameIndex, RenameState, Rename, CommitManifest, AbandonSave,
      CollectOldGenerations, SweepManifest, SweepData, Swept, DeferCleanup, Load, DropLegacy,
      MigrationFails, Crash, Misread
  <2>3. ASSUME NEW r \in Reader, Read(r)
        PROVE  UNCHANGED spent \/ \E t \in Trouble : Suffer(t)
    BY <2>3 DEF Read, BeginRead, List, Scan, ScanEnds, Verify, Stable, ReadLegacy
  <2>4. CASE Rot
    BY <1>2, <2>4 DEF Rot
  <2>5. QED
    BY <1>2, <2>1, <2>2, <2>3, <2>4 DEF Next, vars
<1>4. rotten' # rotten => Rot
  <2>1. ASSUME NEW w \in Writer, WriterStep(w)
        PROVE  rotten' = rotten
    BY <2>1 DEF WriterStep, SaveStep, BeginSave, BeginLoad, Begin, AssertCurrent, NextSequence,
      StageIndex, StageState, Stage, RenameIndex, RenameState, Rename, CommitManifest,
      CollectOldGenerations, SweepManifest, SweepData, Swept, DeferCleanup, Load, DropLegacy,
      MigrationFails, Crash, disk
  <2>2. ASSUME NEW r \in Reader, Read(r)
        PROVE  rotten' = rotten
    BY <2>2 DEF Read, BeginRead, List, Scan, ScanEnds, Verify, Stable, ReadLegacy, ReaderStep, disk
  <2>3. QED
    BY <2>1, <2>2 DEF Next, vars, disk
<1>5. \A x, y \in rotten' : x = y
  BY DEF Moves, Still, Adds, Drops, Spoils, ShapeInv, RotsOnce
<1>6. rotten' # {} => spent'["rot"] >= 1
  <2>1. CASE rotten' = rotten
    <3>1. rotten # {} => spent["rot"] >= 1
      BY DEF ShapeInv, RotsOnce
    <3>2. QED
      BY <1>1, <1>3, <2>1, <3>1
  <2>2. CASE rotten' # rotten
    BY <1>2, <1>4, <2>2 DEF Rot
  <2>3. QED
    BY <2>1, <2>2
<1>7. QED
  BY <1>5, <1>6 DEF RotsOnce

\* The numbers stay close: what is added follows the newest, what is dropped has
\* others above it, and what is spoilt was not ahead of the rest.
LEMMA StaysClose ==
  ASSUME Typed, ShapeInv, Apex, Apex', Moves
  PROVE  Close' /\ Dense'
<1>1. Close /\ Dense /\ Manifests \subseteq Nat /\ Complete \subseteq Manifests
  BY StoreAssumption DEF ShapeInv, Manifests, Apex
<1>2. CASE Still
  BY <1>1, <1>2 DEF Still, Close, Dense
<1>3. ASSUME NEW n \in Sequence, Adds(n)
      PROVE  Close' /\ Dense'
  <2>1. /\ Manifests' = Manifests \cup {n} /\ Complete' = Complete \cup {n} /\ rotten' = rotten
        /\ \A c \in Complete : c < n
        /\ rotten = {} => n = 1 \/ n - 1 \in Manifests
    BY <1>3 DEF Adds
  <2>2. Close'
    BY <1>1, <2>1 DEF Close
  <2>3. Dense'
    BY <1>1, <2>1 DEF Dense
  <2>4. QED
    BY <2>2, <2>3
<1>4. ASSUME NEW s \in Manifests, Drops(s)
      PROVE  Close' /\ Dense'
  <2>1. Manifests' = Manifests \ {s} /\ Complete' = Complete \ {s} /\ rotten' = rotten
    BY <1>4 DEF Drops
  <2>2. CASE s \notin Complete
    <3>1. rotten # {}
      BY <1>4, <2>2 DEF Apex
    <3>2. QED
      BY <1>1, <2>1, <2>2, <3>1 DEF Close, Dense
  <2>3. CASE s \in Complete
    <3>1. PICK x \in Complete, y \in Manifests : x # y /\ x > s /\ y > s
      BY <1>4, <2>3 DEF Drops
    <3>2. x \in Complete' /\ y \in Manifests' /\ x \in Manifests' /\ s \in Nat /\ x \in Nat /\ y \in Nat
      BY <1>1, <2>1, <3>1
    <3>3. ASSUME NEW u \in Manifests' \ Complete'
          PROVE  u = 1 \/ \E c \in Complete' : u <= c + 1
      <4>1. u \in Manifests \ Complete /\ u \in Nat
        BY <1>1, <2>1, <2>3, <3>3
      <4>2. CASE u = 1
        BY <4>2
      <4>3. ASSUME NEW c \in Complete, u <= c + 1
            PROVE  \E d \in Complete' : u <= d + 1
        <5>1. CASE c # s
          BY <2>1, <4>3, <5>1
        <5>2. CASE c = s
          BY <3>1, <3>2, <4>1, <4>3, <5>2
        <5>3. QED
          BY <5>1, <5>2
      <4>4. QED
        BY <1>1, <4>1, <4>2, <4>3 DEF Close
    <3>4. ASSUME rotten = {}, NEW u \in Manifests'
          PROVE  u = 1 \/ u - 1 \in Manifests' \/ \E t \in Manifests' : t > u
      <4>1. u \in Manifests /\ u \in Nat
        BY <1>1, <2>1, <3>4
      <4>2. CASE u - 1 \in Manifests
        <5>1. CASE u - 1 # s
          BY <2>1, <4>2, <5>1
        <5>2. CASE u - 1 = s
          <6>1. x > u \/ y > u
            BY <3>1, <3>2, <4>1, <5>2
          <6>2. QED
            BY <3>2, <6>1
        <5>3. QED
          BY <5>1, <5>2
      <4>3. ASSUME NEW t \in Manifests, t > u
            PROVE  \E v \in Manifests' : v > u
        <5>1. CASE t # s
          BY <2>1, <4>3, <5>1
        <5>2. CASE t = s
          BY <3>1, <3>2, <4>1, <4>3, <5>2
        <5>3. QED
          BY <5>1, <5>2
      <4>4. QED
        BY <1>1, <3>4, <4>1, <4>2, <4>3 DEF Dense
    <3>5. QED
      BY <2>1, <3>3, <3>4 DEF Close, Dense
  <2>4. QED
    BY <2>2, <2>3
<1>5. ASSUME NEW s \in Manifests, Spoils(s)
      PROVE  Close' /\ Dense'
  <2>1. /\ Manifests' = Manifests /\ Complete' = Manifests \ {s} /\ rotten = {} /\ rotten' # {}
    BY <1>5 DEF Spoils
  <2>2. s = 1 \/ s - 1 \in Manifests \/ \E t \in Manifests : t > s
    BY <1>1, <2>1 DEF Dense
  <2>3. s = 1 \/ \E c \in Complete' : s <= c + 1
    BY <1>1, <2>1, <2>2
  <2>4. QED
    BY <2>1, <2>3 DEF Close, Dense
<1>6. QED
  BY <1>2, <1>3, <1>4, <1>5 DEF Moves

\* A number is kept from the moment it is chosen until the manifest is there.
LEMMA SequenceKept ==
  ASSUME Typed, NEW w \in Writer, WriterStep(w), pc'[w] \in Writing
  PROVE  NextSequence(w) \/ (pc[w] \in Writing /\ job'[w] = job[w] /\ UNCHANGED <<manifest, rotten>>)
<1>1. CASE BeginSave(w) \/ BeginLoad(w) \/ AssertCurrent(w) \/ Load(w) \/ CollectOldGenerations(w)
  BY <1>1 DEF BeginSave, BeginLoad, Begin, AssertCurrent, Load, CollectOldGenerations, Goto, Leave, Typed
<1>2. CASE StageIndex(w) \/ StageState(w) \/ RenameIndex(w) \/ RenameState(w) \/ CommitManifest(w)
  BY <1>2 DEF StageIndex, StageState, RenameIndex, RenameState, Stage, Rename, CommitManifest,
    AbandonSave, Goto, Leave, Typed
<1>3. CASE SweepManifest(w) \/ SweepData(w)
  BY <1>3 DEF SweepManifest, SweepData, Goto, Typed, writers
<1>4. CASE Swept(w) \/ DeferCleanup(w)
  BY <1>4 DEF Swept, DeferCleanup, Committed, Goto, Leave, Typed
<1>5. CASE DropLegacy(w) \/ MigrationFails(w) \/ Crash(w)
  BY <1>5 DEF DropLegacy, MigrationFails, Crash, Goto, Leave, Typed
<1>6. QED
  BY <1>1, <1>2, <1>3, <1>4, <1>5 DEF WriterStep, SaveStep

\* A number that is chosen is the first one, or the next one.
LEMMA NextFollows ==
  ASSUME ReadsSucceed, Typed, NEW w \in Writer, NextSequence(w), pc'[w] \in Writing
  PROVE  Follows(w)'
<1>1. /\ UNCHANGED <<manifest, rotten, files>>
      /\ job' = [job EXCEPT ![w].sequence = IF Complete = {} THEN 1 ELSE Max(Complete) + 1,
                            ![w].generation = minted + 1]
  <2>1. PICK missed \in SUBSET Sequence :
          /\ Misread(missed)
          /\ IF Exhausted(Complete \ missed) \/ minted = MaxGenerations
             THEN Leave(w)
             ELSE job' = [job EXCEPT ![w].sequence = IF Complete \ missed = {} THEN 1
                                                    ELSE Max(Complete \ missed) + 1,
                                     ![w].generation = minted + 1]
    BY DEF NextSequence
  <2>2. Complete \ missed = Complete
    BY <2>1, NothingMissed
  <2>3. ~ Leave(w)
    BY DEF Leave, Typed
  <2>4. QED
    BY <2>1, <2>2, <2>3 DEF NextSequence, disk
<1>2. job'[w].sequence = IF Complete = {} THEN 1 ELSE Max(Complete) + 1
  BY <1>1 DEF Typed, Job
<1>3. Complete # {} => Max(Complete) \in Complete
  BY CompleteNumbers, MaxFact, StoreAssumption
<1>4. Manifests' = Manifests /\ Complete \subseteq Manifests /\ Manifests \subseteq Nat
  BY <1>1, StoreAssumption DEF Manifests, Complete
<1>5. job'[w].sequence = 1 \/ job'[w].sequence - 1 \in Manifests'
  <2>1. CASE Complete = {}
    BY <1>2, <2>1
  <2>2. CASE Complete # {}
    <3>1. PICK m \in Manifests : m = Max(Complete) /\ m \in Nat
      BY <1>3, <1>4, <2>2
    <3>2. job'[w].sequence - 1 = m
      BY <1>2, <2>2, <3>1
    <3>3. QED
      BY <1>4, <3>1, <3>2
  <2>3. QED
    BY <2>1, <2>2
<1>6. QED
  BY <1>5 DEF Follows

\* A collection keeps the greatest two.
LEMMA RetainedCover ==
  ASSUME NEW S \in SUBSET Sequence, NEW s \in S \ Retained(S)
  PROVE  \E m, n \in Retained(S) : m # n /\ m > s /\ n > s
<1>1. S \subseteq Nat
  BY StoreAssumption
<1>2. PICK a \in S : \A t \in S : t <= a
  BY MaxFact, StoreAssumption
<1>3. a \in Retained(S)
  <2>1. {u \in S : u > a} = {}
    <3>1. ASSUME NEW u \in S
          PROVE  ~ (u > a)
      <4>1. u <= a /\ u \in Nat /\ a \in Nat
        BY <1>1, <1>2
      <4>2. QED
        BY <4>1
    <3>2. QED
      BY <3>1
  <2>2. Cardinality({u \in S : u > a}) = 0
    BY <2>1, FS_EmptySet
  <2>3. QED
    BY <2>2 DEF Retained
<1>4. PICK b \in S \ {a} : \A t \in S \ {a} : t <= b
  <2>1. s \in S \ {a}
    BY <1>3
  <2>2. S \ {a} \in SUBSET (1..MaxSequence)
    OBVIOUS
  <2>3. QED
    BY <2>1, <2>2, MaxFact, StoreAssumption
<1>5. \A u \in S : u > b <=> u = a
  <2> SUFFICES ASSUME NEW u \in S
               PROVE  u > b <=> u = a
    OBVIOUS
  <2>1. u \in Nat /\ b \in Nat /\ a \in Nat /\ b <= a /\ b # a
    BY <1>1, <1>2, <1>4
  <2>2. u # a => u <= b
    BY <1>4
  <2>3. QED
    BY <2>1, <2>2
<1>6. b \in Retained(S)
  <2>1. {u \in S : u > b} = {a}
    BY <1>2, <1>5
  <2>2. Cardinality({u \in S : u > b}) = 1
    BY <2>1, FS_Singleton
  <2>3. QED
    BY <1>4, <2>2 DEF Retained
<1>7. a > s /\ b > s
  <2>1. s \in S \ {a} /\ s # b
    BY <1>3, <1>6
  <2>2. s <= b /\ b <= a
    BY <1>2, <1>4, <2>1
  <2>3. s \in Nat /\ a \in Nat /\ b \in Nat
    BY <1>1
  <2>4. QED
    BY <2>1, <2>2, <2>3
<1>8. QED
  BY <1>3, <1>4, <1>6, <1>7

\* What a collection takes lies beneath two manifests that it keeps.
LEMMA CollectCovers ==
  ASSUME ReadsSucceed, Typed, NEW w \in Writer, CollectOldGenerations(w)
  PROVE  Covers(w)'
<1>1. /\ UNCHANGED <<manifest, rotten, files>>
      /\ job' = [job EXCEPT ![w].keep = Retained(Complete)]
  BY NothingMissed DEF CollectOldGenerations, disk
<1>2. job'[w].keep = Retained(Complete)
  <2>1. job[w] \in Job /\ job' = [job EXCEPT ![w] = [@ EXCEPT !.keep = Retained(Complete)]]
    BY <1>1 DEF Typed
  <2>2. QED
    BY <2>1 DEF Typed, Job
<1>3. Manifests' = Manifests /\ Complete' = Complete
  BY <1>1 DEF Manifests, Complete, Verifies
<1>4. Retained(Complete) \subseteq Manifests
  BY DEF Retained, Complete
<1>5. \A s \in Complete \ Retained(Complete) :
        \E m, n \in Retained(Complete) : m # n /\ m > s /\ n > s
  BY CompleteNumbers, RetainedCover
<1>6. QED
  BY <1>2, <1>3, <1>4, <1>5 DEF Covers

\* A sweep takes no manifest that is kept, and nobody else takes one meanwhile.
LEMMA CoverStays ==
  ASSUME Typed, NEW w \in Writer, Covers(w), pc[w] \in Sweeping, job'[w] = job[w],
         Complete' \subseteq Complete, job[w].keep \cap Manifests \subseteq Manifests'
  PROVE  Covers(w)'
<1>1. \A s \in Complete' \ job'[w].keep :
        \E m, n \in job'[w].keep \cap Manifests' : m # n /\ m > s /\ n > s
  <2> SUFFICES ASSUME NEW s \in Complete' \ job'[w].keep
               PROVE  \E m, n \in job'[w].keep \cap Manifests' : m # n /\ m > s /\ n > s
    OBVIOUS
  <2>1. PICK m, n \in job[w].keep \cap Manifests : m # n /\ m > s /\ n > s
    BY DEF Covers
  <2>2. QED
    BY <2>1
<1>2. QED
  BY <1>1 DEF Covers

\* The sweep of the process inside the lock.
LEMMA SweepCovers ==
  ASSUME Typed, Apex, Apex', NEW w \in Writer, Covers(w), SweepManifest(w) \/ SweepData(w)
  PROVE  Covers(w)'
<1>1. pc[w] \in Sweeping /\ UNCHANGED <<job, rotten>>
  BY DEF SweepManifest, SweepData, writers, Sweeping
<1>2. /\ Manifests' \subseteq Manifests /\ job[w].keep \cap Manifests \subseteq Manifests'
      /\ \A t \in Manifests' : manifest'[t] = manifest[t]
  <2>1. CASE UNCHANGED manifest
    BY <2>1 DEF Manifests
  <2>2. CASE /\ Manifests \ job[w].keep # {}
             /\ manifest' = [manifest EXCEPT ![Max(Manifests \ job[w].keep)] = Nothing]
    <3>1. PICK s \in Manifests \ job[w].keep : manifest' = [manifest EXCEPT ![s] = Nothing]
      BY <2>2, MaxFact, StoreAssumption DEF Manifests
    <3>2. manifest'[s] = Nothing /\ \A t \in Sequence \ {s} : manifest'[t] = manifest[t]
      BY <3>1 DEF Typed, Manifests
    <3>3. QED
      BY <3>1, <3>2 DEF Manifests
  <2>3. QED
    BY <2>1, <2>2 DEF SweepManifest, SweepData
<1>3. Complete' \subseteq Complete
  BY <1>1, <1>2 DEF Apex
<1>4. QED
  BY <1>1, <1>2, <1>3, CoverStays

\* A collection goes on sweeping, or it is over.
LEMMA SweepsOrLeaves ==
  ASSUME Typed, NEW w \in Writer, WriterStep(w), pc[w] \in Sweeping
  PROVE  SweepManifest(w) \/ SweepData(w) \/ pc'[w] \notin Sweeping
<1>1. CASE Swept(w) \/ DeferCleanup(w) \/ Crash(w)
  BY <1>1 DEF Swept, DeferCleanup, Crash, Committed, Goto, Leave, Typed, Sweeping
<1>2. ~ (BeginSave(w) \/ BeginLoad(w) \/ AssertCurrent(w) \/ NextSequence(w) \/ Load(w)
         \/ StageIndex(w) \/ StageState(w) \/ RenameIndex(w) \/ RenameState(w) \/ CommitManifest(w)
         \/ CollectOldGenerations(w) \/ DropLegacy(w) \/ MigrationFails(w))
  BY DEF BeginSave, BeginLoad, Begin, AssertCurrent, NextSequence, Load, StageIndex, StageState, RenameIndex,
    RenameState, CommitManifest, CollectOldGenerations, DropLegacy, MigrationFails, Sweeping
<1>3. QED
  BY <1>1, <1>2 DEF WriterStep, SaveStep

\* A migration unlinks the index before the state.
LEMMA IndexStaysFirst ==
  ASSUME Typed, IndexFirst, [Next]_vars
  PROVE  IndexFirst'
<1>1. ASSUME NEW w \in Writer, WriterStep(w)
      PROVE  IndexFirst'
  <2>1. \A v \in Writer \ {w} : pc'[v] = pc[v]
    BY <1>1, WriterAlone
  <2>2. CASE DropLegacy(w)
    <3>1. CASE legacy' = legacy \ {"index"}
      BY <3>1 DEF IndexFirst
    <3>2. CASE pc[w] = "drop_state" /\ legacy' = legacy \ {"state"}
      BY <3>2 DEF IndexFirst
    <3>3. QED
      BY <2>2, <3>1, <3>2 DEF DropLegacy
  <2>3. CASE ~ DropLegacy(w)
    <3>1. legacy' = legacy
      BY <1>1, <2>3 DEF WriterStep, SaveStep, BeginSave, BeginLoad, Begin, AssertCurrent, NextSequence,
        StageIndex, StageState, Stage, RenameIndex, RenameState, Rename, CommitManifest,
        CollectOldGenerations, SweepManifest, SweepData, Swept, DeferCleanup, Load,
        MigrationFails, Crash, disk
    <3>2. pc'[w] # "drop_state"
      BY <1>1, <2>3 DEF WriterStep, SaveStep, BeginSave, BeginLoad, Begin, AssertCurrent, NextSequence,
        StageIndex, StageState, Stage, RenameIndex, RenameState, Rename, CommitManifest, AbandonSave,
        CollectOldGenerations, SweepManifest, SweepData, Swept, DeferCleanup, Load, Committed,
        MigrationFails, Crash, Goto, Leave, writers, Typed
    <3>3. QED
      BY <2>1, <3>1, <3>2 DEF IndexFirst
  <2>4. QED
    BY <2>2, <2>3
<1>2. ASSUME NEW r \in Reader, Read(r)
      PROVE  UNCHANGED <<legacy, pc>>
  BY <1>2 DEF Read, BeginRead, List, Scan, ScanEnds, Verify, Stable, ReadLegacy, ReaderStep, disk, writers
<1>3. CASE Rot \/ UNCHANGED vars
  BY <1>3 DEF Rot, vars, disk, writers, IndexFirst
<1>4. QED
  BY <1>1, <1>2, <1>3 DEF Next, IndexFirst

\* Every step keeps the shape of the numbers.
LEMMA ShapeHolds ==
  ASSUME RotsAtMostOnce, ReadsSucceed, IndInv, IndInv', BooksInv, ShapeInv, Apex, Apex', [Next]_vars
  PROVE  ShapeInv'
<1>1. Moves
  BY StepMoves
<1>2. RotsOnce' /\ Close' /\ Dense' /\ Typed
  BY <1>1, RotsCounted, StaysClose DEF IndInv
<1>3. IndexFirst'
  BY IndexStaysFirst DEF ShapeInv, IndInv
<1>4. ASSUME NEW w \in Writer, WriterStep(w)
      PROVE  \A v \in Writer : Follows(v)' /\ Covers(v)'
  <2>1. /\ \A v \in Writer \ {w} : pc'[v] = pc[v] /\ job'[v] = job[v]
        /\ pc'[w] \in Sweeping => CollectOldGenerations(w) \/ (pc[w] \in Sweeping /\ job'[w] = job[w])
    BY <1>2, <1>4, WriterAlone
  <2>2. CASE pc[w] \in Locked
    <3>1. \A v \in Writer \ {w} : pc'[v] \notin Locked
      BY <2>1, <2>2, Alone
    <3>2. \A v \in Writer \ {w} : Follows(v)' /\ Covers(v)'
      BY <3>1 DEF Follows, Covers, Sweeping
    <3>3. Follows(w)'
      <4>1. CASE NextSequence(w) /\ pc'[w] \in Writing
        BY <1>2, <4>1, NextFollows
      <4>2. CASE pc[w] \in Writing /\ job'[w] = job[w] /\ UNCHANGED <<manifest, rotten>>
        BY <4>2 DEF ShapeInv, Follows, Manifests
      <4>3. CASE pc'[w] \notin Writing
        BY <4>3 DEF Follows
      <4>4. QED
        BY <1>2, <1>4, <4>1, <4>2, <4>3, SequenceKept
    <3>4. Covers(w)'
      <4>1. CASE CollectOldGenerations(w)
        BY <1>2, <4>1, CollectCovers
      <4>2. CASE SweepManifest(w) \/ SweepData(w)
        BY <1>2, <4>2, SweepCovers DEF ShapeInv
      <4>3. CASE pc'[w] \notin Sweeping
        BY <4>3 DEF Covers
      <4>4. ASSUME pc[w] \in Sweeping
            PROVE  SweepManifest(w) \/ SweepData(w) \/ pc'[w] \notin Sweeping
        BY <1>2, <1>4, <4>4, SweepsOrLeaves
      <4>5. QED
        BY <2>1, <4>1, <4>2, <4>3, <4>4
    <3>5. QED
      BY <3>2, <3>3, <3>4
  <2>3. CASE pc[w] \notin Locked
    <3>1. BeginSave(w) \/ BeginLoad(w)
      BY <1>4, <2>3 DEF WriterStep, SaveStep, AssertCurrent, NextSequence, StageIndex, StageState,
        RenameIndex, RenameState, CommitManifest, CollectOldGenerations, SweepManifest, SweepData, Swept,
        DeferCleanup, Load, DropLegacy, MigrationFails, Crash
    <3>2. lock = NoWriter /\ UNCHANGED <<manifest, files, rotten, job>> /\ pc'[w] \in {"assert", "load"}
      BY <1>2, <3>1 DEF BeginSave, BeginLoad, Begin, disk, Typed
    <3>3. Manifests' = Manifests /\ Complete' = Complete
      BY <3>2 DEF Manifests, Complete, Verifies
    <3>4. \A v \in Writer \ {w} : Follows(v)' /\ Covers(v)'
      BY <2>1, <3>2, <3>3 DEF ShapeInv, Follows, Covers
    <3>5. Follows(w)' /\ Covers(w)'
      BY <3>2 DEF Follows, Covers, Sweeping
    <3>6. QED
      BY <3>4, <3>5
  <2>4. QED
    BY <2>2, <2>3
<1>5. CASE Rot
  <2>1. UNCHANGED <<manifest, pc, job>> /\ rotten' # {} /\ Manifests' = Manifests
    BY <1>5 DEF Rot, writers, Manifests
  <2>2. Complete' \subseteq Complete
    BY <1>5, <2>1 DEF Rot, Apex
  <2>3. \A v \in Writer : Follows(v)'
    BY <2>1 DEF Follows
  <2>4. \A v \in Writer : Covers(v)'
    <3> SUFFICES ASSUME NEW v \in Writer
                 PROVE  Covers(v)'
      OBVIOUS
    <3>1. CASE pc[v] \in Sweeping
      BY <1>2, <2>1, <2>2, <3>1, CoverStays DEF ShapeInv
    <3>2. CASE pc[v] \notin Sweeping
      BY <2>1, <3>2 DEF Covers
    <3>3. QED
      BY <3>1, <3>2
  <2>5. QED
    BY <1>2, <1>3, <2>3, <2>4 DEF ShapeInv
<1>6. CASE UNCHANGED vars \/ \E r \in Reader : Read(r)
  <2>1. UNCHANGED <<manifest, files, rotten, pc, job>>
    <3>1. CASE UNCHANGED vars
      BY <3>1 DEF vars, disk, writers
    <3>2. ASSUME NEW r \in Reader, Read(r)
          PROVE  UNCHANGED <<manifest, files, rotten, pc, job>>
      BY <3>2 DEF disk, writers, Read, BeginRead, List, Scan, ScanEnds, Verify, Stable, ReadLegacy, ReaderStep
    <3>3. QED
      BY <1>6, <3>1, <3>2
  <2>2. Manifests' = Manifests /\ Complete' = Complete
    BY <2>1 DEF Manifests, Complete, Verifies
  <2>3. \A v \in Writer : Follows(v)' /\ Covers(v)'
    BY <2>1, <2>2 DEF ShapeInv, Follows, Covers
  <2>4. QED
    BY <1>2, <1>3, <2>3 DEF ShapeInv
<1>7. QED
  BY <1>2, <1>3, <1>4, <1>5, <1>6 DEF Next, ShapeInv

-----------------------------------------------------------------------------
(***************************************************************************)
(* What a reader knows.  Two complete manifests above its listing, or one  *)
(* when a generation has gone bad, stay: the second listing differs.       *)
(* Until then the highest one that it listed is the one it will find, or   *)
(* that one has gone bad, and then the one below it, which has since been  *)
(* the newest.                                                             *)
(***************************************************************************)
Ahead(r, x) == \A t \in look[r].listed : t < x

Passed(r) ==
  \/ rotten # {} /\ \E x \in Complete : Ahead(r, x)
  \/ \E x, y \in Complete : x # y /\ Ahead(r, x) /\ Ahead(r, y)

\* m is the highest manifest of the reader's listing.
Heads(r, m) == m \in look[r].listed /\ \A t \in look[r].listed : t <= m

\* The reader has yet to open the highest that it listed, or is reading it.
Held(r, m) ==
  /\ Heads(r, m) /\ m \in Complete /\ manifest[m] \in newestSeen[r]
  /\ \A x \in Manifests : x \in look[r].listed \/ Ahead(r, x)
  /\ \/ look[r].at = "scan" /\ look[r].rest = look[r].listed /\ look[r].found = Nothing
     \/ look[r].at = "verify" /\ look[r].rest = look[r].listed \ {m} /\ look[r].found = manifest[m]

Under(m) == {b \in Complete : b < m}
Second(m, b) == b \in Under(m) /\ \A c \in Under(m) : c <= b

\* The highest that the reader listed has gone bad: its number is the only one
\* that may be given again, and the one below it was the newest.
Exposed(r, m) ==
  /\ rotten # {} /\ Heads(r, m)
  /\ m = 1 \/ \E c \in Complete : m <= c + 1
  /\ Manifests \ Complete \subseteq {m}
  /\ Under(m) \subseteq look[r].listed
  /\ \A b \in Under(m) : Second(m, b) => manifest[b] \in newestSeen[r]

\* Where a reader is then: before it, past it, on it, or on the one below.
Before(r, m) ==
  look[r].at = "scan" /\ look[r].rest = look[r].listed /\ m \notin Complete /\ look[r].found = Nothing
Past(r, m) ==
  /\ m \notin look[r].rest /\ look[r].rest \subseteq look[r].listed /\ Under(m) \subseteq look[r].rest
  /\ \/ look[r].at = "scan" /\ look[r].found = Nothing
     \/ look[r].at = "verify" /\ look[r].found \in rotten
OnSecond(r, m) ==
  look[r].at = "verify" /\ \E b \in Under(m) : Second(m, b) /\ look[r].found = manifest[b]

Slipped(r, m) == Exposed(r, m) /\ (Before(r, m) \/ Past(r, m) \/ OnSecond(r, m))

Knows(r) ==
  /\ look[r].at = "list" => look[r].found = Nothing
  /\ look[r].at = "legacy_index" /\ "index" \in legacy => Legacy \in newestSeen[r]
  /\ look[r].at = "legacy_state" => Legacy \in newestSeen[r]
  /\ look[r].at \in {"scan", "verify"} =>
       Passed(r) \/ \E m \in look[r].listed : Held(r, m) \/ Slipped(r, m)
  /\ look[r].at = "stable" => Passed(r) \/ look[r].found \in newestSeen[r] \cup {Nothing}

ReadersInv == \A r \in Reader : Knows(r)

\* Manifests and listings are sets of numbers.
LEMMA Numbers ==
  ASSUME Typed, Apex, NEW r \in Reader
  PROVE  /\ Complete \subseteq Manifests /\ Manifests \subseteq Sequence /\ Sequence \subseteq Nat
         /\ look[r].listed \subseteq Sequence
<1>1. look[r].listed \subseteq Sequence
  BY DEF Typed, Look
<1>2. Sequence \subseteq Nat
  BY StoreAssumption
<1>3. QED
  BY <1>1, <1>2 DEF Apex, Manifests

\* What is above a listing stays above it.
LEMMA PassedStays ==
  ASSUME Typed, Apex, Apex', Moves, NEW r \in Reader, look'[r].listed = look[r].listed, Passed(r)
  PROVE  Passed(r)'
<1>1. /\ Complete \subseteq Nat /\ Manifests \subseteq Nat /\ look[r].listed \subseteq Nat
      /\ Complete \subseteq Manifests
  BY Numbers
<1>2. \A x : Ahead(r, x)' <=> Ahead(r, x)
  BY DEF Ahead
<1>3. CASE Still
  BY <1>2, <1>3 DEF Still, Passed
<1>4. ASSUME NEW n \in Sequence, Adds(n)
      PROVE  Passed(r)'
  BY <1>2, <1>4 DEF Adds, Passed
<1>5. ASSUME NEW s \in Manifests, Drops(s)
      PROVE  Passed(r)'
  <2>1. Complete' = Complete \ {s} /\ rotten' = rotten
    BY <1>5 DEF Drops
  <2>2. CASE s \notin Complete \/ ~ Ahead(r, s)
    BY <1>2, <2>1, <2>2 DEF Passed
  <2>3. CASE s \in Complete /\ Ahead(r, s)
    <3>1. PICK x \in Complete, y \in Manifests :
            x # y /\ x > s /\ y > s /\ (rotten = {} => y \in Complete)
      BY <1>5, <2>3 DEF Drops
    <3>2. Ahead(r, x) /\ Ahead(r, y) /\ x # s /\ y # s
      <4>1. s \in Nat /\ x \in Nat /\ y \in Nat /\ s < x /\ s < y
        BY <1>1, <3>1
      <4>2. ASSUME NEW t \in look[r].listed
            PROVE  t < x /\ t < y
        <5>1. t < s /\ t \in Nat
          BY <1>1, <2>3 DEF Ahead
        <5>2. QED
          BY <4>1, <5>1
      <4>3. QED
        BY <4>1, <4>2 DEF Ahead
    <3>3. QED
      BY <1>2, <2>1, <3>1, <3>2 DEF Passed
  <2>4. QED
    BY <2>2, <2>3
<1>6. ASSUME NEW s \in Manifests, Spoils(s)
      PROVE  Passed(r)'
  <2>1. Complete' = Complete \ {s} /\ rotten = {} /\ rotten' # {}
    BY <1>6 DEF Spoils
  <2>2. PICK x, y \in Complete : x # y /\ Ahead(r, x) /\ Ahead(r, y)
    BY <2>1 DEF Passed
  <2>3. QED
    BY <1>2, <2>1, <2>2 DEF Passed
<1>7. QED
  BY <1>3, <1>4, <1>5, <1>6 DEF Moves

\* What is above the head of a listing is above the listing.
LEMMA AboveHead ==
  ASSUME Typed, NEW r \in Reader, NEW m, Heads(r, m), NEW x \in Nat, m < x
  PROVE  Ahead(r, x)
<1>1. look[r].listed \subseteq Nat /\ m \in Nat
  BY StoreAssumption DEF Typed, Look, Heads
<1>2. ASSUME NEW t \in look[r].listed
      PROVE  t < x
  <2>1. t <= m /\ t \in Nat
    BY <1>1 DEF Heads
  <2>2. QED
    BY <1>1, <2>1
<1>3. QED
  BY <1>2 DEF Ahead

\* A reader that stands still on the newest of its listing: newer ones come, or
\* that one goes bad.
LEMMA HeldStays ==
  ASSUME Typed, Apex, Apex', Close', Moves, NEW r \in Reader, NEW m, Held(r, m),
         look'[r] = look[r], newestSeen'[r] = newestSeen[r] \cup {Newest'}
  PROVE  Passed(r)' \/ Held(r, m)' \/ Slipped(r, m)'
<1>1. /\ Complete \subseteq Nat /\ Manifests \subseteq Nat /\ look[r].listed \subseteq Sequence
      /\ Complete \subseteq Manifests /\ Manifests \subseteq Sequence
  BY Numbers
<1>2. /\ Heads(r, m) /\ m \in Complete /\ manifest[m] \in newestSeen[r]
      /\ \A x \in Manifests : x \in look[r].listed \/ Ahead(r, x)
  BY DEF Held
<1>3. /\ \A x : Ahead(r, x)' <=> Ahead(r, x)
      /\ Heads(r, m)' <=> Heads(r, m)
  BY DEF Ahead, Heads
<1>4. ASSUME m \in Complete', manifest'[m] = manifest[m],
             \A x \in Manifests' : x \in look[r].listed \/ Ahead(r, x)
      PROVE  Held(r, m)'
  BY <1>2, <1>3, <1>4 DEF Held
<1>5. CASE Still
  BY <1>2, <1>4, <1>5 DEF Still
<1>6. ASSUME NEW n \in Sequence, Adds(n)
      PROVE  Held(r, m)'
  <2>1. m < n /\ n \in Nat
    BY <1>2, <1>6, StoreAssumption DEF Adds
  <2>2. Ahead(r, n)
    BY <1>2, <2>1, AboveHead
  <2>3. m \in Sequence \ {n}
    BY <1>1, <1>2, <2>1
  <2>4. QED
    BY <1>2, <1>4, <1>6, <2>2, <2>3 DEF Adds
<1>7. ASSUME NEW s \in Manifests, Drops(s)
      PROVE  Passed(r)' \/ Held(r, m)'
  <2>1. /\ Complete' = Complete \ {s} /\ Manifests' = Manifests \ {s} /\ rotten' = rotten
        /\ \A t \in Sequence \ {s} : manifest'[t] = manifest[t]
    BY <1>7 DEF Drops
  <2>2. CASE s # m
    BY <1>1, <1>2, <1>4, <2>1, <2>2
  <2>3. CASE s = m
    <3>1. PICK x \in Complete, y \in Manifests :
            x # y /\ x > m /\ y > m /\ (rotten = {} => y \in Complete)
      BY <1>2, <1>7, <2>3 DEF Drops
    <3>2. m \in Nat /\ x \in Nat /\ y \in Nat /\ m < x /\ m < y
      BY <1>1, <1>2, <3>1
    <3>3. Ahead(r, x) /\ Ahead(r, y) /\ x # s /\ y # s
      BY <1>2, <2>3, <3>2, AboveHead
    <3>4. QED
      BY <1>3, <2>1, <3>1, <3>3 DEF Passed
  <2>4. QED
    BY <2>2, <2>3
<1>8. ASSUME NEW s \in Manifests, Spoils(s)
      PROVE  Passed(r)' \/ Held(r, m)' \/ Slipped(r, m)'
  <2>1. /\ Complete = Manifests /\ Complete' = Complete \ {s} /\ Manifests' = Manifests
        /\ manifest' = manifest /\ rotten = {} /\ rotten' = {manifest[s]}
    BY <1>8 DEF Spoils
  <2>2. CASE s # m
    BY <1>2, <1>4, <2>1, <2>2
  <2>3. CASE s = m /\ \E x \in Complete' : Ahead(r, x)
    BY <1>3, <2>1, <2>3 DEF Passed
  <2>4. CASE s = m /\ ~ \E x \in Complete' : Ahead(r, x)
    <3>1. \A x \in Complete' : x \in look[r].listed /\ x < m
      <4> SUFFICES ASSUME NEW x \in Complete'
                   PROVE  x \in look[r].listed /\ x < m
        OBVIOUS
      <4>1. x \in look[r].listed /\ x # m /\ x \in Nat /\ m \in Nat
        BY <1>1, <1>2, <2>1, <2>4
      <4>2. x <= m
        BY <1>2, <4>1 DEF Heads
      <4>3. QED
        BY <4>1, <4>2
    <3>2. Under(m)' = Complete'
      BY <3>1 DEF Under
    <3>3. ASSUME NEW b, Second(m, b)'
          PROVE  manifest'[b] \in newestSeen'[r]
      <4>1. b \in Complete' /\ \A c \in Complete' : c <= b
        BY <3>2, <3>3 DEF Second
      <4>2. QED
        BY <4>1 DEF Apex
    <3>4. m = 1 \/ \E c \in Complete' : m <= c + 1
      <4>1. m \in Manifests' \ Complete'
        BY <1>2, <2>1, <2>4
      <4>2. QED
        BY <4>1 DEF Close
    <3>5. Exposed(r, m)'
      <4>1. Manifests' \ Complete' \subseteq {m}
        BY <2>1, <2>4
      <4>2. Under(m)' \subseteq look'[r].listed
        BY <3>1, <3>2
      <4>3. rotten' # {}
        BY <2>1
      <4>4. QED
        BY <1>2, <1>3, <3>3, <3>4, <4>1, <4>2, <4>3 DEF Exposed
    <3>6. Before(r, m)' \/ Past(r, m)'
      <4>1. CASE look[r].at = "scan" /\ look[r].rest = look[r].listed /\ look[r].found = Nothing
        BY <2>1, <2>4, <4>1 DEF Before
      <4>2. CASE look[r].at = "verify" /\ look[r].rest = look[r].listed \ {m} /\ look[r].found = manifest[m]
        <5>1. look[r].found \in rotten'
          BY <2>1, <2>4, <4>2
        <5>2. Under(m)' \subseteq look[r].rest
          BY <2>1, <2>4, <3>1, <3>2, <4>2
        <5>3. QED
          BY <4>2, <5>1, <5>2 DEF Past
      <4>3. QED
        BY <4>1, <4>2 DEF Held
    <3>7. QED
      BY <3>5, <3>6 DEF Slipped
  <2>5. QED
    BY <2>2, <2>3, <2>4
<1>9. QED
  BY <1>5, <1>6, <1>7, <1>8 DEF Moves

\* The number of the one that went bad is given again, and the reader has yet to
\* open it.
LEMMA GivenAgain ==
  ASSUME Typed, Apex, Apex', NEW r \in Reader, NEW m \in Sequence, Exposed(r, m), Before(r, m), Adds(m),
         look'[r] = look[r], newestSeen'[r] = newestSeen[r] \cup {Newest'}
  PROVE  Held(r, m)'
<1>1. Complete' = Complete \cup {m} /\ Manifests' = Manifests \cup {m} /\ \A c \in Complete : c < m
  BY DEF Adds
<1>2. \A c \in Complete' : c <= m
  BY <1>1, Numbers
<1>3. manifest'[m] \in newestSeen'[r]
  BY <1>1, <1>2 DEF Apex
<1>4. \A x \in Manifests' : x \in look[r].listed
  <2>1. Complete = Under(m)
    BY <1>1 DEF Under
  <2>2. m \in look[r].listed
    BY DEF Exposed, Heads
  <2>3. QED
    BY <1>1, <2>1, <2>2 DEF Exposed
<1>5. Heads(r, m)'
  BY DEF Exposed, Heads
<1>6. QED
  BY <1>1, <1>3, <1>4, <1>5 DEF Held, Before

\* What is under the head of the listing, and where the reader is, stay.
LEMMA UnderStays ==
  ASSUME Typed, Apex, NEW r \in Reader, NEW m, Slipped(r, m),
         look'[r] = look[r], newestSeen'[r] = newestSeen[r] \cup {Newest'}, rotten' = rotten,
         Manifests' \ Complete' \subseteq {m},
         m = 1 \/ \E c \in Complete' : m <= c + 1,
         Under(m)' \subseteq Under(m),
         \A b : Second(m, b)' <=> Second(m, b),
         \A b \in Under(m)' : manifest'[b] = manifest[b],
         Before(r, m) => m \notin Complete'
  PROVE  Slipped(r, m)'
<1>1. Heads(r, m)' /\ rotten' # {} /\ Under(m)' \subseteq look[r].listed
  BY DEF Slipped, Exposed, Heads
<1>2. ASSUME NEW b \in Under(m)', Second(m, b)'
      PROVE  manifest'[b] \in newestSeen'[r]
  BY <1>2 DEF Slipped, Exposed
<1>3. Exposed(r, m)'
  BY <1>1, <1>2 DEF Exposed
<1>4. CASE Before(r, m)
  BY <1>3, <1>4 DEF Slipped, Before
<1>5. CASE Past(r, m)
  BY <1>3, <1>5 DEF Slipped, Past
<1>6. CASE OnSecond(r, m)
  <2>1. PICK b \in Under(m) : Second(m, b) /\ look[r].found = manifest[b] /\ look[r].at = "verify"
    BY <1>6 DEF OnSecond
  <2>2. b \in Under(m)' /\ Second(m, b)' /\ manifest'[b] = manifest[b]
    BY <2>1 DEF Second
  <2>3. OnSecond(r, m)'
    BY <2>1, <2>2 DEF OnSecond
  <2>4. QED
    BY <1>3, <2>3 DEF Slipped
<1>7. QED
  BY <1>4, <1>5, <1>6 DEF Slipped

\* A reader that stands still past, or before, the one that has gone bad: its
\* number is given again, or another one comes above, or two drop.
LEMMA SlippedStays ==
  ASSUME Typed, Apex, Apex', Moves, NEW r \in Reader, NEW m, Slipped(r, m),
         look'[r] = look[r], newestSeen'[r] = newestSeen[r] \cup {Newest'}
  PROVE  Passed(r)' \/ Held(r, m)' \/ Slipped(r, m)'
<1>1. /\ Complete \subseteq Manifests /\ Manifests \subseteq Sequence /\ Sequence \subseteq Nat
      /\ look[r].listed \subseteq Sequence
  BY Numbers
<1>2. /\ rotten # {} /\ Heads(r, m) /\ m \in Sequence
      /\ m = 1 \/ \E c \in Complete : m <= c + 1
      /\ Manifests \ Complete \subseteq {m}
  BY <1>1 DEF Slipped, Exposed, Heads
<1>3. \A x : Ahead(r, x)' <=> Ahead(r, x)
  BY DEF Ahead
<1>4. ASSUME NEW x \in Complete', m < x, x \in Nat, rotten' # {}
      PROVE  Passed(r)'
  BY <1>2, <1>3, <1>4, AboveHead DEF Passed
<1>5. CASE Still
  <2>1. manifest' = manifest /\ Complete' = Complete /\ Manifests' = Manifests /\ rotten' = rotten
    BY <1>5 DEF Still
  <2>2. Under(m)' = Under(m)
    BY <2>1 DEF Under
  <2>3. \A b : Second(m, b)' <=> Second(m, b)
    BY <2>2 DEF Second
  <2>4. QED
    BY <1>2, <2>1, <2>2, <2>3, UnderStays DEF Before
<1>6. ASSUME NEW n \in Sequence, Adds(n)
      PROVE  Passed(r)' \/ Held(r, m)' \/ Slipped(r, m)'
  <2>1. /\ Complete' = Complete \cup {n} /\ Manifests' = Manifests \cup {n} /\ rotten' = rotten
        /\ \A c \in Complete : c < n
        /\ \A t \in Sequence \ {n} : manifest'[t] = manifest[t]
    BY <1>6 DEF Adds
  <2>2. CASE m < n
    BY <1>1, <1>2, <1>4, <2>1, <2>2
  <2>3. n >= m
    <3>1. CASE m = 1
      BY <3>1
    <3>2. ASSUME NEW c \in Complete, m <= c + 1
          PROVE  n >= m
      <4>1. c < n /\ c \in Nat /\ n \in Nat /\ m \in Nat
        BY <1>1, <1>2, <2>1
      <4>2. QED
        BY <3>2, <4>1
    <3>3. QED
      BY <1>2, <3>1, <3>2
  <2>4. CASE n = m
    <3>1. CASE Before(r, m)
      BY <1>2, <1>6, <2>4, <3>1, GivenAgain DEF Slipped
    <3>2. CASE ~ Before(r, m)
      <4>1. Under(m)' = Under(m)
        BY <1>1, <2>1, <2>4 DEF Under
      <4>2. \A b : Second(m, b)' <=> Second(m, b)
        BY <4>1 DEF Second
      <4>3. Manifests' \ Complete' \subseteq {m}
        BY <1>2, <2>1
      <4>4. m = 1 \/ \E c \in Complete' : m <= c + 1
        BY <1>2, <2>1
      <4>5. \A b \in Under(m)' : manifest'[b] = manifest[b]
        <5>1. \A b \in Under(m) : b \in Complete /\ b < m
          BY DEF Under
        <5>2. ASSUME NEW b \in Under(m)
              PROVE  b \in Sequence \ {n}
          <6>1. b \in Sequence /\ b \in Nat /\ m \in Nat /\ b < m
            BY <1>1, <1>2, <5>1
          <6>2. QED
            BY <2>4, <6>1
        <5>3. QED
          BY <2>1, <4>1, <5>2
      <4>6. QED
        BY <2>1, <3>2, <4>1, <4>2, <4>3, <4>4, <4>5, UnderStays
    <3>3. QED
      BY <3>1, <3>2
  <2>5. QED
    BY <1>1, <1>2, <2>2, <2>3, <2>4
<1>7. ASSUME NEW s \in Manifests, Drops(s)
      PROVE  Passed(r)' \/ Held(r, m)' \/ Slipped(r, m)'
  <2>1. /\ Complete' = Complete \ {s} /\ Manifests' = Manifests \ {s} /\ rotten' = rotten
        /\ \A t \in Sequence \ {s} : manifest'[t] = manifest[t]
    BY <1>7 DEF Drops
  <2>2. CASE \E x \in Complete' : m < x
    BY <1>1, <1>2, <1>4, <2>1, <2>2
  <2>3. CASE ~ \E x \in Complete' : m < x
    <3>1. /\ Manifests' \ Complete' \subseteq {m}
          /\ Before(r, m) => m \notin Complete'
          /\ Under(m)' = Under(m) \ {s}
      BY <1>2, <2>1 DEF Before, Under
    <3>2. \A b \in Under(m)' : manifest'[b] = manifest[b]
      BY <1>1, <2>1, <3>1 DEF Under
    <3>3. CASE s \notin Complete
      <4>1. Complete' = Complete /\ Under(m)' = Under(m)
        BY <2>1, <3>1, <3>3 DEF Under
      <4>2. \A b : Second(m, b)' <=> Second(m, b)
        BY <4>1 DEF Second
      <4>3. QED
        BY <1>2, <2>1, <3>1, <3>2, <4>1, <4>2, UnderStays
    <3>4. CASE s \in Complete
      <4>1. PICK z \in Under(m)' : s < z
        <5>1. PICK x \in Complete, y \in Manifests : x # y /\ x > s /\ y > s
          BY <1>7, <3>4 DEF Drops
        <5>2. x \in Nat /\ y \in Nat /\ s \in Nat /\ m \in Nat
          BY <1>1, <1>2, <3>4, <5>1
        <5>3. x \in Complete' /\ x <= m /\ y <= m
          <6>1. x \in Complete' /\ (y \in Complete => y \in Complete') /\ (y \notin Complete => y = m)
            BY <1>2, <2>1, <5>1, <5>2
          <6>2. QED
            BY <2>3, <5>2, <6>1
        <5>4. CASE x < m
          BY <5>1, <5>2, <5>3, <5>4 DEF Under
        <5>5. CASE x = m
          <6>1. y < m /\ y \in Complete'
            BY <1>2, <2>1, <5>1, <5>2, <5>3, <5>5
          <6>2. QED
            BY <5>1, <5>2, <6>1 DEF Under
        <5>6. QED
          BY <5>2, <5>3, <5>4, <5>5
      <4>2. /\ z \in Complete' /\ z \in Under(m) /\ z \in Nat /\ s \in Nat /\ m \in Nat
            /\ Under(m) \subseteq Nat
        BY <1>1, <1>2, <2>1, <3>1, <3>4, <4>1 DEF Under
      <4>3. ASSUME NEW b
            PROVE  Second(m, b)' <=> Second(m, b)
        <5>1. ASSUME Second(m, b)
              PROVE  Second(m, b)'
          <6>1. b \in Under(m) /\ z <= b /\ b \in Nat
            BY <4>2, <5>1 DEF Second
          <6>2. b # s
            BY <4>1, <4>2, <6>1
          <6>3. QED
            BY <3>1, <5>1, <6>2 DEF Second
        <5>2. ASSUME Second(m, b)'
              PROVE  Second(m, b)
          <6>1. b \in Under(m) /\ z <= b /\ b \in Nat
            BY <3>1, <4>1, <4>2, <5>2 DEF Second
          <6>2. s <= b
            BY <4>1, <4>2, <6>1
          <6>3. QED
            BY <3>1, <5>2, <6>1, <6>2 DEF Second
        <5>3. QED
          BY <5>1, <5>2
      <4>4. m = 1 \/ \E c \in Complete' : m <= c + 1
        <5>1. ASSUME NEW c \in Complete, m <= c + 1
              PROVE  \E d \in Complete' : m <= d + 1
          <6>1. CASE c # s
            BY <2>1, <5>1, <6>1
          <6>2. CASE c = s
            BY <4>1, <4>2, <5>1, <6>2
          <6>3. QED
            BY <6>1, <6>2
        <5>2. QED
          BY <1>2, <5>1
      <4>5. QED
        BY <2>1, <3>1, <3>2, <4>3, <4>4, UnderStays
    <3>5. QED
      BY <3>3, <3>4
  <2>4. QED
    BY <2>2, <2>3
<1>8. ASSUME NEW s \in Manifests, Spoils(s)
      PROVE  FALSE
  BY <1>2, <1>8 DEF Spoils
<1>9. QED
  BY <1>5, <1>6, <1>7, <1>8 DEF Moves

-----------------------------------------------------------------------------
(***************************************************************************)
(* What a reader knows holds through the steps of the others, and through  *)
(* its own.                                                                *)
(***************************************************************************)
\* What is left of the 0.4.0 pair only goes.
LEMMA LegacyGoes ==
  ASSUME Next
  PROVE  legacy' \subseteq legacy
<1>1. ASSUME NEW w \in Writer, WriterStep(w)
      PROVE  legacy' \subseteq legacy
  BY <1>1 DEF WriterStep, SaveStep, BeginSave, BeginLoad, Begin, AssertCurrent, NextSequence,
    StageIndex, StageState, Stage, RenameIndex, RenameState, Rename, CommitManifest,
    CollectOldGenerations, SweepManifest, SweepData, Swept, DeferCleanup, Load, DropLegacy,
    MigrationFails, Crash, disk
<1>2. ASSUME NEW q \in Reader, Read(q)
      PROVE  legacy' = legacy
  BY <1>2 DEF Read, BeginRead, List, Scan, ScanEnds, Verify, Stable, ReadLegacy, ReaderStep, disk
<1>3. CASE Rot
  BY <1>3 DEF Rot
<1>4. QED
  BY <1>1, <1>2, <1>3 DEF Next

\* A reader that stands still is where it was, or passed, or its generation has
\* gone bad.
LEMMA StandingStill ==
  ASSUME Typed, Apex, Apex', Close', Moves, ReadersInv, Next, NEW r \in Reader, look'[r] = look[r]
  PROVE  Knows(r)'
<1>1. look[r].at # "idle" => newestSeen'[r] = newestSeen[r] \cup {Newest'}
  BY DEF Next, Observe
<1>2. legacy' \subseteq legacy /\ Knows(r)
  BY LegacyGoes DEF ReadersInv
<1>3. ASSUME look[r].at \in {"scan", "verify"}
      PROVE  Passed(r)' \/ \E m \in look'[r].listed : Held(r, m)' \/ Slipped(r, m)'
  <2>1. newestSeen'[r] = newestSeen[r] \cup {Newest'}
    BY <1>1, <1>3
  <2>2. CASE Passed(r)
    BY <2>2, PassedStays
  <2>3. ASSUME NEW m \in look[r].listed, Held(r, m) \/ Slipped(r, m)
        PROVE  Passed(r)' \/ Held(r, m)' \/ Slipped(r, m)'
    BY <2>1, <2>3, HeldStays, SlippedStays
  <2>4. QED
    BY <1>2, <1>3, <2>2, <2>3 DEF Knows
<1>4. ASSUME look[r].at = "stable"
      PROVE  Passed(r)' \/ look'[r].found \in newestSeen'[r] \cup {Nothing}
  <2>1. CASE Passed(r)
    BY <2>1, PassedStays
  <2>2. CASE ~ Passed(r)
    BY <1>1, <1>2, <1>4, <2>2 DEF Knows
  <2>3. QED
    BY <2>1, <2>2
<1>5. QED
  BY <1>1, <1>2, <1>3, <1>4 DEF Knows

\* The variables of a reader after each of its steps.
LEMMA ReaderGoes ==
  ASSUME look \in [Reader -> Look], NEW r \in Reader
  PROVE  /\ \A new : ReaderStep(r, new) => look'[r] = new
         /\ Scan(r) \/ ScanEnds(r) \/ Verify(r) =>
              look'[r].listed = look[r].listed /\ look'[r].at \in {"scan", "verify", "stable"}
         /\ BeginRead(r) => look'[r].at = "list"
         /\ Stable(r) => look'[r].at \in {"idle", "list"}
         /\ ReadLegacy(r) =>
              \/ look'[r].at \in {"idle", "list"}
              \/ look[r].at = "legacy_index" /\ look'[r].at = "legacy_state"
<1>1. \A new : ReaderStep(r, new) => look'[r] = new
  BY DEF ReaderStep
<1>2. look[r] \in Look
  OBVIOUS
<1> DEFINE skip == [look[r] EXCEPT !.rest = @ \ {Max(look[r].rest)}]
<1>3. skip.listed = look[r].listed /\ skip.at = look[r].at /\ skip \in Look
  BY <1>2 DEF Look
<1>4. Scan(r) => look'[r].listed = look[r].listed /\ look'[r].at \in {"scan", "verify", "stable"}
  <2> SUFFICES ASSUME Scan(r)
               PROVE  look'[r].listed = look[r].listed /\ look'[r].at \in {"scan", "verify", "stable"}
    OBVIOUS
  <2> DEFINE g == manifest[Max(look[r].rest)]
  <2>1. CASE look'[r] = skip
    BY <1>3, <2>1 DEF Scan
  <2>2. CASE look'[r] = [skip EXCEPT !.at = "verify", !.found = g]
    BY <1>3, <2>2 DEF Look
  <2>3. QED
    BY <1>1, <2>1, <2>2 DEF Scan
<1>5. ScanEnds(r) => look'[r].listed = look[r].listed /\ look'[r].at = "stable"
  BY <1>1, <1>2 DEF ScanEnds, Look
<1>6. Verify(r) => look'[r].listed = look[r].listed /\ look'[r].at \in {"scan", "stable"}
  <2>1. Verify(r) => \/ look'[r] = [look[r] EXCEPT !.at = "stable"]
                     \/ look'[r] = [look[r] EXCEPT !.at = "scan", !.found = Nothing]
    BY <1>1 DEF Verify
  <2>2. QED
    BY <1>2, <2>1 DEF Look
<1>7. BeginRead(r) => look'[r].at = "list"
  BY <1>1 DEF BeginRead, NoLook
<1>8. Stable(r) => look'[r].at \in {"idle", "list"}
  <2>1. Stable(r) =>
          \/ look'[r] = [NoLook EXCEPT !.found = look[r].found]
          \/ look'[r] = [NoLook EXCEPT !.at = "list", !.tries = look[r].tries + 1, !.loads = look[r].loads]
          \/ look'[r] = NoLook
    BY <1>1 DEF Stable
  <2>2. /\ \A x : [NoLook EXCEPT !.found = x].at = "idle"
        /\ \A x, y : [NoLook EXCEPT !.at = "list", !.tries = x, !.loads = y].at = "list"
        /\ NoLook.at = "idle"
    BY DEF NoLook
  <2>3. CASE look'[r] = [NoLook EXCEPT !.found = look[r].found]
    BY <2>2, <2>3
  <2>4. CASE look'[r] = [NoLook EXCEPT !.at = "list", !.tries = look[r].tries + 1, !.loads = look[r].loads]
    BY <2>2, <2>4
  <2>5. QED
    BY <2>1, <2>2, <2>3, <2>4
<1>9. ReadLegacy(r) =>
        \/ look'[r].at \in {"idle", "list"}
        \/ look[r].at = "legacy_index" /\ look'[r].at = "legacy_state"
  <2>1. LoadAgain(r).at \in {"idle", "list"}
    BY DEF LoadAgain, NoLook
  <2>2. ReadLegacy(r) =>
          \/ look[r].at = "legacy_index" /\ look'[r] = [look[r] EXCEPT !.at = "legacy_state"]
          \/ look'[r] \in {LoadAgain(r), [NoLook EXCEPT !.found = Legacy]}
    BY <1>1 DEF ReadLegacy
  <2>3. QED
    BY <1>2, <2>1, <2>2 DEF NoLook, Look
<1>10. QED
  BY <1>1, <1>4, <1>5, <1>6, <1>7, <1>8, <1>9

\* A step of a reader leaves the directory, and what is known of it.
LEMMA OnlyLooks ==
  ASSUME UNCHANGED disk
  PROVE  /\ UNCHANGED <<manifest, files, legacy, rotten>>
         /\ Manifests' = Manifests /\ Complete' = Complete /\ Newest' = Newest
         /\ \A m : Under(m)' = Under(m)
         /\ \A m, b : Second(m, b)' <=> Second(m, b)
<1>1. UNCHANGED <<manifest, files, legacy, rotten>>
  BY DEF disk
<1>2. Manifests' = Manifests /\ Complete' = Complete
  BY <1>1 DEF Manifests, Complete, Verifies
<1>3. Newest' = Newest
  BY <1>1, <1>2 DEF Newest, Latest
<1>4. \A m : Under(m)' = Under(m)
  BY <1>2 DEF Under
<1>5. \A m, b : Second(m, b)' <=> Second(m, b)
  BY <1>4 DEF Second
<1>6. QED
  BY <1>1, <1>2, <1>3, <1>4, <1>5

\* A listing of nothing leads to the 0.4.0 pair, which was the newest if it is
\* still there; any other listing ends with the newest generation, or with the
\* one that has gone bad.
LEMMA ListKnows ==
  ASSUME IndInv, BooksInv, ShapeInv, Apex, ReadersInv, NEW r \in Reader, List(r),
         newestSeen'[r] = newestSeen[r] \cup {Newest'}
  PROVE  Knows(r)'
<1>1. /\ UNCHANGED disk /\ look \in [Reader -> Look] /\ look[r] \in Look
      /\ look[r].at = "list" /\ look[r].found = Nothing
  BY DEF List, ReaderStep, IndInv, Typed, ReadersInv, Knows
<1>2. /\ UNCHANGED <<manifest, files, legacy, rotten>>
      /\ Manifests' = Manifests /\ Complete' = Complete /\ Newest' = Newest
      /\ \A m : Under(m)' = Under(m)
      /\ \A m, b : Second(m, b)' <=> Second(m, b)
  BY <1>1, OnlyLooks
<1>3. CASE Manifests = {}
  <2>1. look'[r].at = "legacy_index"
    BY <1>1, <1>3 DEF List, ReaderStep, Look
  <2>2. Complete = {}
    BY <1>3 DEF Complete
  <2>3. "index" \in legacy => Newest = Legacy
    BY <1>3, <2>2 DEF Newest, ShapeInv, IndexFirst
  <2>4. QED
    BY <1>2, <2>1, <2>3 DEF Knows
<1>4. CASE Manifests # {}
  <2>1. /\ look'[r].at = "scan" /\ look'[r].listed = Manifests /\ look'[r].rest = Manifests
        /\ look'[r].found = Nothing
    BY <1>1, <1>4 DEF List, ReaderStep, Look
  <2>2. PICK m \in Manifests : \A t \in Manifests : t <= m
    <3>1. Manifests \in SUBSET (1..MaxSequence)
      BY DEF Manifests
    <3>2. QED
      BY <1>4, <3>1, MaxFact, StoreAssumption
  <2>3. Heads(r, m)'
    BY <2>1, <2>2 DEF Heads
  <2>4. Complete \subseteq Manifests /\ Manifests \subseteq Nat
    BY <1>1, Numbers DEF IndInv
  <2>5. CASE m \in Complete
    <3>1. Newest = manifest[m]
      BY <2>2, <2>4, <2>5 DEF Apex
    <3>2. Held(r, m)'
      BY <1>2, <2>1, <2>3, <2>5, <3>1 DEF Held
    <3>3. QED
      BY <2>1, <3>2 DEF Knows
  <2>6. CASE m \notin Complete
    <3>1. manifest[m] \in rotten
      BY <2>6 DEF Apex
    <3>2. Manifests \ Complete \subseteq {m}
      BY <3>1 DEF Apex, ShapeInv, RotsOnce, BooksInv, Distinct
    <3>3. m = 1 \/ \E c \in Complete : m <= c + 1
      BY <2>6 DEF ShapeInv, Close
    <3>4. Under(m) = Complete
      <4>1. ASSUME NEW c \in Complete
            PROVE  c < m
        <5>1. c <= m /\ c # m /\ c \in Nat /\ m \in Nat
          BY <2>2, <2>4, <2>6
        <5>2. QED
          BY <5>1
      <4>2. QED
        BY <4>1 DEF Under
    <3>5. \A b \in Under(m) : Second(m, b) => manifest[b] = Newest
      BY <3>4 DEF Second, Apex
    <3>6. Exposed(r, m)'
      BY <1>2, <2>1, <2>3, <2>4, <3>1, <3>2, <3>3, <3>4, <3>5 DEF Exposed
    <3>7. Before(r, m)'
      BY <1>2, <2>1, <2>6 DEF Before
    <3>8. QED
      BY <2>1, <3>6, <3>7 DEF Knows, Slipped
  <2>7. QED
    BY <2>5, <2>6
<1>5. QED
  BY <1>3, <1>4

\* A scan opens the highest manifest that it has left, or steps over it when its
\* file is not there.
LEMMA ScanOpens ==
  ASSUME ReadsSucceed, Typed, NEW r \in Reader, Scan(r)
  PROVE  \E s \in look[r].rest :
           /\ \A t \in look[r].rest : t <= s
           /\ look'[r].listed = look[r].listed /\ look'[r].rest = look[r].rest \ {s}
           /\ \/ /\ <<"index", manifest[s]>> \in files
                 /\ look'[r].at = "verify" /\ look'[r].found = manifest[s]
              \/ /\ <<"index", manifest[s]>> \notin files
                 /\ look'[r].at = "scan" /\ look'[r].found = look[r].found
<1>1. look \in [Reader -> Look] /\ look[r] \in Look /\ look[r].at = "scan"
  BY DEF Scan, Typed
<1>2. PICK s \in look[r].rest : s = Max(look[r].rest) /\ \A t \in look[r].rest : t <= s
  <2>1. look[r].rest \in SUBSET (1..MaxSequence) /\ look[r].rest # {}
    BY <1>1 DEF Scan, Look
  <2>2. QED
    BY <2>1, MaxFact, StoreAssumption
<1>3. ~ Suffer("read")
  BY DEF Suffer, ReadsSucceed, Typed
<1> DEFINE skip == [look[r] EXCEPT !.rest = @ \ {s}]
           open == [skip EXCEPT !.at = "verify", !.found = manifest[s]]
<1>4. /\ skip \in Look /\ skip.listed = look[r].listed /\ skip.rest = look[r].rest \ {s}
      /\ skip.at = look[r].at /\ skip.found = look[r].found
  BY <1>1 DEF Look
<1>5. /\ open.listed = look[r].listed /\ open.rest = look[r].rest \ {s}
      /\ open.at = "verify" /\ open.found = manifest[s]
  BY <1>4 DEF Look
<1>6. \/ <<"index", manifest[s]>> \in files /\ look'[r] = open
      \/ <<"index", manifest[s]>> \notin files /\ look'[r] = skip
  <2>1. \/ <<"index", manifest[s]>> \in files /\ ReaderStep(r, open)
        \/ <<"index", manifest[s]>> \notin files /\ ReaderStep(r, skip)
    BY <1>2, <1>3 DEF Scan
  <2>2. QED
    BY <1>1, <2>1, ReaderGoes
<1>7. CASE <<"index", manifest[s]>> \in files /\ look'[r] = open
  BY <1>2, <1>5, <1>7
<1>8. CASE <<"index", manifest[s]>> \notin files /\ look'[r] = skip
  BY <1>1, <1>2, <1>4, <1>8
<1>9. QED
  BY <1>6, <1>7, <1>8

\* Both files of a complete manifest are there, and good; of a generation that
\* is not committed, or that has been swept, neither is named.
LEMMA FilesOf ==
  ASSUME Typed, Apex, NEW s \in Sequence
  PROVE  /\ s \in Complete => /\ <<"index", manifest[s]>> \in files /\ <<"state", manifest[s]>> \in files
                              /\ manifest[s] \notin rotten
         /\ s \notin Complete /\ <<"index", manifest[s]>> \in files =>
              s \in Manifests /\ manifest[s] \in rotten
<1>1. ASSUME s \in Complete
      PROVE  /\ <<"index", manifest[s]>> \in files /\ <<"state", manifest[s]>> \in files
             /\ manifest[s] \notin rotten
  BY <1>1 DEF Complete, Verifies
<1>2. ASSUME s \notin Complete, <<"index", manifest[s]>> \in files
      PROVE  s \in Manifests /\ manifest[s] \in rotten
  <2>1. manifest[s] \in Generation
    BY <1>2 DEF Typed
  <2>2. s \in Manifests
    BY <2>1, StoreAssumption DEF Manifests
  <2>3. QED
    BY <1>2, <2>2 DEF Apex
<1>3. QED
  BY <1>1, <1>2

\* What is known of the manifests stays known while the reader looks.
LEMMA ExposedStays ==
  ASSUME UNCHANGED disk, NEW r \in Reader, NEW m, Exposed(r, m),
         look'[r].listed = look[r].listed, newestSeen'[r] = newestSeen[r] \cup {Newest'}
  PROVE  Exposed(r, m)'
<1>1. Heads(r, m)'
  BY DEF Exposed, Heads
<1>2. QED
  BY <1>1, OnlyLooks DEF Exposed

\* The reader opens the next manifest: the highest, the bad one, or the one
\* below it.
LEMMA ScanFinds ==
  ASSUME ReadsSucceed, Typed, Apex, NEW r \in Reader, Scan(r), NEW m,
         Held(r, m) \/ Slipped(r, m), newestSeen'[r] = newestSeen[r] \cup {Newest'}
  PROVE  Held(r, m)' \/ Slipped(r, m)'
<1>1. PICK s \in look[r].rest :
        /\ \A t \in look[r].rest : t <= s
        /\ look'[r].listed = look[r].listed /\ look'[r].rest = look[r].rest \ {s}
        /\ \/ /\ <<"index", manifest[s]>> \in files
              /\ look'[r].at = "verify" /\ look'[r].found = manifest[s]
           \/ /\ <<"index", manifest[s]>> \notin files
              /\ look'[r].at = "scan" /\ look'[r].found = look[r].found
  BY ScanOpens
<1>2. look[r].at = "scan" /\ UNCHANGED disk
  BY DEF Scan, ReaderStep
<1>3. /\ UNCHANGED <<manifest, files, legacy, rotten>>
      /\ Manifests' = Manifests /\ Complete' = Complete
      /\ \A n : Under(n)' = Under(n)
      /\ \A n, b : Second(n, b)' <=> Second(n, b)
  BY <1>2, OnlyLooks
<1>4. /\ Complete \subseteq Manifests /\ Manifests \subseteq Sequence /\ Sequence \subseteq Nat
      /\ look[r].listed \subseteq Sequence /\ look[r].rest \subseteq Sequence
  <2>1. look[r].rest \subseteq Sequence
    BY DEF Typed, Look
  <2>2. QED
    BY <2>1, Numbers
<1>5. Heads(r, m) /\ m \in Nat /\ m \in Sequence
  BY <1>4 DEF Held, Slipped, Exposed, Heads
<1>6. s \in Sequence /\ s \in Nat
  BY <1>1, <1>4
<1>7. look[r].rest = look[r].listed => s = m
  <2>1. ASSUME look[r].rest = look[r].listed
        PROVE  s <= m /\ m <= s
    BY <1>1, <1>5, <2>1 DEF Heads
  <2>2. QED
    BY <1>5, <1>6, <2>1
<1>8. CASE Held(r, m)
  <2>1. look[r].rest = look[r].listed /\ s = m /\ m \in Complete
    BY <1>2, <1>7, <1>8 DEF Held
  <2>2. look'[r].at = "verify" /\ look'[r].found = manifest[m] /\ look'[r].rest = look[r].listed \ {m}
    BY <1>1, <1>5, <2>1, FilesOf
  <2>3. Heads(r, m)' /\ \A x : Ahead(r, x)' <=> Ahead(r, x)
    BY <1>1, <1>5 DEF Heads, Ahead
  <2>4. QED
    BY <1>1, <1>3, <1>8, <2>2, <2>3 DEF Held
<1>9. CASE Slipped(r, m)
  <2>1. Exposed(r, m)' /\ Exposed(r, m)
    BY <1>1, <1>2, <1>9, ExposedStays DEF Slipped
  <2>2. CASE Before(r, m)
    <3>1. s = m /\ m \notin Complete /\ look[r].rest = look[r].listed /\ look[r].found = Nothing
      BY <1>7, <2>2 DEF Before
    <3>2. Under(m) \subseteq look'[r].rest /\ m \notin look'[r].rest
      <4>1. \A b \in Under(m) : b \in look[r].listed /\ b # m
        <5>1. ASSUME NEW b \in Under(m)
              PROVE  b \in look[r].listed /\ b # m
          <6>1. b \in look[r].listed /\ b < m /\ b \in Nat
            BY <1>4, <2>1 DEF Exposed, Under
          <6>2. QED
            BY <1>5, <6>1
        <5>2. QED
          BY <5>1
      <4>2. QED
        BY <1>1, <3>1, <4>1
    <3>3. Past(r, m)'
      BY <1>1, <1>3, <1>5, <3>1, <3>2, FilesOf DEF Past
    <3>4. QED
      BY <2>1, <3>3 DEF Slipped
  <2>3. CASE Past(r, m)
    <3>1. /\ m \notin look[r].rest /\ look[r].rest \subseteq look[r].listed
          /\ Under(m) \subseteq look[r].rest /\ look[r].found = Nothing
      BY <1>2, <2>3 DEF Past
    <3>2. s < m
      <4>1. s <= m /\ s # m
        BY <1>1, <1>5, <3>1 DEF Heads
      <4>2. QED
        BY <1>5, <1>6, <4>1
    <3>3. CASE s \in Complete
      <4>1. s \in Under(m) /\ Second(m, s)
        BY <1>1, <3>1, <3>2, <3>3 DEF Under, Second
      <4>2. look'[r].at = "verify" /\ look'[r].found = manifest[s]
        BY <1>1, <1>6, <3>3, FilesOf
      <4>3. OnSecond(r, m)'
        BY <1>3, <4>1, <4>2 DEF OnSecond
      <4>4. QED
        BY <2>1, <4>3 DEF Slipped
    <3>4. CASE s \notin Complete
      <4>1. s \notin Manifests
        BY <1>1, <2>1, <3>1, <3>4 DEF Exposed
      <4>2. look'[r].at = "scan" /\ look'[r].found = Nothing
        BY <1>1, <1>6, <3>1, <3>4, <4>1, FilesOf
      <4>3. Under(m) \subseteq look'[r].rest
        BY <1>1, <3>1, <3>4 DEF Under
      <4>4. Past(r, m)'
        BY <1>1, <1>3, <3>1, <4>2, <4>3 DEF Past
      <4>5. QED
        BY <2>1, <4>4 DEF Slipped
    <3>5. QED
      BY <3>3, <3>4
  <2>4. QED
    BY <1>2, <1>9, <2>2, <2>3 DEF Slipped, OnSecond
<1>10. QED
  BY <1>8, <1>9

\* A scan ends without a generation only past the one that has gone bad, beneath
\* which there is none; what verifies is the highest, or the one below a bad one.
LEMMA ReadsOn ==
  ASSUME Typed, Apex, NEW r \in Reader, ScanEnds(r) \/ Verify(r), NEW m,
         Held(r, m) \/ Slipped(r, m), newestSeen'[r] = newestSeen[r] \cup {Newest'}
  PROVE  \/ look'[r].at = "stable" /\ look'[r].found \in newestSeen'[r] \cup {Nothing}
         \/ look'[r].at = "scan" /\ Slipped(r, m)'
<1>1. look \in [Reader -> Look] /\ look[r] \in Look /\ UNCHANGED disk
  BY DEF Typed, ScanEnds, Verify, ReaderStep
<1>2. CASE ScanEnds(r)
  <2>1. /\ look[r].at = "scan" /\ look[r].rest = {}
        /\ look'[r].at = "stable" /\ look'[r].found = look[r].found
    <3>1. look'[r] = [look[r] EXCEPT !.at = "stable"]
      BY <1>1, <1>2 DEF ScanEnds, ReaderStep
    <3>2. QED
      BY <1>1, <1>2, <3>1 DEF ScanEnds, Look
  <2>2. look[r].found = Nothing
    BY <2>1 DEF Held, Slipped, Before, Past, OnSecond
  <2>3. QED
    BY <2>1, <2>2
<1>3. CASE Verify(r)
  <2> DEFINE g == look[r].found
             good == <<"state", g>> \in files /\ g \notin rotten
  <2>1. look[r].at = "verify" /\ look'[r].listed = look[r].listed /\ look'[r].rest = look[r].rest
    BY <1>1, <1>3 DEF Verify, ReaderStep, Look
  <2>2. good => look'[r].at = "stable" /\ look'[r].found = g
    BY <1>1, <1>3 DEF Verify, ReaderStep, Look
  <2>3. ~ good => look'[r].at = "scan" /\ look'[r].found = Nothing
    BY <1>1, <1>3 DEF Verify, ReaderStep, Look
  <2>4. \A s \in Complete : g = manifest[s] => good
    BY FilesOf, Numbers
  <2>5. CASE Held(r, m)
    <3>1. m \in Complete /\ g = manifest[m] /\ manifest[m] \in newestSeen[r]
      BY <2>1, <2>5 DEF Held
    <3>2. QED
      BY <2>2, <2>4, <3>1
  <2>6. CASE Slipped(r, m) /\ OnSecond(r, m)
    <3>1. PICK b \in Under(m) : Second(m, b) /\ g = manifest[b]
      BY <2>6 DEF OnSecond
    <3>2. b \in Complete /\ manifest[b] \in newestSeen[r]
      BY <2>6, <3>1 DEF Slipped, Exposed, Under
    <3>3. QED
      BY <2>2, <2>4, <3>1, <3>2
  <2>7. CASE Slipped(r, m) /\ Past(r, m)
    <3>1. look'[r].at = "scan" /\ look'[r].found = Nothing
      BY <2>1, <2>3, <2>7 DEF Past
    <3>2. Past(r, m)'
      BY <1>1, <2>1, <2>7, <3>1, OnlyLooks DEF Past
    <3>3. Exposed(r, m)'
      BY <1>1, <2>1, <2>7, ExposedStays DEF Slipped
    <3>4. QED
      BY <3>1, <3>2, <3>3 DEF Slipped
  <2>8. QED
    BY <2>1, <2>5, <2>6, <2>7 DEF Slipped, Before
<1>4. QED
  BY <1>2, <1>3

\* What a reader knows after it opens, verifies, or ends its scan.
LEMMA ScanKnows ==
  ASSUME ReadsSucceed, Typed, Apex, ReadersInv, NEW r \in Reader,
         Scan(r) \/ ScanEnds(r) \/ Verify(r), newestSeen'[r] = newestSeen[r] \cup {Newest'}
  PROVE  Knows(r)'
<1>1. UNCHANGED disk /\ look[r].at \in {"scan", "verify"} /\ look \in [Reader -> Look]
  BY DEF Scan, ScanEnds, Verify, ReaderStep, Typed
<1>2. look'[r].listed = look[r].listed /\ look'[r].at \in {"scan", "verify", "stable"}
  BY <1>1, ReaderGoes
<1>3. CASE Passed(r)
  <2>1. Complete' = Complete /\ rotten' = rotten
    BY <1>1, OnlyLooks
  <2>2. \A x : Ahead(r, x)' <=> Ahead(r, x)
    BY <1>2 DEF Ahead
  <2>3. Passed(r)'
    BY <1>3, <2>1, <2>2 DEF Passed
  <2>4. QED
    BY <1>2, <2>3 DEF Knows
<1>4. ASSUME NEW m \in look[r].listed, Held(r, m) \/ Slipped(r, m)
      PROVE  Knows(r)'
  <2>1. CASE Scan(r)
    <3>1. Held(r, m)' \/ Slipped(r, m)'
      BY <1>4, <2>1, ScanFinds
    <3>2. look'[r].at \in {"scan", "verify"}
      BY <2>1, ScanOpens
    <3>3. QED
      BY <1>2, <1>4, <3>1, <3>2 DEF Knows
  <2>2. CASE ScanEnds(r) \/ Verify(r)
    <3>1. \/ look'[r].at = "stable" /\ look'[r].found \in newestSeen'[r] \cup {Nothing}
          \/ look'[r].at = "scan" /\ Slipped(r, m)'
      BY <1>4, <2>2, ReadsOn
    <3>2. QED
      BY <1>2, <1>4, <3>1 DEF Knows
  <2>3. QED
    BY <2>1, <2>2
<1>5. QED
  BY <1>1, <1>3, <1>4 DEF ReadersInv, Knows

\* A load begins and begins anew with nothing found.
LEMMA FoundNothing ==
  ASSUME Typed, NEW r \in Reader, BeginRead(r) \/ Stable(r) \/ ReadLegacy(r), look'[r].at = "list"
  PROVE  look'[r].found = Nothing
<1>1. /\ \A x : [NoLook EXCEPT !.found = x].at = "idle"
      /\ \A x, y : [NoLook EXCEPT !.at = "list", !.tries = x, !.loads = y].found = Nothing
      /\ NoLook.found = Nothing
  BY DEF NoLook
<1>2. look[r] \in Look /\ \A new : ReaderStep(r, new) => look'[r] = new
  BY ReaderGoes DEF Typed
<1>3. CASE BeginRead(r)
  <2>1. look'[r] = [NoLook EXCEPT !.at = "list", !.tries = 1, !.loads = 1]
    BY <1>2, <1>3 DEF BeginRead
  <2>2. QED
    BY <1>1, <2>1
<1>4. CASE Stable(r)
  <2>1. \/ look'[r] = [NoLook EXCEPT !.found = look[r].found]
        \/ look'[r] = [NoLook EXCEPT !.at = "list", !.tries = look[r].tries + 1, !.loads = look[r].loads]
        \/ look'[r] = NoLook
    BY <1>2, <1>4 DEF Stable
  <2>2. CASE look'[r] = [NoLook EXCEPT !.found = look[r].found]
    BY <1>1, <2>2
  <2>3. CASE look'[r] = [NoLook EXCEPT !.at = "list", !.tries = look[r].tries + 1, !.loads = look[r].loads]
    BY <1>1, <2>3
  <2>4. QED
    BY <1>1, <2>1, <2>2, <2>3
<1>5. CASE ReadLegacy(r)
  <2>1. LoadAgain(r).found = Nothing
    BY DEF LoadAgain, NoLook
  <2>2. \/ look[r].at = "legacy_index" /\ look'[r] = [look[r] EXCEPT !.at = "legacy_state"]
        \/ look'[r] \in {LoadAgain(r), [NoLook EXCEPT !.found = Legacy]}
    BY <1>2, <1>5 DEF ReadLegacy
  <2>3. look'[r] = LoadAgain(r)
    BY <1>1, <1>2, <2>2 DEF Look
  <2>4. QED
    BY <2>1, <2>3
<1>6. QED
  BY <1>3, <1>4, <1>5

\* A load that ends after a listing like its first was not passed.
LEMMA SameListing ==
  ASSUME Typed, Apex, NEW r \in Reader, Unchanged(r)
  PROVE  ~ Passed(r)
<1>1. Complete \subseteq look[r].listed /\ Complete \subseteq Nat
  BY Numbers DEF Unchanged
<1>2. ASSUME NEW x \in Complete, Ahead(r, x)
      PROVE  FALSE
  <2>1. x < x /\ x \in Nat
    BY <1>1, <1>2 DEF Ahead
  <2>2. QED
    BY <2>1
<1>3. QED
  BY <1>2 DEF Passed

\* What a load that ends returns was the newest, or it returns nothing.
LEMMA LoadEnds ==
  ASSUME Typed, Apex, ReadersInv, NEW r \in Reader, Read(r), look[r].at # "idle", look'[r].at = "idle"
  PROVE  look'[r].found \in newestSeen[r] \cup {Nothing}
<1>1. look \in [Reader -> Look] /\ look[r] \in Look
  BY DEF Typed
<1>2. CASE Stable(r)
  <2>1. CASE Unchanged(r)
    <3>1. look'[r].found = look[r].found
      BY <1>1, <1>2, <2>1 DEF Stable, ReaderStep, NoLook
    <3>2. ~ Passed(r)
      BY <2>1, SameListing
    <3>3. QED
      BY <1>2, <3>1, <3>2 DEF Stable, ReadersInv, Knows
  <2>2. CASE ~ Unchanged(r)
    BY <1>1, <1>2, <2>2 DEF Stable, ReaderStep, NoLook
  <2>3. QED
    BY <2>1, <2>2
<1>3. CASE ReadLegacy(r)
  <2>1. CASE look[r].at = "legacy_state" /\ "state" \in legacy
    BY <1>1, <1>3, <2>1 DEF ReadLegacy, ReaderStep, NoLook, ReadersInv, Knows
  <2>2. CASE ~ (look[r].at = "legacy_state" /\ "state" \in legacy)
    <3>1. look'[r] \in {[look[r] EXCEPT !.at = "legacy_state"], LoadAgain(r)}
      BY <1>1, <1>3, <2>2, ReaderGoes DEF ReadLegacy
    <3>2. [look[r] EXCEPT !.at = "legacy_state"].at = "legacy_state"
      BY <1>1 DEF Look
    <3>3. look'[r] = LoadAgain(r)
      BY <3>1, <3>2
    <3>4. LoadAgain(r).found = Nothing
      BY DEF LoadAgain, NoLook
    <3>5. QED
      BY <3>3, <3>4
  <2>3. QED
    BY <2>1, <2>2
<1>4. CASE BeginRead(r) \/ List(r) \/ Scan(r) \/ ScanEnds(r) \/ Verify(r)
  <2>1. ~ List(r)
    BY <1>1, ReaderGoes DEF List, Look
  <2>2. QED
    BY <1>1, <1>4, <2>1, ReaderGoes
<1>5. QED
  BY <1>2, <1>3, <1>4 DEF Read

\* Who a step is of: a reader that does not read stands still.
LEMMA OthersStand ==
  ASSUME Typed, Next, NEW r \in Reader, ~ Read(r)
  PROVE  look'[r] = look[r]
<1>1. ASSUME NEW q \in Reader, Read(q)
      PROVE  look'[r] = look[r]
  <2>1. q # r /\ look \in [Reader -> Look]
    BY <1>1 DEF Typed
  <2>2. \E new : look' = [look EXCEPT ![q] = new]
    BY <1>1 DEF Read, BeginRead, List, Scan, ScanEnds, Verify, Stable, ReadLegacy, ReaderStep
  <2>3. QED
    BY <2>1, <2>2
<1>2. ASSUME NEW w \in Writer, WriterStep(w)
      PROVE  look' = look
  BY <1>2 DEF WriterStep, SaveStep, BeginSave, BeginLoad, Begin, AssertCurrent, NextSequence,
    StageIndex, StageState, Stage, RenameIndex, RenameState, Rename, CommitManifest,
    CollectOldGenerations, SweepManifest, SweepData, Swept, DeferCleanup, Load, DropLegacy,
    MigrationFails, Crash
<1>3. QED
  BY <1>1, <1>2 DEF Next, Rot

\* What a reader knows after a step of its own.
LEMMA ReadKnows ==
  ASSUME ReadsSucceed, IndInv, BooksInv, ShapeInv, Apex, ReadersInv, Next, NEW r \in Reader, Read(r)
  PROVE  Knows(r)'
<1>1. look \in [Reader -> Look] /\ look[r] \in Look /\ Typed
  BY DEF IndInv, Typed
<1>2. look[r].at # "idle" /\ look'[r].at # "idle" => newestSeen'[r] = newestSeen[r] \cup {Newest'}
  BY DEF Next, Observe
<1>3. CASE List(r)
  <2>1. look[r].at # "idle" /\ look'[r].at # "idle"
    BY <1>1, <1>3 DEF List, ReaderStep, Look
  <2>2. QED
    BY <1>2, <1>3, <2>1, ListKnows
<1>4. CASE Scan(r) \/ ScanEnds(r) \/ Verify(r)
  <2>1. look'[r].at \in {"scan", "verify", "stable"}
    BY <1>1, <1>4, ReaderGoes
  <2>2. look[r].at # "idle"
    BY <1>4 DEF Scan, ScanEnds, Verify
  <2>3. QED
    BY <1>1, <1>2, <1>4, <2>1, <2>2, ScanKnows
<1>5. CASE BeginRead(r) \/ Stable(r)
  <2>1. look'[r].at \in {"idle", "list"}
    BY <1>1, <1>5, ReaderGoes
  <2>2. look'[r].at = "list" => look'[r].found = Nothing
    BY <1>1, <1>5, FoundNothing
  <2>3. QED
    BY <2>1, <2>2 DEF Knows
<1>6. CASE ReadLegacy(r)
  <2>1. look'[r].at \in {"idle", "list"} \/ (look[r].at = "legacy_index" /\ look'[r].at = "legacy_state")
    BY <1>1, <1>6, ReaderGoes
  <2>2. CASE look[r].at = "legacy_index" /\ look'[r].at = "legacy_state"
    <3>1. "index" \in legacy
      <4>1. LoadAgain(r).at \in {"idle", "list"}
        BY DEF LoadAgain, NoLook
      <4>2. "index" \notin legacy => look'[r] = LoadAgain(r)
        BY <1>1, <1>6, <2>2 DEF ReadLegacy, ReaderStep
      <4>3. QED
        BY <2>2, <4>1, <4>2
    <3>2. Legacy \in newestSeen[r]
      BY <2>2, <3>1 DEF ReadersInv, Knows
    <3>3. QED
      BY <1>2, <2>2, <3>2 DEF Knows
  <2>3. CASE look'[r].at \in {"idle", "list"}
    <3>1. look'[r].at = "list" => look'[r].found = Nothing
      BY <1>1, <1>6, FoundNothing
    <3>2. QED
      BY <2>3, <3>1 DEF Knows
  <2>4. QED
    BY <2>1, <2>2, <2>3
<1>7. QED
  BY <1>3, <1>4, <1>5, <1>6 DEF Read

\* What a reader knows stays true, whoever commits, sweeps, migrates or dies, and
\* when a generation goes bad.
LEMMA ReadersHold ==
  ASSUME RotsAtMostOnce, ReadsSucceed, IndInv, BooksInv, ShapeInv, ShapeInv', Apex, Apex', ReadersInv,
         [Next]_vars
  PROVE  ReadersInv'
<1>1. ASSUME NEW r \in Reader, Next
      PROVE  Knows(r)'
  <2>1. Typed /\ Close' /\ Moves
    BY <1>1, StepMoves DEF IndInv, ShapeInv
  <2>2. CASE Read(r)
    BY <1>1, <2>2, ReadKnows
  <2>3. CASE ~ Read(r)
    BY <1>1, <2>1, <2>3, OthersStand, StandingStill
  <2>4. QED
    BY <2>2, <2>3
<1>2. ASSUME NEW r \in Reader, UNCHANGED vars
      PROVE  Knows(r)'
  <2>1. UNCHANGED disk /\ look'[r] = look[r] /\ newestSeen'[r] = newestSeen[r] /\ Knows(r)
    BY <1>2 DEF vars, ReadersInv
  <2>2. /\ UNCHANGED <<manifest, files, legacy, rotten>>
        /\ Manifests' = Manifests /\ Complete' = Complete
        /\ \A m : Under(m)' = Under(m)
        /\ \A m, b : Second(m, b)' <=> Second(m, b)
    BY <2>1, OnlyLooks
  <2>3. /\ Passed(r)' <=> Passed(r)
        /\ \A m : Heads(r, m)' <=> Heads(r, m)
    BY <2>1, <2>2 DEF Passed, Ahead, Heads
  <2>4. \A m : Held(r, m)' <=> Held(r, m)
    BY <2>1, <2>2, <2>3 DEF Held, Ahead
  <2>5. \A m : Slipped(r, m)' <=> Slipped(r, m)
    BY <2>1, <2>2, <2>3 DEF Slipped, Exposed, Before, Past, OnSecond
  <2>6. QED
    BY <2>1, <2>2, <2>3, <2>4, <2>5 DEF Knows
<1>3. QED
  BY <1>1, <1>2 DEF ReadersInv

\* A load without the lock returns what was the newest generation at some moment
\* between its start and its end, or fails, for any number of readers, saves,
\* collections, migrations and deaths in between, and when a generation goes bad
\* on the way (_manifest_set_is_stable, latest).
THEOREM LoadsAreCurrent == ReadsSucceed /\ RotsAtMostOnce => (Spec => LoadIsCurrent)
<1> SUFFICES ASSUME ReadsSucceed, RotsAtMostOnce
             PROVE  Spec => LoadIsCurrent
  OBVIOUS
<1>1. Spec => []IndInv /\ []BooksInv
  BY InvariantHolds, BooksInvariant
<1>2. BooksInv => Apex
  BY ApexFact
<1>3. Init => ShapeInv
  BY StoreAssumption DEF Init, ShapeInv, RotsOnce, Close, Dense, IndexFirst, Follows, Covers, Manifests, Sweeping
<1>4. IndInv /\ IndInv' /\ BooksInv /\ Apex /\ Apex' /\ ShapeInv /\ [Next]_vars => ShapeInv'
  BY ShapeHolds
<1>5. Init => ReadersInv
  BY DEF Init, ReadersInv, Knows, NoLook
<1>6. IndInv /\ BooksInv /\ Apex /\ Apex' /\ ShapeInv /\ ShapeInv' /\ ReadersInv /\ [Next]_vars => ReadersInv'
  BY ReadersHold
<1>7. IndInv /\ Apex /\ ReadersInv /\ [Next]_vars =>
        [\A r \in Reader :
           look[r].at # "idle" /\ look'[r].at = "idle" =>
             look'[r].found \in newestSeen[r] \cup {Nothing}]_vars
  <2> SUFFICES ASSUME IndInv, Apex, ReadersInv, Next, NEW r \in Reader,
                      look[r].at # "idle", look'[r].at = "idle"
               PROVE  look'[r].found \in newestSeen[r] \cup {Nothing}
    OBVIOUS
  <2>1. Typed
    BY DEF IndInv
  <2>2. Read(r)
    BY <2>1, OthersStand
  <2>3. QED
    BY <2>1, <2>2, LoadEnds
<1>8. QED
  BY <1>1, <1>2, <1>3, <1>4, <1>5, <1>6, <1>7, PTL DEF Spec, LoadIsCurrent
=============================================================================
