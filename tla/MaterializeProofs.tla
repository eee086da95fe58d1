------------------------- MODULE MaterializeProofs -------------------------
(***************************************************************************)
(* Proofs about Materialize: for any commands, releases, files and clashes *)
(* of paths.  The command that writes holds the cache's lock, so what it   *)
(* writes is active as long as it writes.                                  *)
(***************************************************************************)
EXTENDS Materialize, TLAPS

Writes(k) == at[k] \in {"writing"} \cup Path

\* A file of the release that is being written, done with unless it is still
\* to be written or is cut short at this moment.
Written(k) ==
  \A f \in FilesOf[source[k]] \ left[k] : at[k] = f \/ out[f] = source[k]

\* What the command inside the lock knows.
Inside(k) ==
  /\ mutex = k <=> Writes(k)
  /\ Writes(k) => source[k] = active /\ active \in 1..MaxActive /\ Written(k)
  /\ ~Writes(k) => source[k] = 0
  /\ at[k] = "synced" => active \in 1..MaxActive

\* No command and no file is ahead of the cache.
Behind ==
  /\ \A k \in Command : synced[k] <= active
  /\ \A f \in Path : shown[f] <= active /\ out[f] \in {Partial, shown[f]}

MaterializeInv == MaterializeTypeOK /\ Behind /\ \A k \in Command : Inside(k)

-----------------------------------------------------------------------------
\* At first there is no file, and no command knows a release.
LEMMA InitHolds == MaterializeInit => MaterializeInv
<1> SUFFICES ASSUME MaterializeInit
             PROVE  MaterializeInv
  OBVIOUS
<1>1. MaterializeTypeOK
  BY MaterializeAssumption DEF MaterializeInit, MaterializeTypeOK, Missing
<1>2. Behind
  BY DEF MaterializeInit, Behind, Missing
<1>3. \A k \in Command : Inside(k)
  BY MaterializeAssumption DEF MaterializeInit, Inside, Writes
<1>4. QED
  BY <1>1, <1>2, <1>3 DEF MaterializeInv

\* Nobody writes while a sync promotes.
LEMMA SyncKeeps ==
  ASSUME MaterializeInv, NEW k \in Command, Sync(k)
  PROVE  MaterializeInv'
<1> USE DEF MaterializeInv
<1>1. MaterializeTypeOK'
  BY MaterializeAssumption DEF MaterializeTypeOK, Sync
<1>2. active' \in 1..MaxActive /\ active <= active' /\ active \in Nat
  BY DEF Sync, MaterializeTypeOK
<1>3. Behind'
  BY <1>2, MaterializeAssumption DEF Behind, Sync, MaterializeTypeOK, Partial
<1>4. \A j \in Command : ~Writes(j)
  BY MaterializeAssumption DEF Sync, Inside
<1>5. \A j \in Command : ~Writes(j)'
  BY <1>4, MaterializeAssumption DEF Sync, Writes, MaterializeTypeOK
<1>6. \A j \in Command : Inside(j)'
  BY <1>2, <1>4, <1>5 DEF Inside, Sync
<1>7. QED
  BY <1>1, <1>3, <1>6

\* The pointer is read where it cannot change until the files are written.
LEMMA TakeLockKeeps ==
  ASSUME MaterializeInv, NEW k \in Command, TakeLock(k)
  PROVE  MaterializeInv'
<1> USE DEF MaterializeInv
<1>1. active \in 1..MaxActive
  BY DEF TakeLock, Inside
<1>2. MaterializeTypeOK'
  BY <1>1, MaterializeAssumption DEF MaterializeTypeOK, TakeLock
<1>3. Behind'
  BY DEF Behind, TakeLock, Partial
<1>4. Inside(k)'
  BY <1>1 DEF Inside, Writes, Written, TakeLock, MaterializeTypeOK
<1>5. ASSUME NEW j \in Command, j # k
      PROVE  Inside(j)'
  BY <1>5, MaterializeAssumption DEF Inside, Writes, TakeLock, MaterializeTypeOK
<1>6. QED
  BY <1>2, <1>3, <1>4, <1>5

\* A file that is begun is still to be written.
LEMMA StartFileKeeps ==
  ASSUME MaterializeInv, NEW k \in Command, NEW f \in Path, StartFile(k, f)
  PROVE  MaterializeInv'
<1> USE DEF MaterializeInv
<1>1. MaterializeTypeOK'
  BY MaterializeAssumption DEF MaterializeTypeOK, StartFile, Partial
<1>2. Behind'
  BY DEF Behind, StartFile, Partial, MaterializeTypeOK
<1>3. Writes(k) /\ Writes(k)' /\ UNCHANGED <<active, mutex, source>>
  BY DEF StartFile, Writes, MaterializeTypeOK
<1>4. Written(k)'
  <2>1. FilesOf[source[k]] \subseteq Path /\ Written(k)
    BY <1>3, MaterializeAssumption DEF Inside
  <2>2. QED
    BY <1>3, <2>1, MaterializeAssumption DEF Written, StartFile, MaterializeTypeOK
<1>5. Inside(k)'
  BY <1>3, <1>4, MaterializeAssumption DEF Inside, StartFile, MaterializeTypeOK
<1>6. ASSUME NEW j \in Command, j # k
      PROVE  Inside(j)'
  <2>1. at'[j] = at[j] /\ ~Writes(j)
    BY <1>3, <1>6 DEF Inside, StartFile, MaterializeTypeOK
  <2>2. QED
    BY <1>3, <2>1 DEF Inside, Writes
<1>7. QED
  BY <1>1, <1>2, <1>5, <1>6

\* What is completed is completed from the active release, which nothing that
\* was shown before is ahead of.
LEMMA FinishFileKeeps ==
  ASSUME MaterializeInv, NEW k \in Command, FinishFile(k)
  PROVE  MaterializeInv'
<1> USE DEF MaterializeInv
<1>1. at[k] \in Path /\ Writes(k) /\ Writes(k)' /\ UNCHANGED <<active, mutex, source, left>>
  BY DEF FinishFile, Writes, MaterializeTypeOK
<1>2. source[k] = active /\ active \in 1..MaxActive /\ Written(k) /\ active \in Nat
  BY <1>1 DEF Inside
<1>3. shown[at[k]] \in Nat /\ shown[at[k]] <= active
  BY <1>1 DEF Behind, MaterializeTypeOK
<1>4. shown' = [shown EXCEPT ![at[k]] = active] /\ out' = [out EXCEPT ![at[k]] = active]
  <2>1. (IF shown[at[k]] > source[k] THEN shown[at[k]] ELSE source[k]) = active
    BY <1>2, <1>3
  <2>2. QED
    BY <1>2, <2>1 DEF FinishFile
<1>5. MaterializeTypeOK'
  BY <1>1, <1>2, <1>4, MaterializeAssumption DEF MaterializeTypeOK, FinishFile
<1>6. Behind'
  BY <1>1, <1>2, <1>4 DEF Behind, FinishFile, MaterializeTypeOK, Partial
<1>7. Written(k)'
  <2>1. FilesOf[source[k]] \subseteq Path
    BY <1>2, MaterializeAssumption
  <2>2. QED
    BY <1>1, <1>2, <1>4, <2>1, MaterializeAssumption DEF Written, FinishFile, MaterializeTypeOK
<1>8. Inside(k)'
  BY <1>1, <1>2, <1>7, MaterializeAssumption DEF Inside, FinishFile, MaterializeTypeOK
<1>9. ASSUME NEW j \in Command, j # k
      PROVE  Inside(j)'
  <2>1. at'[j] = at[j] /\ ~Writes(j)
    BY <1>1, <1>9 DEF Inside, FinishFile, MaterializeTypeOK
  <2>2. QED
    BY <1>1, <2>1 DEF Inside, Writes
<1>10. QED
  BY <1>5, <1>6, <1>8, <1>9

\* However a command ends, it leaves nothing claimed.
LEMMA EndKeeps ==
  ASSUME MaterializeInv, NEW k \in Command, End(k)
  PROVE  MaterializeInv'
<1> USE DEF MaterializeInv
<1>1. MaterializeTypeOK'
  BY MaterializeAssumption DEF MaterializeTypeOK, End
<1>2. Behind'
  BY DEF Behind, End, MaterializeTypeOK, Partial
<1>3. Inside(k)'
  BY MaterializeAssumption DEF Inside, Writes, End, MaterializeTypeOK
<1>4. ASSUME NEW j \in Command, j # k
      PROVE  Inside(j)'
  BY <1>4, MaterializeAssumption DEF Inside, Writes, Written, End, MaterializeTypeOK
<1>5. QED
  BY <1>1, <1>2, <1>3, <1>4

\* The invariant is inductive, whichever command steps.
LEMMA StepKeeps == MaterializeInv /\ [MaterializeNext]_materializeVars => MaterializeInv'
<1>1. ASSUME MaterializeInv, NEW k \in Command,
             \/ Sync(k) \/ TakeLock(k) \/ FinishFile(k) \/ Done(k) \/ Die(k)
             \/ \E f \in Path : StartFile(k, f)
      PROVE  MaterializeInv'
  BY <1>1, SyncKeeps, TakeLockKeeps, StartFileKeeps, FinishFileKeeps, EndKeeps DEF Done, Die
<1>2. ASSUME MaterializeInv, UNCHANGED materializeVars
      PROVE  MaterializeInv'
  BY <1>2 DEF materializeVars, MaterializeInv, MaterializeTypeOK, Behind, Inside, Writes, Written
<1>3. QED
  BY <1>1, <1>2 DEF MaterializeNext

\* Every variable keeps to its range, and no command is inside the lock of
\* another one or writes anything but the active release (cli/app.py).
THEOREM MaterializeInvariant == MaterializeSpec => []MaterializeInv
BY InitHolds, StepKeeps, PTL DEF MaterializeSpec

\* No file is ever taken back to an older release, whatever commands die or
\* overtake each other.
THEOREM FilesNeverGoBack == MaterializeSpec => []NeverBackward
<1>1. MaterializeInv => NeverBackward
  <2> SUFFICES ASSUME MaterializeInv, NEW k \in Command, source[k] # 0
               PROVE  source[k] >= synced[k]
    BY DEF MaterializeInv, Behind, NeverBackward
  <2>1. source[k] = active /\ active \in Nat /\ synced[k] \in Nat /\ synced[k] <= active
    BY DEF MaterializeInv, Inside, Behind, MaterializeTypeOK
  <2>2. QED
    BY <2>1
<1>2. QED
  BY <1>1, MaterializeInvariant, PTL

\* A command that has nothing left to write leaves all files of the release
\* that is active then, whole.
THEOREM SuccessShowsActive == MaterializeSpec => DoneShowsActive
<1>1. MaterializeInv /\ [MaterializeNext]_materializeVars =>
        \A k \in Command : at[k] = "writing" /\ at'[k] = "idle" /\ left[k] = {}
          => /\ source[k] = active
             /\ \A f \in FilesOf[active] : out[f] = active
  <2> SUFFICES ASSUME MaterializeInv, NEW k \in Command, at[k] = "writing", left[k] = {}
               PROVE  source[k] = active /\ \A f \in FilesOf[active] : out[f] = active
    OBVIOUS
  <2>1. source[k] = active /\ Written(k) /\ active \in 1..MaxActive
    BY DEF MaterializeInv, Inside, Writes
  <2>2. QED
    BY <2>1, MaterializeAssumption DEF Written
<1>2. QED
  BY <1>1, MaterializeInvariant, PTL DEF MaterializeSpec, DoneShowsActive
=============================================================================
