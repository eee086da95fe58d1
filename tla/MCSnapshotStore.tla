-------------------------- MODULE MCSnapshotStore --------------------------
(***************************************************************************)
(* Instances of SnapshotStore for TLC: two processes that save and load,   *)
(* at most one reader without the lock, and a budget of troubles.          *)
(***************************************************************************)
EXTENDS SnapshotStore, TLC

CONSTANTS w1, w2, r1

MCWriter == {w1, w2}
OneReader == {r1}
NoReader == {}

Troubles(crash, write, read, rot) ==
  ("crash" :> crash) @@ ("write" :> write) @@ ("read" :> read) @@ ("rot" :> rot)

OneDeath == Troubles(1, 0, 0, 0)
DeathsAndRot == Troubles(1, 1, 0, 1)
OneMisread == Troubles(0, 0, 1, 0)

MCWriters == Permutations(MCWriter)
=============================================================================
