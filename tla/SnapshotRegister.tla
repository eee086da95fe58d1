-------------------------- MODULE SnapshotRegister --------------------------
(***************************************************************************)
(* What the snapshot directory promises the processes that save and load   *)
(* an index in it, with no files and no lock: one current generation, and  *)
(* for each process the generation its index stands on.  A save replaces   *)
(* the current generation in one step, and only by an index that stands on *)
(* it, or on nothing.  SnapshotStore implements it.                        *)
(***************************************************************************)
CONSTANTS
  Writer,      \* processes that save and load
  Generation,  \* what a save can commit
  Nothing      \* no generation

VARIABLES current, base

vars == <<current, base>>

Init ==
  /\ current = Nothing
  /\ base = [w \in Writer |-> Nothing]

Save(w) ==
  /\ base[w] \in {Nothing, current}
  /\ current' \in Generation \ {current}
  /\ UNCHANGED base

\* After its save, or by a load, an index stands on the current generation.
Adopt(w) ==
  /\ base' = [base EXCEPT ![w] = current]
  /\ UNCHANGED current

\* A process starts again with an index of its own.
Restart(w) ==
  /\ base' = [base EXCEPT ![w] = Nothing]
  /\ UNCHANGED current

Next == \E w \in Writer : Save(w) \/ Adopt(w) \/ Restart(w)

Spec == Init /\ [][Next]_vars
=============================================================================
