----------------------------- MODULE Admission ------------------------------
(***************************************************************************)
(* What the facade's memory manager promises (edgeproc/core/memory.py:34,  *)
(* "admission control for declared in-flight task memory"): the tasks in   *)
(* flight fit in the capacity together, and a task is turned away only     *)
(* when it does not fit beside them.                                       *)
(***************************************************************************)
EXTENDS Naturals, FiniteSets

CONSTANTS
  Task,
  Need,      \* the memory each task declares, a natural number
  Capacity   \* what there is, a positive one

\* A set of tasks as the set of the units of memory they declare.
Units(S) == {u \in Task \X (1..Capacity) : u[1] \in S /\ u[2] <= Need[u[1]]}

\* What the tasks of S, none of which needs more than there is, need together.
Total(S) == Cardinality(Units(S))

Fits(t, S) == Need[t] <= Capacity - Total(S)

VARIABLES held, refused

AdmissionInit == held = {} /\ refused = {}

Admit(t) ==
  /\ t \notin held /\ Fits(t, held)
  /\ held' = held \cup {t}
  /\ UNCHANGED refused

Refuse(t) ==
  /\ t \notin held /\ ~Fits(t, held)
  /\ refused' = refused \cup {t}
  /\ UNCHANGED held

Leave(t) ==
  /\ t \in held
  /\ held' = held \ {t}
  /\ UNCHANGED refused

AdmissionNext == \E t \in Task : Admit(t) \/ Refuse(t) \/ Leave(t)

AdmissionSpec == AdmissionInit /\ [][AdmissionNext]_<<held, refused>>
=============================================================================
