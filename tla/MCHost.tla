------------------------------- MODULE MCHost -------------------------------
(***************************************************************************)
(* Instances for TLC of what has neither a cache nor an index: the facade  *)
(* that runs tasks, and two tools of the repository, the re-pin worker and *)
(* the mutation harness.  They share no state: a behaviour is one of one   *)
(* part, and the others stay as they begin.                                *)
(***************************************************************************)
EXTENDS Facade, Repin, Harness, TLC

CONSTANTS t1, t2, t3, t4, local, other, hatchling, audit, l1, l2, w1, w2, x, y, z, f1, f2

MCTask == {t1, t2, t3, t4}
\* Two tasks fit together, and two do not; one was forged.
MCBudget == (t1 :> 1) @@ (t2 :> 2) @@ (t3 :> 2) @@ (t4 :> 0)
\* A task that both runtimes accept, and tasks that one of them does.
MCAccepts == (local :> {t1, t2, t4}) @@ (other :> {t2, t3})

MCToolOf == (l1 :> hatchling) @@ (l2 :> audit)

\* Two mutations of one function, and one of another.
MCMutation == <<x, y, z>>
MCWhere == (x :> f1) @@ (y :> f1) @@ (z :> f2)

VARIABLE part

hostVars == <<facadeVars, repinVars, harnessVars, part>>

HostInit ==
  /\ part \in {"facade", "repin", "harness"}
  /\ FacadeInit /\ RepinInit /\ HarnessInit

HostNext ==
  /\ UNCHANGED part
  /\ \/ part = "facade" /\ FacadeNext /\ UNCHANGED <<repinVars, harnessVars>>
     \/ part = "repin" /\ RepinNext /\ UNCHANGED <<facadeVars, harnessVars>>
     \/ part = "harness" /\ HarnessNext /\ UNCHANGED <<facadeVars, repinVars>>

HostSpec == HostInit /\ [][HostNext]_hostVars

\* The type invariants of the three parts.
HostTypeOK == FacadeTypeOK /\ RepinTypeOK /\ HarnessTypeOK
=============================================================================
