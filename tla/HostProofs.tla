----------------------------- MODULE HostProofs -----------------------------
(***************************************************************************)
(* Proofs about what MCHost puts together, for any values of its           *)
(* constants.  The facade (Facade): for any tasks, runtimes and capacity,  *)
(* the memory manager's count is exact, and the facade implements          *)
(* Admission.  The two tools of the repository that act on their own: the  *)
(* re-pin worker (Repin), for any workers, tools and literals, and the     *)
(* mutation harness (Harness), for any mutations and kills.  At the end,   *)
(* that each behaviour TLC explores is one of each part.                   *)
(***************************************************************************)
EXTENDS MCHost, FiniteSetTheorems, SequenceTheorems, WellFoundedInduction, TLAPS

-----------------------------------------------------------------------------
(***************************************************************************)
(* The facade.                                                             *)
(***************************************************************************)

\* The inductive invariant: the calls in flight fit, and the count is theirs.
FacadeInv ==
  /\ call \in [Task -> Call]
  /\ IsFiniteSet(Admitted!Units(InFlight))
  /\ ReservedExact
  /\ \A t \in InFlight : Budget[t] <= Capacity

-----------------------------------------------------------------------------
(***************************************************************************)
(* What tasks need together: a task more adds its budget, a task less      *)
(* takes it away.                                                          *)
(***************************************************************************)
\* Admission counts as this module does.
LEMMA SameCount == ASSUME NEW S PROVE Admitted!Cardinality(S) = Cardinality(S)
  BY DEF Admitted!Cardinality, Cardinality

\* There are n numbers from 1 to n.
LEMMA UpTo == ASSUME NEW n \in Nat PROVE IsFiniteSet(1..n) /\ Cardinality(1..n) = n
  <1>1. IsFiniteSet(1..n) /\ Cardinality(1..n) = IF 1 > n THEN 0 ELSE n - 1 + 1
    BY FS_Interval
  <1> QED
    BY <1>1

\* The units of one task are as many as it declares.
LEMMA UnitsOfOne ==
  ASSUME NEW t \in Task, Budget[t] <= Capacity
  PROVE  /\ IsFiniteSet(Admitted!Units({t}))
         /\ Cardinality(Admitted!Units({t})) = Budget[t]
  <1> DEFINE U == Admitted!Units({t})
             f == [i \in 1..Budget[t] |-> <<t, i>>]
  <1>1. Budget[t] \in Nat /\ Capacity \in Nat
    BY FacadeAssumption
  <1>2. U = {<<t, i>> : i \in 1..Budget[t]}
    <2>1. ASSUME NEW u \in U PROVE u \in {<<t, i>> : i \in 1..Budget[t]}
      BY <1>1, <2>1 DEF Admitted!Units
    <2>2. ASSUME NEW i \in 1..Budget[t] PROVE <<t, i>> \in U
      BY <1>1, <2>2 DEF Admitted!Units
    <2> QED
      BY <2>1, <2>2
  <1>3. f \in Bijection(1..Budget[t], U)
    <2>1. f \in [1..Budget[t] -> U]
      BY <1>2
    <2>2. \A i, j \in 1..Budget[t] : f[i] = f[j] => i = j
      OBVIOUS
    <2>3. \A u \in U : \E i \in 1..Budget[t] : f[i] = u
      BY <1>2
    <2> HIDE DEF f, U
    <2> QED
      BY <2>1, <2>2, <2>3 DEF Bijection, Injection, Surjection, IsInjective
  <1> HIDE DEF f, U
  <1>4. IsFiniteSet(1..Budget[t]) /\ Cardinality(1..Budget[t]) = Budget[t]
    BY <1>1, UpTo
  <1>5. IsFiniteSet(U) /\ Cardinality(U) = Budget[t]
    BY <1>3, <1>4, FS_Bijection DEF ExistsBijection
  <1> QED
    BY <1>5 DEF U

\* A task more adds its budget to what the tasks need.
LEMMA OneMore ==
  ASSUME NEW S \in SUBSET Task, NEW t \in Task \ S, Budget[t] <= Capacity,
         IsFiniteSet(Admitted!Units(S))
  PROVE  /\ IsFiniteSet(Admitted!Units(S \cup {t}))
         /\ Admitted!Total(S \cup {t}) = Admitted!Total(S) + Budget[t]
  <1>1. Admitted!Units(S \cup {t}) = Admitted!Units(S) \cup Admitted!Units({t})
    BY DEF Admitted!Units
  <1>2. Admitted!Units(S) \cap Admitted!Units({t}) = {}
    BY DEF Admitted!Units
  <1>3. /\ IsFiniteSet(Admitted!Units({t}))
        /\ Cardinality(Admitted!Units({t})) = Budget[t] /\ Budget[t] \in Nat
    BY UnitsOfOne, FacadeAssumption
  <1>4. Cardinality(Admitted!Units(S)) \in Nat
    BY FS_CardinalityType
  <1> QED
    <2> DEFINE A == Admitted!Units(S)
               B == Admitted!Units({t})
    <2>1. /\ IsFiniteSet(A \cup B)
          /\ Cardinality(A \cup B) = Cardinality(A) + Cardinality(B) - Cardinality(A \cap B)
      BY <1>3, FS_Union
    <2>2. Cardinality(A \cap B) = 0
      BY <1>2, FS_EmptySet
    <2>3. Cardinality(A \cup B) = Cardinality(A) + Budget[t]
      BY <1>3, <1>4, <2>1, <2>2
    <2> QED
      BY <1>1, <2>1, <2>3, SameCount DEF Admitted!Total

\* A task less takes its budget away from what the tasks need.
LEMMA OneLess ==
  ASSUME NEW S \in SUBSET Task, NEW t \in S, Budget[t] <= Capacity,
         IsFiniteSet(Admitted!Units(S))
  PROVE  /\ IsFiniteSet(Admitted!Units(S \ {t}))
         /\ Admitted!Total(S \ {t}) = Admitted!Total(S) - Budget[t]
         /\ Admitted!Total(S \ {t}) \in Nat
  <1>1. Admitted!Units(S \ {t}) \in SUBSET Admitted!Units(S)
    BY DEF Admitted!Units
  <1>2. IsFiniteSet(Admitted!Units(S \ {t})) /\ Admitted!Total(S \ {t}) \in Nat
    BY <1>1, FS_Subset, FS_CardinalityType, SameCount DEF Admitted!Total
  <1>3. (S \ {t}) \cup {t} = S
    OBVIOUS
  <1>4. Admitted!Total(S) = Admitted!Total(S \ {t}) + Budget[t]
    BY <1>2, <1>3, OneMore
  <1> QED
    BY <1>2, <1>4, FacadeAssumption

-----------------------------------------------------------------------------
\* How the calls in flight change: a reservation adds one, a release takes
\* one away, and nothing else does either.
LEMMA FlightChanges ==
  ASSUME FacadeInv, [FacadeNext]_facadeVars
  PROVE  /\ call' \in [Task -> Call]
         /\ \/ UNCHANGED <<reserved, InFlight>>
            \/ \E t \in Task \ InFlight : Reserve(t) /\ InFlight' = InFlight \cup {t}
            \/ \E t \in InFlight : Release(t) /\ InFlight' = InFlight \ {t}
  <1>a. call \in [Task -> Call]
    BY DEF FacadeInv
  <1> USE <1>a DEF Call, InFlight
  <1>1. ASSUME NEW r \in Runtime, Register(r)
        PROVE  UNCHANGED <<reserved, InFlight, call>>
    BY <1>1 DEF Register
  <1>2. ASSUME NEW t \in Task,
               Pick(t) \/ NoRuntimeAccepted(t) \/ InvalidBudget(t) \/ TurnAway(t) \/ Execute(t)
                 \/ Emit(t)
        PROVE  UNCHANGED <<reserved, InFlight>> /\ call' \in [Task -> Call]
    <2>1. CASE Pick(t)
      BY <2>1 DEF Pick
    <2>2. CASE NoRuntimeAccepted(t) \/ InvalidBudget(t) \/ TurnAway(t)
      BY <2>2 DEF NoRuntimeAccepted, InvalidBudget, TurnAway, Respond
    <2>3. CASE Execute(t)
      BY <2>3 DEF Execute
    <2>4. CASE Emit(t)
      BY <2>4 DEF Emit
    <2> QED
      BY <1>2, <2>1, <2>2, <2>3, <2>4
  <1>3. ASSUME NEW t \in Task, Reserve(t)
        PROVE  t \notin InFlight /\ InFlight' = InFlight \cup {t} /\ call' \in [Task -> Call]
    BY <1>3 DEF Reserve
  <1>4. ASSUME NEW t \in Task, Release(t)
        PROVE  t \in InFlight /\ InFlight' = InFlight \ {t} /\ call' \in [Task -> Call]
    <2>1. PICK a \in {"over", "answered"} : call' = [call EXCEPT ![t] = a]
      BY <1>4 DEF Release
    <2>2. call[t] = "executed"
      BY <1>4 DEF Release
    <2> QED
      BY <2>1, <2>2
  <1>5. CASE UNCHANGED facadeVars
    BY <1>5 DEF facadeVars
  <1> HIDE DEF InFlight
  <1> QED
    BY <1>1, <1>2, <1>3, <1>4, <1>5 DEF FacadeNext, CallStep

\* At first nothing is in flight and nothing is reserved.
LEMMA FacadeInitInv == FacadeInit => FacadeInv
  <1> SUFFICES ASSUME FacadeInit PROVE FacadeInv
    OBVIOUS
  <1>1. InFlight = {} /\ call \in [Task -> Call]
    BY DEF FacadeInit, InFlight, Call
  <1>2. Admitted!Units({}) = {}
    BY DEF Admitted!Units
  <1>3. Admitted!Total({}) = 0
    BY <1>2, FS_EmptySet, SameCount DEF Admitted!Total
  <1>4. IsFiniteSet(Admitted!Units(InFlight)) /\ Admitted!Total(InFlight) = 0
    BY <1>1, <1>2, <1>3, FS_EmptySet
  <1>5. reserved = 0 /\ Capacity \in Nat
    BY FacadeAssumption DEF FacadeInit
  <1> QED
    BY <1>1, <1>4, <1>5 DEF FacadeInv, ReservedExact

\* The invariant is inductive: only a step that reserves or releases changes what
\* is in flight, and it changes the count by the same.
LEMMA FacadeKept == FacadeInv /\ [FacadeNext]_facadeVars => FacadeInv'
  <1> SUFFICES ASSUME FacadeInv, [FacadeNext]_facadeVars PROVE FacadeInv'
    OBVIOUS
  <1>a. /\ IsFiniteSet(Admitted!Units(InFlight))
        /\ reserved = Admitted!Total(InFlight) /\ reserved \in 0..Capacity
        /\ \A t \in InFlight : Budget[t] <= Capacity
        /\ InFlight \in SUBSET Task /\ Capacity \in Nat
    BY FacadeAssumption DEF FacadeInv, ReservedExact, InFlight
  <1>b. call' \in [Task -> Call]
    BY FlightChanges
  <1>1. CASE UNCHANGED <<reserved, InFlight>>
    <2>1. Admitted!Units(InFlight)' = Admitted!Units(InFlight)
      BY <1>1 DEF Admitted!Units
    <2> QED
      BY <1>a, <1>b, <1>1, <2>1 DEF FacadeInv, ReservedExact, Admitted!Total
  <1>2. ASSUME NEW t \in Task \ InFlight, Reserve(t), InFlight' = InFlight \cup {t}
        PROVE  FacadeInv'
    <2>1. /\ reserved' = reserved + Budget[t] /\ Budget[t] <= Capacity - reserved
          /\ Budget[t] \in Nat
      BY <1>2, FacadeAssumption DEF Reserve
    <2>2. Budget[t] <= Capacity
      BY <1>a, <2>1
    <2>3. /\ IsFiniteSet(Admitted!Units(InFlight \cup {t}))
          /\ Admitted!Total(InFlight \cup {t}) = reserved + Budget[t]
      BY <1>a, <2>2, OneMore
    <2>4. /\ Admitted!Units(InFlight)' = Admitted!Units(InFlight \cup {t})
          /\ Admitted!Total(InFlight)' = Admitted!Total(InFlight \cup {t})
      BY <1>2 DEF Admitted!Units, Admitted!Total
    <2> QED
      BY <1>a, <1>b, <1>2, <2>1, <2>2, <2>3, <2>4 DEF FacadeInv, ReservedExact
  <1>3. ASSUME NEW t \in InFlight, Release(t), InFlight' = InFlight \ {t}
        PROVE  FacadeInv'
    <2>1. reserved' = reserved - Budget[t] /\ Budget[t] \in Nat
      BY <1>a, <1>3, FacadeAssumption DEF Release
    <2>2. /\ IsFiniteSet(Admitted!Units(InFlight \ {t}))
          /\ Admitted!Total(InFlight \ {t}) = reserved - Budget[t]
          /\ Admitted!Total(InFlight \ {t}) \in Nat
      BY <1>a, OneLess
    <2>3. /\ Admitted!Units(InFlight)' = Admitted!Units(InFlight \ {t})
          /\ Admitted!Total(InFlight)' = Admitted!Total(InFlight \ {t})
      BY <1>3 DEF Admitted!Units, Admitted!Total
    <2> QED
      BY <1>a, <1>b, <1>3, <2>1, <2>2, <2>3 DEF FacadeInv, ReservedExact
  <1> QED
    BY <1>1, <1>2, <1>3, FlightChanges

-----------------------------------------------------------------------------
\* The invariant is inductive.
THEOREM FacadeInvariant == FacadeSpec => []FacadeInv
  BY FacadeInitInv, FacadeKept, PTL DEF FacadeSpec

\* memory.py's count is what the tasks in flight declared, and fits.
THEOREM CountIsExact == FacadeSpec => []ReservedExact
  <1>1. FacadeInv => ReservedExact
    BY DEF FacadeInv
  <1> QED
    BY <1>1, FacadeInvariant, PTL

\* The facade is an admission control: each step admits a task that fits,
\* refuses one that does not, lets one leave, or is none of its business.
THEOREM AdmissionImplemented == FacadeSpec => ImplementsAdmission
  <1>1. FacadeInit => Admitted!AdmissionInit
    BY DEF FacadeInit, Admitted!AdmissionInit, InFlight
  <1>2. ASSUME FacadeInv, [FacadeNext]_facadeVars
        PROVE  [Admitted!AdmissionNext]_<<InFlight, turnedAway>>
    <2>a. reserved = Admitted!Total(InFlight) /\ InFlight \in SUBSET Task
      BY <1>2 DEF FacadeInv, ReservedExact, InFlight
    <2>1. ASSUME NEW t \in Task, TurnAway(t) PROVE Admitted!Refuse(t)
      <3>1. t \notin InFlight /\ turnedAway' = turnedAway \cup {t}
        BY <2>1 DEF TurnAway, InFlight
      <3>2. UNCHANGED InFlight
        BY <1>2, <2>1 DEF FacadeInv, TurnAway, Respond, InFlight, Call
      <3>3. ~(Budget[t] <= Capacity - Admitted!Total(InFlight))
        <4>1. Budget[t] > Capacity - reserved /\ reserved \in Int
          BY <1>2, <2>1, FacadeAssumption DEF TurnAway, FacadeInv, ReservedExact
        <4> QED
          BY <2>a, <4>1, FacadeAssumption
      <3> QED
        BY <3>1, <3>2, <3>3 DEF Admitted!Refuse, Admitted!Fits
    <2>2. ASSUME NEW t \in Task \ InFlight, Reserve(t), InFlight' = InFlight \cup {t}
          PROVE  Admitted!Admit(t)
      BY <2>a, <2>2 DEF Reserve, Admitted!Admit, Admitted!Fits
    <2>3. ASSUME NEW t \in InFlight, Release(t), InFlight' = InFlight \ {t}
          PROVE  Admitted!Leave(t)
      BY <2>3 DEF Release, Admitted!Leave
    <2>4. UNCHANGED turnedAway \/ \E t \in Task : TurnAway(t)
      BY <1>2 DEF FacadeNext, CallStep, Register, Pick, NoRuntimeAccepted, InvalidBudget, Reserve,
         Execute, Release, Emit, facadeVars
    <2> QED
      BY <1>2, <2>a, <2>1, <2>2, <2>3, <2>4, FlightChanges DEF Admitted!AdmissionNext
  <1> QED
    BY <1>1, <1>2, FacadeInvariant, PTL
       DEF FacadeSpec, ImplementsAdmission, Admitted!AdmissionSpec


-----------------------------------------------------------------------------
(***************************************************************************)
(* The types of the facade.                                                *)
(***************************************************************************)
\* A set of numbers has a least one.
LEMMA LeastOfNat ==
  ASSUME NEW S \in SUBSET Nat, S # {}
  PROVE  \E i \in S : \A j \in S : i <= j
  <1>1. PICK i \in S : \A j \in S : ~(<<j, i>> \in OpToRel(<, Nat))
    BY NatLessThanWellFounded, WFMin
  <1>2. ASSUME NEW j \in S PROVE i <= j
    <2>1. i \in Nat /\ j \in Nat /\ ~(<<j, i>> \in OpToRel(<, Nat))
      BY <1>1
    <2> QED
      BY <2>1 DEF OpToRel
  <1> QED
    BY <1>2

\* The router answers with a registered runtime, or with none.
LEMMA FirstTyped ==
  ASSUME registry \in Seq(Runtime), NEW t \in Task
  PROVE  First(t) \in Runtime \cup {NoRuntime}
  <1> DEFINE accepting == {i \in DOMAIN registry : t \in Accepts[registry[i]]}
             least == CHOOSE i \in accepting : \A j \in accepting : i <= j
  <1>1. CASE accepting = {}
    BY <1>1 DEF First
  <1>2. CASE accepting # {}
    <2>1. accepting \in SUBSET Nat /\ accepting \subseteq DOMAIN registry
      OBVIOUS
    <2>2. \E i \in accepting : \A j \in accepting : i <= j
      <3> HIDE DEF accepting
      <3> QED
        BY <1>2, <2>1, LeastOfNat
    <2>3. least \in accepting
      BY <2>2
    <2>4. First(t) = registry[least]
      BY <1>2 DEF First
    <2> HIDE DEF accepting, least
    <2> QED
      BY <2>1, <2>3, <2>4
  <1> QED
    BY <1>1, <1>2

\* The ring of the sink never holds more than it may.
LEMMA SinkBounded ==
  ASSUME FacadeTypeOK, NEW t \in Task, Emit(t)
  PROVE  sink' \in Seq(Task) /\ Len(sink') <= SinkMax
  <1>1. sink \in Seq(Task) /\ Len(sink) \in Nat /\ Len(sink) <= SinkMax /\ SinkMax \in Nat \ {0}
    BY FacadeAssumption, LenProperties DEF FacadeTypeOK
  <1>2. CASE Len(sink) < SinkMax
    <2>1. sink' = Append(sink, t)
      BY <1>2 DEF Emit
    <2> QED
      BY <1>1, <1>2, <2>1, AppendProperties
  <1>3. CASE ~(Len(sink) < SinkMax)
    <2>1. sink' = Append(Tail(sink), t) /\ sink # <<>>
      BY <1>1, <1>3 DEF Emit
    <2>2. Tail(sink) \in Seq(Task) /\ Len(Tail(sink)) = Len(sink) - 1
      BY <1>1, <2>1, HeadTailProperties
    <2> QED
      BY <1>1, <2>1, <2>2, AppendProperties
  <1> QED
    BY <1>2, <1>3

\* Every step of the facade keeps the types.
LEMMA FacadeTypesKept == FacadeTypeOK /\ [FacadeNext]_facadeVars => FacadeTypeOK'
  <1> SUFFICES ASSUME FacadeTypeOK, [FacadeNext]_facadeVars PROVE FacadeTypeOK'
    OBVIOUS
  <1>1. ASSUME NEW r \in Runtime, Register(r) PROVE FacadeTypeOK'
    BY <1>1, AppendProperties DEF Register, FacadeTypeOK
  <1>2. ASSUME NEW t \in Task, Pick(t) PROVE FacadeTypeOK'
    BY <1>2, FirstTyped DEF Pick, FacadeTypeOK, Call
  <1>3. ASSUME NEW t \in Task, NoRuntimeAccepted(t) \/ InvalidBudget(t) \/ TurnAway(t)
        PROVE  FacadeTypeOK'
    BY <1>3 DEF NoRuntimeAccepted, InvalidBudget, TurnAway, Respond, FacadeTypeOK, Call, Answer
  <1>4. ASSUME NEW t \in Task, Reserve(t) \/ Execute(t) \/ Release(t) PROVE FacadeTypeOK'
    <2>1. reserved \in Int /\ Budget[t] \in Nat
      BY FacadeAssumption DEF FacadeTypeOK
    <2>2. CASE Reserve(t)
      BY <2>1, <2>2 DEF Reserve, FacadeTypeOK, Call
    <2>3. CASE Execute(t)
      BY <2>3 DEF Execute, FacadeTypeOK, Call, Answer
    <2>4. CASE Release(t)
      <3>1. PICK a \in {"over", "answered"} : call' = [call EXCEPT ![t] = a]
        BY <2>4 DEF Release
      <3> QED
        BY <2>1, <2>4, <3>1 DEF Release, FacadeTypeOK, Call
    <2> QED
      BY <1>4, <2>2, <2>3, <2>4
  <1>5. ASSUME NEW t \in Task, Emit(t) PROVE FacadeTypeOK'
    <2>1. call' \in [Task -> Call] /\ UNCHANGED <<registry, chosen, answer, reserved, turnedAway>>
      BY <1>5 DEF Emit, FacadeTypeOK, Call
    <2> QED
      BY <1>5, <2>1, SinkBounded DEF FacadeTypeOK
  <1>6. CASE UNCHANGED facadeVars
    BY <1>6 DEF facadeVars, FacadeTypeOK
  <1> QED
    BY <1>1, <1>2, <1>3, <1>4, <1>5, <1>6 DEF FacadeNext, CallStep

\* The variables of the facade have their types, the sink among them, which
\* never holds more answers than it may (core/telemetry.py).
THEOREM FacadeTypeCorrect == FacadeSpec => []FacadeTypeOK
  <1>1. FacadeInit => FacadeTypeOK
    BY FacadeAssumption DEF FacadeInit, FacadeTypeOK, Call, Answer
  <1> QED
    BY <1>1, FacadeTypesKept, PTL DEF FacadeSpec

-----------------------------------------------------------------------------
(***************************************************************************)
(* The re-pin worker.                                                      *)
(***************************************************************************)
\* A worker that has committed has moved the branch off the commit it read,
\* and is about to cancel runs of that commit only.
Overtaken(w) ==
  /\ worker[w].at # "resting" => worker[w].sha \in 1..Len(commits)
  /\ worker[w].at \in {"committed", "cancelling"} => worker[w].sha < head
  /\ worker[w].pending \subseteq {worker[w].sha}

\* The branch is at the last commit there was.
RepinInv ==
  /\ RepinTypeOK
  /\ head = Len(commits)
  /\ CommitsPinned
  /\ HeadNotCancelled
  /\ \A w \in Worker : Overtaken(w)

\* A worker at rest is one of the states of a worker.
LEMMA RestingTyped == Resting \in AtWork
BY RepinAssumption DEF Resting, AtWork, Sha

\* The branch begins with one commit of Dependabot's, whose checks run.
LEMMA RepinInitHolds == RepinInit => RepinInv
<1> SUFFICES ASSUME RepinInit
             PROVE  RepinInv
  OBVIOUS
<1> DEFINE first == [lock |-> [t \in Tool |-> FirstVersion],
                     literals |-> [l \in Literal |-> FirstVersion], by |-> "dependabot"]
<1>1. first \in Commit /\ commits = <<first>> /\ ci = <<"live">> /\ head = 1
  BY RepinAssumption DEF RepinInit, Commit
<1>2. commits \in Seq(Commit) /\ Len(commits) = 1 /\ commits[1].by = "dependabot"
  BY <1>1
<1>3. \A w \in Worker : worker[w] = Resting
  BY DEF RepinInit
<1>4. RepinTypeOK
  BY <1>1, <1>2, RepinAssumption DEF RepinInit, RepinTypeOK, Resting, AtWork, Sha, CI
<1>5. CommitsPinned /\ HeadNotCancelled
  BY <1>1, <1>2 DEF CommitsPinned, HeadNotCancelled
<1>6. QED
  BY <1>1, <1>2, <1>3, <1>4, <1>5 DEF RepinInv, Overtaken, Resting

\* A commit that agrees with its lock, or is Dependabot's, may land.
LEMMA LandKeeps ==
  ASSUME RepinInv, NEW commit \in Commit, Land(commit),
         commit.by = "repin" => Stale(commit) = {},
         worker' \in [Worker -> AtWork], \A w \in Worker : Overtaken(w)'
  PROVE  RepinInv'
<1> USE DEF RepinInv
<1> DEFINE n == Len(commits)
<1>1. n \in Nat /\ n < MaxCommits /\ commits \in Seq(Commit) /\ ci \in [1..n -> CI]
  BY DEF Land, RepinTypeOK
<1>2. /\ commits' \in Seq(Commit) /\ Len(commits') = n + 1
      /\ commits'[n + 1] = commit /\ \A i \in 1..n : commits'[i] = commits[i]
  BY <1>1 DEF Land
<1>3. ci \in Seq(CI) /\ Len(ci) = n
  BY <1>1
<1>4. ci' \in [1..n + 1 -> CI] /\ ci'[n + 1] = "live" /\ head' = n + 1
  <2>1. ci' = Append(ci, "live") /\ "live" \in CI /\ head' = n + 1
    BY DEF Land, CI
  <2>2. ci' \in Seq(CI) /\ Len(ci') = n + 1 /\ ci'[n + 1] = "live"
    BY <1>3, <2>1, AppendProperties
  <2>3. QED
    BY <2>1, <2>2, LenProperties
<1>5. RepinTypeOK'
  BY <1>1, <1>2, <1>4, RepinAssumption DEF RepinTypeOK
<1>6. CommitsPinned'
  <2> HIDE DEF n
  <2>1. ASSUME NEW i \in 1..n + 1, commits'[i].by = "repin"
        PROVE  Stale(commits'[i]) = {}
    <3>1. CASE i = n + 1
      BY <1>2, <2>1, <3>1
    <3>2. CASE i # n + 1
      <4>1. i \in 1..n /\ commits'[i] = commits[i]
        BY <1>1, <1>2, <3>2
      <4>2. commits[i].by = "repin" => Stale(commits[i]) = {}
        BY <4>1 DEF CommitsPinned, n
      <4>3. QED
        BY <2>1, <4>1, <4>2
    <3>3. QED
      BY <3>1, <3>2
  <2>2. QED
    BY <1>2, <2>1 DEF CommitsPinned, Stale
<1>7. HeadNotCancelled'
  BY <1>4 DEF HeadNotCancelled
<1>8. QED
  BY <1>2, <1>4, <1>5, <1>6, <1>7

\* Other workers are not disturbed by a longer branch.
LEMMA LongerBranch ==
  ASSUME RepinInv, NEW w \in Worker, worker'[w] = worker[w],
         Len(commits') = Len(commits) + 1, head' = Len(commits) + 1
  PROVE  Overtaken(w)'
BY DEF RepinInv, RepinTypeOK, Overtaken, AtWork, Sha

\* A push moves the branch to its own commit, whose runs are live.
LEMMA PushKeeps == RepinInv /\ Push => RepinInv'
<1> SUFFICES ASSUME RepinInv, Push
             PROVE  RepinInv'
  OBVIOUS
<1> USE DEF RepinInv
<1>1. PICK lock \in [Tool -> ToolVersion] :
        Land([lock |-> lock, literals |-> commits[1].literals, by |-> "dependabot"])
  BY DEF Push
<1> DEFINE commit == [lock |-> lock, literals |-> commits[1].literals, by |-> "dependabot"]
<1>2. commit \in Commit
  <2>1. commits \in Seq(Commit) /\ 1 \in 1..Len(commits)
    BY DEF RepinTypeOK
  <2>2. commits[1] \in Commit
    BY <2>1
  <2>3. QED
    BY <2>2 DEF Commit
<1>3. Len(commits') = Len(commits) + 1 /\ head' = Len(commits) + 1 /\ worker' = worker
  BY <1>1, <1>2 DEF Push, Land, RepinTypeOK
<1>4. \A w \in Worker : Overtaken(w)'
  BY <1>3, LongerBranch
<1>5. worker' \in [Worker -> AtWork]
  BY <1>3 DEF RepinTypeOK
<1>6. QED
  BY <1>1, <1>2, <1>4, <1>5, LandKeeps

\* On top of the head that was read, the literals that were stale there are
\* pinned, and the others already were.
LEMMA RepinnedPinned ==
  ASSUME RepinInv, NEW sha, sha = head
  PROVE  Repinned(sha) \in Commit /\ Stale(Repinned(sha)) = {}
<1>1. commits[head] \in Commit
  BY DEF RepinInv, RepinTypeOK
<1>2. \A l \in Literal : ToolOf[l] \in Tool
  BY RepinAssumption
<1>3. Repinned(sha) \in Commit
  BY <1>1, <1>2 DEF Repinned, Commit
<1>4. Stale(Repinned(sha)) = {}
  BY <1>1, <1>2 DEF Repinned, Stale, Commit
<1>5. QED
  BY <1>3, <1>4

\* The commit of a worker lands on the head it read, and has left it behind.
LEMMA CommitKeeps ==
  ASSUME RepinInv, NEW w \in Worker, CommitOnHead(w) \/ CommitUnheard(w)
  PROVE  RepinInv'
<1> USE DEF RepinInv
<1>1. /\ worker[w].at = "fetched" /\ head = worker[w].sha
      /\ Land(Repinned(worker[w].sha))
      /\ worker' = [worker EXCEPT ![w].at = "committed"] \/ worker' = [worker EXCEPT ![w] = Resting]
  BY DEF CommitOnHead, CommitUnheard, Goto
<1>2. Repinned(worker[w].sha) \in Commit /\ Stale(Repinned(worker[w].sha)) = {}
  BY <1>1, RepinnedPinned
<1>3. Len(commits') = Len(commits) + 1 /\ head' = Len(commits) + 1
  <2>1. commits' = Append(commits, Repinned(worker[w].sha)) /\ head' = Len(commits) + 1
    BY <1>1 DEF Land
  <2>2. commits \in Seq(Commit)
    BY DEF RepinTypeOK
  <2>3. QED
    BY <1>2, <2>1, <2>2, AppendProperties
<1>0. worker \in [Worker -> AtWork] /\ Resting \in AtWork /\ head \in 1..Len(commits)
      /\ Overtaken(w)
  BY RestingTyped DEF RepinTypeOK
<1>4. worker' \in [Worker -> AtWork]
  BY <1>0, <1>1 DEF AtWork
<1>5. Overtaken(w)'
  <2>1. CASE worker' = [worker EXCEPT ![w].at = "committed"]
    <3>1. /\ worker'[w].at = "committed" /\ worker'[w].sha = worker[w].sha
          /\ worker'[w].pending = worker[w].pending
      BY <1>0, <2>1 DEF AtWork
    <3>2. Len(commits) \in Nat /\ worker[w].sha = Len(commits)
      BY <1>0, <1>1 DEF RepinTypeOK
    <3>3. worker[w].sha \in 1..Len(commits') /\ worker[w].sha < head'
      BY <1>0, <1>1, <1>3, <3>2
    <3>4. worker[w].pending \subseteq {worker[w].sha}
      BY <1>0 DEF Overtaken
    <3>5. QED
      BY <3>1, <3>3, <3>4 DEF Overtaken
  <2>2. CASE worker' = [worker EXCEPT ![w] = Resting]
    BY <1>3, <2>2 DEF Overtaken, RepinTypeOK, Resting
  <2>3. QED
    BY <1>1, <2>1, <2>2
<1>6. \A v \in Worker : Overtaken(v)'
  BY <1>1, <1>3, <1>5, LongerBranch DEF RepinTypeOK
<1>7. QED
  BY <1>1, <1>2, <1>4, <1>6, LandKeeps

\* A worker that changes nothing but itself.
LEMMA WorkerKeeps ==
  ASSUME RepinInv, UNCHANGED <<commits, head, ci>>, NEW w \in Worker, NEW new \in AtWork,
         worker' = [worker EXCEPT ![w] = new], Overtaken(w)'
  PROVE  RepinInv'
<1> USE DEF RepinInv
<1>1. RepinTypeOK' /\ \A v \in Worker \ {w} : worker'[v] = worker[v]
  BY DEF RepinTypeOK
<1>2. \A v \in Worker : Overtaken(v)'
  BY <1>1 DEF Overtaken
<1>3. CommitsPinned' /\ HeadNotCancelled' /\ head' = Len(commits')
  BY DEF CommitsPinned, HeadNotCancelled
<1>4. QED
  BY <1>1, <1>2, <1>3

\* A worker that does not commit leaves the branch alone, and cancels runs of the
\* commit it has left behind only.
LEMMA QuietKeeps ==
  ASSUME RepinInv, NEW w \in Worker,
         ReadHead(w) \/ Fetch(w) \/ CommitRefused(w) \/ ListRuns(w) \/ RepinDone(w) \/ Abort(w)
  PROVE  RepinInv'
<1> USE DEF RepinInv
<1>0. worker \in [Worker -> AtWork] /\ Resting \in AtWork /\ head \in 1..Len(commits)
      /\ Len(commits) \in 1..MaxCommits /\ Overtaken(w)
  BY RestingTyped DEF RepinTypeOK
<1>1. UNCHANGED <<commits, head, ci>>
  BY DEF ReadHead, Fetch, CommitRefused, ListRuns, RepinDone, Abort
<1>2. CASE worker' = [worker EXCEPT ![w] = Resting]
  <2>1. Overtaken(w)'
    BY <1>0, <1>1, <1>2 DEF Overtaken, Resting
  <2>2. QED
    BY <1>0, <1>1, <1>2, <2>1, WorkerKeeps
<1>3. CASE ReadHead(w)
  <2> DEFINE new == [at |-> "read", sha |-> head, pending |-> {}]
  <2>1. new \in AtWork
    BY <1>0, RepinAssumption DEF AtWork, Sha
  <2>2. worker' = [worker EXCEPT ![w] = new]
    BY <1>3 DEF ReadHead
  <2>3. Overtaken(w)'
    BY <1>0, <1>1, <2>2 DEF Overtaken
  <2>4. QED
    BY <1>1, <2>1, <2>2, <2>3, WorkerKeeps
<1>4. CASE worker[w].at = "read" /\ Goto(w, "fetched")
  <2> DEFINE new == [worker[w] EXCEPT !.at = "fetched"]
  <2>1. new \in AtWork /\ worker' = [worker EXCEPT ![w] = new]
    BY <1>0, <1>4 DEF AtWork, Goto
  <2>2. Overtaken(w)'
    BY <1>0, <1>1, <1>4, <2>1 DEF Overtaken, AtWork
  <2>3. QED
    BY <1>1, <2>1, <2>2, WorkerKeeps
<1>5. CASE ListRuns(w)
  <2> DEFINE new == [worker[w] EXCEPT !.at = "cancelling",
                                      !.pending = {s \in {worker[w].sha} : ci[s] # "completed"}]
  <2>1. new \in AtWork /\ worker' = [worker EXCEPT ![w] = new]
    BY <1>0, <1>5 DEF AtWork, ListRuns
  <2>2. Overtaken(w)'
    <3>1. worker[w] \in AtWork /\ worker'[w] = new /\ worker[w].at = "committed"
      BY <1>0, <1>5, <2>1 DEF ListRuns
    <3>2. /\ worker'[w].at = "cancelling" /\ worker'[w].sha = worker[w].sha
          /\ worker'[w].pending \subseteq {worker[w].sha}
      BY <3>1 DEF AtWork
    <3>3. QED
      BY <1>0, <1>1, <3>1, <3>2 DEF Overtaken
  <2>3. QED
    BY <1>1, <2>1, <2>2, WorkerKeeps
<1>6. QED
  BY <1>2, <1>3, <1>4, <1>5 DEF Fetch, CommitRefused, RepinDone, Abort

\* What is cancelled is a run of a commit the branch has left.
LEMMA CancelKeeps ==
  ASSUME RepinInv, NEW w \in Worker, NEW sha \in 1..Len(commits), Cancel(w, sha)
  PROVE  RepinInv'
<1> USE DEF RepinInv
<1>1. worker \in [Worker -> AtWork] /\ worker[w].at = "cancelling" /\ sha \in worker[w].pending
      /\ UNCHANGED <<commits, head>> /\ Overtaken(w) /\ head \in 1..Len(commits)
  BY DEF Cancel, RepinTypeOK
<1>2. sha < head
  BY <1>1 DEF Overtaken
<1> DEFINE new == [worker[w] EXCEPT !.pending = @ \ {sha}]
<1>3. new \in AtWork /\ worker' = [worker EXCEPT ![w] = new]
  BY <1>1 DEF AtWork, Cancel
<1>4. ci' \in [1..Len(commits) -> CI] /\ ci'[head] = ci[head]
  <2>1. ci \in [1..Len(commits) -> CI] /\ sha # head
    BY <1>1, <1>2 DEF RepinTypeOK
  <2>2. QED
    BY <1>1, <2>1 DEF Cancel, CI
<1>5. RepinTypeOK'
  BY <1>1, <1>3, <1>4 DEF RepinTypeOK
<1>6. Overtaken(w)'
  BY <1>1, <1>3 DEF Overtaken, AtWork
<1>7. \A v \in Worker : Overtaken(v)'
  BY <1>1, <1>3, <1>6 DEF Overtaken
<1>8. CommitsPinned' /\ HeadNotCancelled' /\ head' = Len(commits')
  BY <1>1, <1>4 DEF CommitsPinned, HeadNotCancelled
<1>9. QED
  BY <1>5, <1>7, <1>8

\* A run that ends by itself was not cancelled.
LEMMA FinishCIKeeps ==
  ASSUME RepinInv, NEW sha \in 1..Len(commits), FinishCI(sha)
  PROVE  RepinInv'
<1> USE DEF RepinInv
<1>1. RepinTypeOK' /\ HeadNotCancelled'
  BY DEF FinishCI, RepinTypeOK, HeadNotCancelled, CI
<1>2. CommitsPinned' /\ (\A w \in Worker : Overtaken(w)') /\ head' = Len(commits')
  BY DEF FinishCI, CommitsPinned, Overtaken
<1>3. QED
  BY <1>1, <1>2

\* Whatever the worker commits lies on the head it read, and whatever it
\* cancels is behind the head (repin_locked_tools.py).
THEOREM RepinInvariant == RepinSpec => []RepinInv
<1>1. ASSUME RepinInv, RepinNext
      PROVE  RepinInv'
  BY <1>1, PushKeeps, FinishCIKeeps, CommitKeeps, QuietKeeps, CancelKeeps DEF RepinNext
<1>2. ASSUME RepinInv, UNCHANGED repinVars
      PROVE  RepinInv'
  BY <1>2 DEF repinVars, RepinInv, RepinTypeOK, CommitsPinned, HeadNotCancelled, Overtaken
<1>3. QED
  BY <1>1, <1>2, RepinInitHolds, PTL DEF RepinSpec

\* In every commit of the worker each literal agrees with the lock beside it.
THEOREM EveryCommitPinned == RepinSpec => []CommitsPinned
BY RepinInvariant, PTL DEF RepinInv

\* The checks of the commit that the branch is at are never cancelled.
THEOREM HeadKeepsItsChecks == RepinSpec => []HeadNotCancelled
BY RepinInvariant, PTL DEF RepinInv

-----------------------------------------------------------------------------
(***************************************************************************)
(* The mutation harness.                                                   *)
(***************************************************************************)
Code == (SUBSET Defect) \cup {NoCode}
Defective == {"written", "purged", "spawned", "scored"}

\* At most one defect.
Single(code) == \A a, b \in code : a = b

\* During a run the file is what it was when the run began, but for the one
\* defect that is measured.
FileKept ==
  /\ baseline \subseteq source
  /\ phase \in {"placing", "restored", "interrupted", "green"} => source = baseline
  /\ phase \in Defective =>
       /\ place \in DOMAIN Mutation /\ Mutation[place] \notin baseline
       /\ original = baseline
       /\ source = baseline \cup {Mutation[place]}
  /\ phase = "restored" => place \in DOMAIN Mutation

\* There is one verdict for each mutation so far.
InStep ==
  /\ phase \in {"placing", "written", "purged", "spawned"} => Len(verdict) = place - 1
  /\ phase \in {"scored", "restored"} => Len(verdict) = place
  /\ phase = "green" => Len(verdict) = Len(Mutation) /\ Clean

\* As long as no run has begun on a file with a defect, no code has two.
SingleDefects == baseline = {} => \A code \in {source, bytecode, stray, loaded} : Single(code)

\* In the function of this defect, code is what one defect more in the file makes.
RunsMutant(code, d) ==
  code # NoCode /\ Within(code, Where[d]) = Within(baseline \cup {d}, Where[d])

\* What was caught was not in the file before, and was in the code that ran,
\* alone if the file had no defect.
CaughtAlone ==
  \A i \in DOMAIN verdict :
    verdict[i] = "CAUGHT" =>
      /\ Mutation[i] \notin baseline /\ ran[i] # NoCode /\ Mutation[i] \in ran[i]
      /\ baseline = {} => Single(ran[i])

\* The tests run some code.
CodeLoaded == phase = "spawned" => loaded # NoCode

HarnessInv ==
  /\ HarnessTypeOK /\ ran \in Seq(Code)
  /\ FileKept /\ InStep /\ CodeLoaded /\ SingleDefects /\ ScoredRanMutant /\ CaughtAlone

\* No code is taken for a set of defects.
LEMMA CodeFacts ==
  /\ NoCode \notin SUBSET Defect /\ Single(NoCode) /\ Single({})
  /\ \A i \in DOMAIN Mutation : Mutation[i] \in Defect
  /\ Len(Mutation) \in Nat /\ DOMAIN Mutation = 1..Len(Mutation)
BY HarnessAssumption, LenProperties DEF Single, NoCode, Defect

\* The harness begins on a file without a defect.
LEMMA HarnessInitHolds == HarnessInit => HarnessInv
<1> SUFFICES ASSUME HarnessInit
             PROVE  HarnessInv
  OBVIOUS
<1>1. HarnessTypeOK /\ ran \in Seq(Code)
  <2>1. verdict = <<>> /\ ran = <<>> /\ place = 1 /\ kills = 0 /\ phase = "ready"
    BY DEF HarnessInit
  <2>2. /\ source \subseteq Defect /\ baseline \subseteq Defect /\ original \subseteq Defect
        /\ {bytecode, stray, loaded} \subseteq (SUBSET Defect) \cup {NoCode}
    BY DEF HarnessInit
  <2>3. verdict \in Seq(Score) /\ ran \in Seq(Code) /\ Len(ran) = Len(verdict)
    BY <2>1
  <2>4. 1 \in 1..Len(Mutation) + 1 /\ 0 \in 0..MaxKills
    BY CodeFacts, HarnessAssumption
  <2>5. QED
    BY <2>1, <2>2, <2>3, <2>4 DEF HarnessTypeOK
<1>2. FileKept /\ InStep /\ CodeLoaded
  BY DEF HarnessInit, FileKept, InStep, CodeLoaded, Defective
<1>3. SingleDefects /\ ScoredRanMutant /\ CaughtAlone
  BY CodeFacts DEF HarnessInit, SingleDefects, ScoredRanMutant, CaughtAlone
<1>4. QED
  BY <1>1, <1>2, <1>3 DEF HarnessInv

\* A run begins with what the file holds, whatever a killed run left there.
LEMMA StartRunKeeps == HarnessInv /\ StartRun => HarnessInv'
<1> SUFFICES ASSUME HarnessInv, StartRun
             PROVE  HarnessInv'
  OBVIOUS
<1> USE DEF HarnessInv
<1>1. HarnessTypeOK' /\ (ran \in Seq(Code))'
  BY CodeFacts DEF StartRun, HarnessTypeOK
<1>2. FileKept' /\ InStep' /\ CodeLoaded'
  BY DEF StartRun, FileKept, InStep, CodeLoaded, Defective
<1>3. SingleDefects'
  BY DEF StartRun, SingleDefects, FileKept
<1>4. ScoredRanMutant' /\ CaughtAlone'
  BY DEF StartRun, ScoredRanMutant, CaughtAlone
<1>5. QED
  BY <1>1, <1>2, <1>3, <1>4

\* A step that gives no verdict says nothing new about the verdicts.
LEMMA VerdictsKept ==
  ASSUME HarnessInv, UNCHANGED <<verdict, ran, baseline>>
  PROVE  /\ (ran \in Seq(Code))' /\ ScoredRanMutant' /\ CaughtAlone'
         /\ (verdict \in Seq(Score) /\ Len(ran) = Len(verdict))'
BY DEF HarnessInv, HarnessTypeOK, ScoredRanMutant, CaughtAlone, Single, Within

\* Code with a fingerprint that only the mutated source has is, in the mutated
\* function, compiled from that source: every other function has the same
\* fingerprint in both sources.
LEMMA ProbeSees ==
  ASSUME NEW code, NEW d, source = original \cup {d}, ProbeOK(code)
  PROVE  Within(code, Where[d]) = Within(source, Where[d])
<1>1. PICK f \in Function : /\ Within(code, f) = Within(source, f)
                           /\ Within(source, f) # Within(original, f)
  BY DEF ProbeOK, Fingerprints
<1>2. f = Where[d]
  BY <1>1 DEF Within
<1>3. QED
  BY <1>1, <1>2

\* One more verdict, about the mutation it is at.
LEMMA OneVerdict ==
  ASSUME HarnessInv, Len(verdict) = place - 1, place \in DOMAIN Mutation, UNCHANGED baseline,
         NEW v \in Score, NEW code \in Code,
         verdict' = Append(verdict, v), ran' = Append(ran, code),
         v # "ERROR" => Mutation[place] \notin baseline /\ RunsMutant(code, Mutation[place]),
         baseline = {} => Single(code)
  PROVE  /\ (ran \in Seq(Code))' /\ ScoredRanMutant' /\ CaughtAlone'
         /\ (verdict \in Seq(Score) /\ Len(ran) = Len(verdict))'
         /\ Len(verdict') = place
<1> USE DEF HarnessInv
<1>1. verdict \in Seq(Score) /\ ran \in Seq(Code) /\ Len(ran) = place - 1 /\ place \in Nat
  BY CodeFacts DEF HarnessTypeOK
<1>2. /\ verdict' \in Seq(Score) /\ ran' \in Seq(Code)
      /\ Len(verdict') = place /\ Len(ran') = place
      /\ \A i \in 1..place - 1 : verdict'[i] = verdict[i] /\ ran'[i] = ran[i]
      /\ verdict'[place] = v /\ ran'[place] = code
  BY <1>1, AppendProperties
<1>3. DOMAIN verdict' = 1..place /\ DOMAIN verdict = 1..place - 1
  BY <1>1, <1>2, LenProperties
<1>4. ScoredRanMutant'
  <2> SUFFICES ASSUME NEW i \in 1..place, verdict'[i] # "ERROR"
               PROVE  RunsMutant(ran'[i], Mutation[i])
    BY <1>3 DEF ScoredRanMutant, RunsMutant, Within
  <2>1. CASE i = place
    BY <1>2, <2>1
  <2>2. CASE i # place
    <3>1. i \in DOMAIN verdict /\ verdict'[i] = verdict[i] /\ ran'[i] = ran[i]
      BY <1>1, <1>2, <1>3, <2>2
    <3>2. QED
      BY <3>1 DEF ScoredRanMutant, RunsMutant
  <2>3. QED
    BY <2>1, <2>2
<1>5. CaughtAlone'
  <2> SUFFICES ASSUME NEW i \in 1..place, verdict'[i] = "CAUGHT"
               PROVE  /\ Mutation[i] \notin baseline /\ ran'[i] # NoCode
                      /\ Mutation[i] \in ran'[i]
                      /\ baseline = {} => Single(ran'[i])
    BY <1>3 DEF CaughtAlone, Single
  <2>1. CASE i = place
    BY <1>2, <2>1 DEF RunsMutant, Within
  <2>2. CASE i # place
    <3>1. i \in DOMAIN verdict /\ verdict'[i] = verdict[i] /\ ran'[i] = ran[i]
      BY <1>1, <1>2, <1>3, <2>2
    <3>2. QED
      BY <3>1 DEF CaughtAlone
  <2>3. QED
    BY <2>1, <2>2
<1>6. QED
  BY <1>2, <1>4, <1>5

\* A mutation whose text is not there gets its verdict without a run.
LEMMA RejectUnusableKeeps == HarnessInv /\ RejectUnusable => HarnessInv'
<1> SUFFICES ASSUME HarnessInv, RejectUnusable
             PROVE  HarnessInv'
  OBVIOUS
<1> USE DEF HarnessInv
<1>1. place \in DOMAIN Mutation /\ place \in Nat /\ Len(verdict) = place - 1
  BY CodeFacts DEF RejectUnusable, InStep, HarnessTypeOK
<1>2. /\ (ran \in Seq(Code))' /\ ScoredRanMutant' /\ CaughtAlone'
      /\ (verdict \in Seq(Score) /\ Len(ran) = Len(verdict))'
      /\ Len(verdict') = place
  <2>1. "ERROR" \in Score /\ NoCode \in Code /\ Single(NoCode)
    BY CodeFacts DEF Score, Code
  <2>2. verdict' = Append(verdict, "ERROR") /\ ran' = Append(ran, NoCode) /\ UNCHANGED baseline
    BY DEF RejectUnusable
  <2>3. QED
    BY <1>1, <2>1, <2>2, OneVerdict
<1>3. HarnessTypeOK'
  BY <1>1, <1>2, CodeFacts DEF RejectUnusable, HarnessTypeOK
<1>4. FileKept' /\ InStep' /\ CodeLoaded' /\ SingleDefects'
  BY <1>1, <1>2 DEF RejectUnusable, FileKept, InStep, CodeLoaded, SingleDefects, Single, Defective
<1>5. QED
  BY <1>2, <1>3, <1>4

\* The exit code of a suite that ran the mutation, or none.
LEMMA ClassifyKeeps == HarnessInv /\ Classify => HarnessInv'
<1> SUFFICES ASSUME HarnessInv, Classify
             PROVE  HarnessInv'
  OBVIOUS
<1> USE DEF HarnessInv
<1>1. /\ place \in DOMAIN Mutation /\ place \in Nat /\ Len(verdict) = place - 1
      /\ original = baseline /\ source = baseline \cup {Mutation[place]}
      /\ Mutation[place] \notin baseline
  BY CodeFacts DEF Classify, FileKept, InStep, HarnessTypeOK, Defective
<1>2. PICK v \in Score : (v = "ERROR" \/ ProbeOK(loaded)) /\ Record(v)
  BY DEF Classify
<1>3. loaded \in Code /\ (baseline = {} => Single(loaded))
  BY DEF HarnessTypeOK, Code, SingleDefects
<1>4. v # "ERROR" => Mutation[place] \notin baseline /\ RunsMutant(loaded, Mutation[place])
  <2>1. v # "ERROR" => ProbeOK(loaded)
    BY <1>2
  <2>2. loaded # NoCode
    BY DEF Classify, CodeLoaded
  <2>3. QED
    BY <1>1, <2>1, <2>2, ProbeSees DEF RunsMutant
<1>5. /\ (ran \in Seq(Code))' /\ ScoredRanMutant' /\ CaughtAlone'
      /\ (verdict \in Seq(Score) /\ Len(ran) = Len(verdict))'
      /\ Len(verdict') = place
  BY <1>1, <1>2, <1>3, <1>4, OneVerdict DEF Classify, Record
<1>6. HarnessTypeOK'
  BY <1>5 DEF Classify, HarnessTypeOK
<1>7. FileKept' /\ InStep' /\ CodeLoaded' /\ SingleDefects'
  BY <1>5 DEF Classify, FileKept, InStep, CodeLoaded, SingleDefects, Single, Defective
<1>8. QED
  BY <1>5, <1>6, <1>7

\* One defect goes into the file.
LEMMA WriteDefectKeeps == HarnessInv /\ WriteDefect => HarnessInv'
<1> SUFFICES ASSUME HarnessInv, WriteDefect
             PROVE  HarnessInv'
  OBVIOUS
<1> USE DEF HarnessInv
<1>1. place \in DOMAIN Mutation /\ Mutation[place] \in Defect /\ source = baseline
  BY CodeFacts DEF WriteDefect, FileKept, HarnessTypeOK
<1>2. UNCHANGED <<verdict, ran, baseline>>
  BY DEF WriteDefect
<1>3. HarnessTypeOK'
  BY <1>1 DEF WriteDefect, HarnessTypeOK
<1>4. FileKept' /\ InStep' /\ CodeLoaded'
  BY <1>1 DEF WriteDefect, FileKept, InStep, CodeLoaded, Defective
<1>5. SingleDefects'
  BY <1>1 DEF WriteDefect, SingleDefects, Single
<1>6. QED
  BY <1>2, <1>3, <1>4, <1>5, VerdictsKept

\* The steps that only move code about, or the harness on.
LEMMA MovesKeep ==
  ASSUME HarnessInv, Purge \/ Spawn \/ Restore \/ PurgeAgain \/ KillHarness
                     \/ StrayCompile \/ StrayWrite
  PROVE  HarnessInv'
<1> USE DEF HarnessInv
<1>1. UNCHANGED <<verdict, ran, baseline>>
  BY DEF Purge, Spawn, Restore, PurgeAgain, KillHarness, StrayCompile, StrayWrite
<1>2. HarnessTypeOK'
  <2>1. CASE Purge \/ Spawn \/ StrayCompile \/ StrayWrite
    BY <1>1, <2>1 DEF Purge, Spawn, StrayCompile, StrayWrite, HarnessTypeOK
  <2>2. CASE Restore
    BY <1>1, <2>2 DEF Restore, HarnessTypeOK
  <2>3. CASE PurgeAgain
    BY <1>1, <2>3, CodeFacts DEF PurgeAgain, HarnessTypeOK, FileKept
  <2>4. CASE KillHarness
    BY <1>1, <2>4, HarnessAssumption DEF KillHarness, HarnessTypeOK
  <2>5. QED
    BY <2>1, <2>2, <2>3, <2>4
<1>3. FileKept'
  BY <1>1 DEF Purge, Spawn, Restore, PurgeAgain, KillHarness, StrayCompile, StrayWrite,
    FileKept, Defective, HarnessTypeOK
<1>4. InStep' /\ CodeLoaded'
  <2>1. InStep'
    BY <1>1, CodeFacts DEF Purge, Spawn, Restore, PurgeAgain, KillHarness, StrayCompile,
      StrayWrite, InStep, Clean, HarnessTypeOK
  <2>2. CodeLoaded'
    BY DEF Purge, Spawn, Restore, PurgeAgain, KillHarness, StrayCompile, StrayWrite, CodeLoaded
  <2>3. QED
    BY <2>1, <2>2
<1>5. SingleDefects'
  BY <1>1, CodeFacts DEF Purge, Spawn, Restore, PurgeAgain, KillHarness, StrayCompile, StrayWrite,
    SingleDefects, FileKept, Single, Defective
<1>6. QED
  BY <1>1, <1>2, <1>3, <1>4, <1>5, VerdictsKept

\* The run ends well only when everything was caught.
LEMMA ExitKeeps == HarnessInv /\ Exit => HarnessInv'
<1> SUFFICES ASSUME HarnessInv, Exit
             PROVE  HarnessInv'
  OBVIOUS
<1> USE DEF HarnessInv
<1>1. UNCHANGED <<source, bytecode, stray, place, baseline, original, loaded, verdict, ran, kills>>
      /\ Len(verdict) = Len(Mutation) /\ source = baseline
  BY CodeFacts DEF Exit, InStep, FileKept, HarnessTypeOK
<1>2. HarnessTypeOK' /\ FileKept'
  BY <1>1 DEF Exit, HarnessTypeOK, FileKept, Defective
<1>3. InStep' /\ CodeLoaded' /\ SingleDefects'
  BY <1>1 DEF Exit, InStep, CodeLoaded, Clean, SingleDefects, Single
<1>4. QED
  BY <1>1, <1>2, <1>3, VerdictsKept

\* One verdict for each mutation, about code that had the mutation in it, and
\* a file that is what it was (mutation_harness.py run_target).
THEOREM HarnessInvariant == HarnessSpec => []HarnessInv
<1>1. ASSUME HarnessInv, HarnessNext
      PROVE  HarnessInv'
  BY <1>1, StartRunKeeps, RejectUnusableKeeps, WriteDefectKeeps, ClassifyKeeps, MovesKeep, ExitKeeps
    DEF HarnessNext
<1>2. ASSUME HarnessInv, UNCHANGED harnessVars
      PROVE  HarnessInv'
  BY <1>2 DEF harnessVars, HarnessInv, HarnessTypeOK, FileKept, InStep, CodeLoaded, Clean, SingleDefects,
    Single, ScoredRanMutant, CaughtAlone, Within
<1>3. QED
  BY <1>1, <1>2, HarnessInitHolds, PTL DEF HarnessSpec

\* No verdict is about code that another interpreter left behind.
THEOREM VerdictsAreAboutMutants == HarnessSpec => []ScoredRanMutant
BY HarnessInvariant, PTL DEF HarnessInv

\* A run that ends well has measured each mutation alone and leaves the file
\* without a defect: what a killed run left there would have been an error.
THEOREM GreenIsClean == HarnessSpec => []GreenMeansClean
<1>1. HarnessInv => GreenMeansClean
  <2> SUFFICES ASSUME HarnessInv, phase = "green"
               PROVE  source = {} /\ ran = [i \in DOMAIN Mutation |-> {Mutation[i]}]
    BY DEF GreenMeansClean
  <2> USE DEF HarnessInv
  <2>1. /\ verdict \in Seq(Score) /\ ran \in Seq(Code)
        /\ Len(verdict) = Len(Mutation) /\ Len(ran) = Len(Mutation)
        /\ \A i \in DOMAIN verdict : verdict[i] = "CAUGHT"
    BY DEF HarnessTypeOK, InStep, Clean
  <2>2. DOMAIN verdict = DOMAIN Mutation /\ DOMAIN ran = DOMAIN Mutation
    BY <2>1, CodeFacts, LenProperties
  <2>3. \A i \in DOMAIN Mutation : Mutation[i] \notin baseline
    BY <2>1, <2>2 DEF CaughtAlone
  <2>4. baseline = {} /\ source = baseline
    BY <2>3 DEF HarnessTypeOK, FileKept, Defect
  <2>5. \A i \in DOMAIN Mutation : ran[i] = {Mutation[i]}
    BY <2>1, <2>2, <2>4 DEF CaughtAlone, Single
  <2>6. QED
    BY <2>1, <2>2, <2>4, <2>5
<1>2. QED
  BY <1>1, HarnessInvariant, PTL

-----------------------------------------------------------------------------
(***************************************************************************)
(* The parts together.                                                     *)
(***************************************************************************)
\* A step of one part is a step of it and leaves the others alone.
LEMMA HostStepsArePartSteps ==
  [HostNext]_hostVars =>
    [FacadeNext]_facadeVars /\ [RepinNext]_repinVars /\ [HarnessNext]_harnessVars
BY DEF HostNext, hostVars

\* Each behaviour of the model is one of the facade, one of the re-pin workers
\* and one of the harness: what holds of a part's specification holds of the
\* model that TLC checks.
THEOREM HostBehavesAsParts == HostSpec => FacadeSpec /\ RepinSpec /\ HarnessSpec
<1>1. HostInit => FacadeInit /\ RepinInit /\ HarnessInit
  BY DEF HostInit
<1>2. QED
  BY <1>1, HostStepsArePartSteps, PTL DEF HostSpec, FacadeSpec, RepinSpec, HarnessSpec

\* The variables of all three parts have their types in every state.
THEOREM HostTypeCorrect == HostSpec => []HostTypeOK
<1>1. RepinInv => RepinTypeOK
  BY DEF RepinInv
<1>2. HarnessInv => HarnessTypeOK
  BY DEF HarnessInv
<1>3. FacadeTypeOK /\ RepinTypeOK /\ HarnessTypeOK => HostTypeOK
  BY DEF HostTypeOK
<1>4. QED
  BY <1>1, <1>2, <1>3, HostBehavesAsParts, FacadeTypeCorrect, RepinInvariant, HarnessInvariant, PTL
=============================================================================
