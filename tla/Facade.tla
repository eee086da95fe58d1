------------------------------- MODULE Facade -------------------------------
(***************************************************************************)
(* The runtime facade: EdgeProc.run picks a runtime for a task, reserves   *)
(* the task's memory, runs it and records the answer                       *)
(* (edgeproc/core/facade.py, memory.py, router.py, registry.py and         *)
(* telemetry.py; LocalVecRuntime.execute for what a runtime may do).       *)
(*                                                                         *)
(* Facades on several threads may share the memory manager, so a call can  *)
(* be anywhere between two steps when another one moves.                   *)
(***************************************************************************)
EXTENDS Integers, FiniteSets, Sequences

CONSTANTS
  Task,
  Budget,    \* the memory each task declares; a forged task declares none
  Capacity,
  Runtime,
  Accepts,   \* the tasks that each runtime accepts
  SinkMax,   \* the answers a BufferedSink keeps
  NoRuntime

ASSUME FacadeAssumption ==
  /\ Budget \in [Task -> Nat] /\ Capacity \in Nat \ {0}
  /\ Accepts \in [Runtime -> SUBSET Task] /\ NoRuntime \notin Runtime
  /\ SinkMax \in Nat \ {0}

VARIABLES
  registry,  \* the runtimes in the order of their registration
  call,      \* where the call of each task is
  chosen,    \* the runtime picked for it
  answer,    \* the envelope it returns
  reserved,  \* the manager's count of reserved memory
  sink,      \* the ring of the latest answers
  turnedAway \* history: the tasks that found no room

facadeVars == <<registry, call, chosen, answer, reserved, sink, turnedAway>>

Answer == {"none", "done", "failed", "no_runtime_accepted", "invalid_memory_budget",
           "memory_budget_exceeded", "raised"}

FacadeInit ==
  /\ registry = <<>>
  /\ call = [t \in Task |-> "new"]
  /\ chosen = [t \in Task |-> NoRuntime]
  /\ answer = [t \in Task |-> "none"]
  /\ reserved = 0
  /\ sink = <<>>
  /\ turnedAway = {}

Registered == {registry[i] : i \in DOMAIN registry}

\* A second runtime of the same name is refused.
Register(r) ==
  /\ r \notin Registered
  /\ registry' = Append(registry, r)
  /\ UNCHANGED <<call, chosen, answer, reserved, sink, turnedAway>>

\* The router: the first in registration order that accepts the task.
First(t) ==
  LET accepting == {i \in DOMAIN registry : t \in Accepts[registry[i]]} IN
  IF accepting = {} THEN NoRuntime
  ELSE registry[CHOOSE i \in accepting : \A j \in accepting : i <= j]

Pick(t) ==
  /\ call[t] = "new"
  /\ chosen' = [chosen EXCEPT ![t] = First(t)]
  /\ call' = [call EXCEPT ![t] = "picked"]
  /\ UNCHANGED <<registry, answer, reserved, sink, turnedAway>>

Respond(t, a) ==
  /\ answer' = [answer EXCEPT ![t] = a]
  /\ call' = [call EXCEPT ![t] = "answered"]

NoRuntimeAccepted(t) ==
  /\ call[t] = "picked" /\ chosen[t] = NoRuntime
  /\ Respond(t, "no_runtime_accepted")
  /\ UNCHANGED <<registry, chosen, reserved, sink, turnedAway>>

InvalidBudget(t) ==
  /\ call[t] = "picked" /\ chosen[t] # NoRuntime /\ Budget[t] <= 0
  /\ Respond(t, "invalid_memory_budget")
  /\ UNCHANGED <<registry, chosen, reserved, sink, turnedAway>>

\* Mutant: the comparison is off by one.
ReserveOver(t) ==
  /\ call[t] = "picked" /\ chosen[t] # NoRuntime /\ Budget[t] > 0
  /\ Budget[t] <= Capacity - reserved + 1
  /\ reserved' = reserved + Budget[t]
  /\ call' = [call EXCEPT ![t] = "running"]
  /\ UNCHANGED <<registry, chosen, answer, sink, turnedAway>>

\* The check and the count are one step under the manager's lock.
Reserve(t) ==
  /\ call[t] = "picked" /\ chosen[t] # NoRuntime /\ Budget[t] > 0
  /\ Budget[t] <= Capacity - reserved
  /\ reserved' = reserved + Budget[t]
  /\ call' = [call EXCEPT ![t] = "running"]
  /\ UNCHANGED <<registry, chosen, answer, sink, turnedAway>>

TurnAway(t) ==
  /\ call[t] = "picked" /\ chosen[t] # NoRuntime /\ Budget[t] > 0
  /\ Budget[t] > Capacity - reserved
  /\ turnedAway' = turnedAway \cup {t}
  /\ Respond(t, "memory_budget_exceeded")
  /\ UNCHANGED <<registry, chosen, reserved, sink>>

\* The runtime returns an envelope, or raises: an error it does not turn into
\* an envelope, the cancellation of the call, or the manager's own refusal
\* of a reservation it asked for itself.
Execute(t) ==
  /\ call[t] = "running"
  /\ \E a \in {"done", "failed", "raised", "memory_budget_exceeded"} :
       answer' = [answer EXCEPT ![t] = a]
  /\ call' = [call EXCEPT ![t] = "executed"]
  /\ UNCHANGED <<registry, chosen, reserved, sink, turnedAway>>

\* Mutant: the memory is given back after a return only.
ReleaseReturned(t) ==
  /\ call[t] = "executed"
  /\ reserved' = IF answer[t] \in {"done", "failed"} THEN reserved - Budget[t] ELSE reserved
  /\ call' = [call EXCEPT ![t] = IF answer[t] = "raised" THEN "over" ELSE "answered"]
  /\ UNCHANGED <<registry, chosen, answer, sink, turnedAway>>

\* However the runtime ended, the reservation ends; the refusal of an inner
\* reservation is answered like that of the outer one, and what was raised
\* ends the call without an answer.
Release(t) ==
  /\ call[t] = "executed"
  /\ reserved' = reserved - Budget[t]
  /\ call' = [call EXCEPT ![t] = IF answer[t] = "raised" THEN "over" ELSE "answered"]
  /\ UNCHANGED <<registry, chosen, answer, sink, turnedAway>>

\* Mutant: the sink keeps every answer.
EmitAll(t) ==
  /\ call[t] = "answered"
  /\ sink' = Append(sink, t)
  /\ call' = [call EXCEPT ![t] = "over"]
  /\ UNCHANGED <<registry, chosen, answer, reserved, turnedAway>>

\* The sink drops its oldest answer when it is full.
Emit(t) ==
  /\ call[t] = "answered"
  /\ sink' = IF Len(sink) < SinkMax THEN Append(sink, t) ELSE Append(Tail(sink), t)
  /\ call' = [call EXCEPT ![t] = "over"]
  /\ UNCHANGED <<registry, chosen, answer, reserved, turnedAway>>

CallStep(t) ==
  \/ Pick(t) \/ NoRuntimeAccepted(t) \/ InvalidBudget(t) \/ Reserve(t) \/ TurnAway(t)
  \/ Execute(t) \/ Release(t) \/ Emit(t)

FacadeNext ==
  \/ \E r \in Runtime : Register(r)
  \/ \E t \in Task : CallStep(t)

FacadeSpec == FacadeInit /\ [][FacadeNext]_facadeVars

-----------------------------------------------------------------------------
Call == {"new", "picked", "running", "executed", "answered", "over"}

FacadeTypeOK ==
  /\ registry \in Seq(Runtime)
  /\ call \in [Task -> Call]
  /\ chosen \in [Task -> Runtime \cup {NoRuntime}]
  /\ answer \in [Task -> Answer]
  /\ reserved \in Int
  /\ sink \in Seq(Task) /\ Len(sink) <= SinkMax
  /\ turnedAway \subseteq Task

InFlight == {t \in Task : call[t] \in {"running", "executed"}}

Admitted == INSTANCE Admission WITH Need <- Budget, held <- InFlight, refused <- turnedAway

\* The manager's count is what the tasks in flight declared, no more and no
\* less, and within the capacity: however the calls interleave and end
\* (core/memory.py:34).
ReservedExact == reserved = Admitted!Total(InFlight) /\ reserved \in 0..Capacity

\* Admission control: tasks in flight fit together, and a task is refused
\* only when there is no room for it at that moment: memory that an ended
\* task failed to give back would refuse one that fits.
ImplementsAdmission == Admitted!AdmissionSpec
=============================================================================
