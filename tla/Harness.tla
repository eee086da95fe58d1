------------------------------- MODULE Harness ------------------------------
(***************************************************************************)
(* The mutation harness: it writes one defect after another into a source  *)
(* file, runs the test suite in a fresh interpreter, and restores the file *)
(* (scripts/mutation_harness.py).  Its own process can be killed, other    *)
(* interpreters leave bytecode behind, and stale bytecode can shadow the   *)
(* source.                                                                 *)
(*                                                                         *)
(* The source of a target, and the code compiled from it, stands for the   *)
(* set of the defects in it.  What the compiler makes of a function is     *)
(* told by the defects in that function; the module's own frame and the    *)
(* bodies of its classes run once, at import, and cannot be looked at.     *)
(***************************************************************************)
EXTENDS Naturals, Sequences

CONSTANTS
  Mutation,  \* the mutations of one target, in their order
  Function,  \* its functions, as the loaded module holds them
  TopLevel,  \* where a defect is that lies in none of them
  Where,     \* the function of a defect, or TopLevel
  MaxKills   \* bound: kills of the harness

Defect == {Mutation[i] : i \in DOMAIN Mutation}

NoCode == {{}}   \* no set of defects

ASSUME HarnessAssumption ==
  /\ Mutation \in Seq(Defect) /\ Len(Mutation) > 0
  /\ NoCode \notin SUBSET Defect
  /\ TopLevel \notin Function
  /\ Where \in [Defect -> Function \cup {TopLevel}]
  /\ MaxKills \in Nat

VARIABLES
  source,    \* the file
  bytecode,  \* its .pyc, or NoCode
  stray,     \* what another interpreter has compiled and not yet written
  phase,     \* where the harness is
  place,     \* the mutation it is at
  baseline,  \* the file as it was when the run began
  original,  \* the file as it was before the defect was written
  loaded,    \* the code that the interpreter of the tests runs
  verdict,   \* the verdicts of this run
  ran,       \* history: the code each verdict is about
  kills

harnessVars == <<source, bytecode, stray, phase, place, baseline, original, loaded, verdict,
                 ran, kills>>

Score == {"CAUGHT", "SURVIVED", "ERROR"}

HarnessInit ==
  /\ source = {} /\ bytecode = NoCode /\ stray = NoCode
  /\ phase = "ready" /\ place = 1
  /\ baseline = {} /\ original = {} /\ loaded = NoCode
  /\ verdict = <<>> /\ ran = <<>>
  /\ kills = 0

StartRun ==
  /\ phase \in {"ready", "killed"}
  /\ baseline' = source
  /\ phase' = "placing" /\ place' = 1
  /\ verdict' = <<>> /\ ran' = <<>>
  /\ UNCHANGED <<source, bytecode, stray, original, loaded, kills>>

Record(v) ==
  /\ verdict' = Append(verdict, v)
  /\ ran' = Append(ran, loaded)

\* The text that the mutation replaces is not there: no file is touched.
RejectUnusable ==
  /\ phase = "placing" /\ place <= Len(Mutation)
  /\ Mutation[place] \in source
  /\ verdict' = Append(verdict, "ERROR") /\ ran' = Append(ran, NoCode)
  /\ place' = place + 1
  /\ UNCHANGED <<source, bytecode, stray, phase, baseline, original, loaded, kills>>

WriteDefect ==
  /\ phase = "placing" /\ place <= Len(Mutation)
  /\ Mutation[place] \notin source
  /\ original' = source
  /\ source' = source \cup {Mutation[place]}
  /\ phase' = "written"
  /\ UNCHANGED <<bytecode, stray, place, baseline, loaded, verdict, ran, kills>>

Purge ==
  /\ phase = "written"
  /\ bytecode' = NoCode
  /\ phase' = "purged"
  /\ UNCHANGED <<source, stray, place, baseline, original, loaded, verdict, ran, kills>>

\* The interpreter compiles the source, unless there is bytecode that bears
\* the same time and size.  It leaves none itself.
Spawn ==
  /\ phase = "purged"
  /\ loaded' \in {source, bytecode} \ {NoCode}
  /\ phase' = "spawned"
  /\ UNCHANGED <<source, bytecode, stray, place, baseline, original, verdict, ran, kills>>

\* What the compiler emits for a function depends on the defects in it only.
Within(code, f) == {d \in code : Where[d] = f}

Fingerprints(code) == {<<f, Within(code, f)>> : f \in Function}

\* Mutant: what both sources compile to is taken for a proof, too.
ProbeAny(code) == Fingerprints(code) \cap Fingerprints(source) # {}

\* The probe in the interpreter: of what only the file as it is compiles to, and
\* not the file before, something is loaded.
ProbeOK(code) == Fingerprints(code) \cap (Fingerprints(source) \ Fingerprints(original)) # {}

\* Some exit code of the suite; one other than 0 and 1 is no measurement.
Classify ==
  /\ phase = "spawned"
  /\ \E v \in Score : (v = "ERROR" \/ ProbeOK(loaded)) /\ Record(v)
  /\ phase' = "scored"
  /\ UNCHANGED <<source, bytecode, stray, place, baseline, original, loaded, kills>>

\* The file comes back before its bytecode goes, and whatever happened.
Restore ==
  /\ phase \in {"written", "purged", "spawned", "scored"}
  /\ source' = original
  /\ phase' = IF phase = "scored" THEN "restored" ELSE "interrupted"
  /\ UNCHANGED <<bytecode, stray, place, baseline, original, loaded, verdict, ran, kills>>

PurgeAgain ==
  /\ phase \in {"restored", "interrupted"}
  /\ bytecode' = NoCode
  /\ loaded' = NoCode
  /\ IF phase = "restored" THEN phase' = "placing" /\ place' = place + 1
     ELSE phase' = "ready" /\ UNCHANGED place
  /\ UNCHANGED <<source, stray, baseline, original, verdict, ran, kills>>

\* Mutant: only a survivor fails the run.
CleanUnlessSurvived == \A i \in DOMAIN verdict : verdict[i] # "SURVIVED"

Clean == \A i \in DOMAIN verdict : verdict[i] = "CAUGHT"

\* The run ends: with 0 only if all were caught and the file is what it was.
Exit ==
  /\ phase = "placing" /\ place > Len(Mutation)
  /\ phase' = IF Clean /\ source = baseline THEN "green" ELSE "red"
  /\ UNCHANGED <<source, bytecode, stray, place, baseline, original, loaded, verdict, ran,
                 kills>>

\* Nothing is restored when the process is killed outright.
KillHarness ==
  /\ phase \notin {"ready", "killed", "green", "red"}
  /\ kills < MaxKills
  /\ kills' = kills + 1
  /\ phase' = "killed" /\ loaded' = NoCode
  /\ UNCHANGED <<source, bytecode, stray, place, baseline, original, verdict, ran>>

\* Another interpreter reads the source, and writes its bytecode later.
StrayCompile ==
  /\ stray = NoCode
  /\ stray' = source
  /\ UNCHANGED <<source, bytecode, phase, place, baseline, original, loaded, verdict, ran, kills>>

StrayWrite ==
  /\ stray # NoCode
  /\ bytecode' = stray /\ stray' = NoCode
  /\ UNCHANGED <<source, phase, place, baseline, original, loaded, verdict, ran, kills>>

HarnessNext ==
  \/ StartRun \/ RejectUnusable \/ WriteDefect \/ Purge \/ Spawn \/ Classify \/ Restore
  \/ PurgeAgain \/ Exit \/ KillHarness \/ StrayCompile \/ StrayWrite

HarnessSpec == HarnessInit /\ [][HarnessNext]_harnessVars

-----------------------------------------------------------------------------
HarnessTypeOK ==
  /\ source \subseteq Defect /\ baseline \subseteq Defect /\ original \subseteq Defect
  /\ {bytecode, stray, loaded} \subseteq (SUBSET Defect) \cup {NoCode}
  /\ phase \in {"ready", "placing", "written", "purged", "spawned", "scored", "restored",
                "interrupted", "killed", "green", "red"}
  /\ place \in 1..Len(Mutation) + 1
  /\ verdict \in Seq(Score) /\ Len(ran) = Len(verdict)
  /\ kills \in 0..MaxKills

\* "Every run carries an in-process probe that proves the interpreter running
\* the tests loaded the MUTATED bytecode" (mutation_harness.py:17): in the
\* mutated function the tests ran the file of this run with this one mutation,
\* whatever other interpreters had compiled before it, between two mutations, or
\* from a defect that a killed run left.
ScoredRanMutant ==
  \A i \in DOMAIN verdict : verdict[i] # "ERROR" =>
    LET f == Where[Mutation[i]] IN
      /\ ran[i] # NoCode
      /\ Within(ran[i], f) = Within(baseline \cup {Mutation[i]}, f)

\* A run that ends well has measured every mutation, each alone, and leaves
\* the file without a defect: also after a killed run left one in it.
GreenMeansClean ==
  phase = "green" =>
    /\ source = {}
    /\ ran = [i \in DOMAIN Mutation |-> {Mutation[i]}]
=============================================================================
