----------------------------- MODULE Freshness -----------------------------
(***************************************************************************)
(* The anti-rollback rule of the bundle cache: which signed pointer may    *)
(* replace the active one.  A pointer is a record with at least the fields *)
(* version and sequence; two verdicts, one per comparison, are combined    *)
(* fail-closed (edgeproc/bundles/cas.py, edgeproc/bundles/manifest.py).    *)
(***************************************************************************)
EXTENDS Integers

CONSTANTS
  Version,   \* version labels a pointer may carry
  Rank       \* a label's place in the PEP 440 order; labels may share a place

NoSequence == -1     \* the pointer binds no sequence (None in the code)
Unparsable == -1     \* rank of a label that PEP 440 cannot parse

ASSUME RankAssumption == Rank \in [Version -> Nat \cup {Unparsable}]

Verdict == {"fresh", "stale", "undecidable"}

\* Mutant: an equal counter passes.
IsFreshSequenceEqual(incoming, active) ==
  active.sequence = NoSequence \/ incoming.sequence >= active.sequence

(***************************************************************************)
(* An active pointer without a counter is outdated by any incoming one  *)
(* here; SequenceVerdict never asks in that case.                          *)
(***************************************************************************)
IsFreshSequence(incoming, active) ==
  \/ active.sequence = NoSequence
  \/ /\ incoming.sequence # NoSequence
     /\ incoming.sequence > active.sequence

SequenceVerdict(incoming, active) ==
  CASE active.sequence = NoSequence -> "undecidable"
    [] active.sequence # NoSequence /\ IsFreshSequence(incoming, active) -> "fresh"
    [] OTHER -> "stale"

VersionVerdict(incoming, active) ==
  CASE Unparsable \in {Rank[incoming], Rank[active]} -> "undecidable"
    [] Rank[incoming] < Rank[active] -> "stale"
    [] Rank[incoming] = Rank[active] -> "undecidable"
    [] OTHER -> "fresh"

FreshnessProved(sequence, version) ==
  /\ "stale" \notin {sequence, version}
  /\ "fresh" \in {sequence, version}

MayReplace(incoming, active) ==
  \/ incoming = active
  \/ FreshnessProved(SequenceVerdict(incoming, active),
                     VersionVerdict(incoming.version, active.version))

(***************************************************************************)
(* The order promotion climbs: a higher counter, or, as long as neither    *)
(* pointer has one, a higher version.  Not in the code: it is the measure  *)
(* that every promotion turns out to increase.                             *)
(***************************************************************************)
Advances(old, new) ==
  \/ old.sequence < new.sequence
  \/ old.sequence = new.sequence /\ old.sequence = NoSequence
     /\ Rank[old.version] < Rank[new.version]
=============================================================================
