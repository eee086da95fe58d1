---------------------------- MODULE MCCacheSync ----------------------------
(***************************************************************************)
(* Instances of CacheSync for TLC: two processes, three chunks, and        *)
(* releases that share chunks, drop or gain a sequence and carry labels    *)
(* that PEP 440 orders, equates or cannot parse.                           *)
(***************************************************************************)
EXTENDS CacheSync, TLC

CONSTANTS p1, p2, c1, c2, c3, m1, m2, m3, m4

MCPid == {p1, p2}
OnePid == {p1}
MCChunk == {c1, c2, c3}
MCManifest == {m1, m2, m3, m4}

MCChunksOf == (m1 :> {c1, c2}) @@ (m2 :> {c2, c3}) @@ (m3 :> {c1, c3}) @@ (m4 :> {c3})
MCBundleOf == (m1 :> "app") @@ (m2 :> "app") @@ (m3 :> "other") @@ (m4 :> "app")
\* One manifest whose files do not reassemble, one not canonically encoded.
MCSound == MCManifest \ {m4}
MCCanonical == MCManifest \ {m2}
MCSize == (c1 :> 1) @@ (c2 :> 2) @@ (c3 :> 1)

MCVersion == {"1.0", "1.0.0", "2.0", "nightly"}
MCRank == ("1.0" :> 1) @@ ("1.0.0" :> 1) @@ ("2.0" :> 2) @@ ("nightly" :> Unparsable)

Signed(m, v, s) == [manifest |-> m, version |-> v, sequence |-> s,
                    bundle_id |-> "app", signed |-> TRUE]

\* A counter appears with the second release; the third has a version that
\* proves nothing and goes back to the first one's content.
MCRelease == <<Signed(m1, "1.0", NoSequence), Signed(m2, "2.0", 1), Signed(m1, "nightly", 2)>>

\* Every later release is provably fresher than every earlier one.
MCOrderedRelease == <<Signed(m1, "1.0", NoSequence), Signed(m2, "2.0", 1), Signed(m1, "2.0", 2)>>
MCFirstTwo == SubSeq(MCRelease, 1, 2)

\* A release without a counter followed by one that binds a counter.
MCLateSequence == <<Signed(m1, "nightly", NoSequence), Signed(m2, "nightly", 1)>>

\* An unsigned pointer, one for another bundle, and two signed ones: the
\* first's manifest declares another bundle, the second's is unsound.
MCRefused == {[Signed(m2, "2.0", 7) EXCEPT !.signed = FALSE],
              [Signed(m3, "2.0", 7) EXCEPT !.bundle_id = "other"],
              Signed(m3, "2.0", 7), Signed(m4, "2.0", 7)}

\* And one that repeats a counter under a label that proves nothing.
MCForeign == MCRefused \cup {Signed(m1, "nightly", 1)}
NoForeign == {}

MCProcesses == Permutations(MCPid)
=============================================================================
