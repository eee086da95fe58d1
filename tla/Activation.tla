----------------------------- MODULE Activation -----------------------------
(***************************************************************************)
(* What a device's bundle cache promises its host, with no store, no lock  *)
(* and no network: there is one installed release, an update installs a    *)
(* trusted release in a single step, and only when its freshness is proved.*)
(* CacheSync implements it; a half-written or half-collected release would *)
(* be a value of `installed` that no step of this module can reach.        *)
(***************************************************************************)
EXTENDS Freshness

CONSTANTS
  Trusted,   \* pointers whose signature, identity and content are accepted
  Nothing    \* nothing was ever installed

VARIABLE installed

Init == installed = Nothing

Install(q) ==
  /\ installed # Nothing => MayReplace(q, installed)
  /\ installed' = q

Next == \E q \in Trusted : Install(q)

Spec == Init /\ [][Next]_installed
=============================================================================
