--------------------------- MODULE DeliveryProofs ---------------------------
(***************************************************************************)
(* Proofs about what MCDelivery puts together, for any values of its       *)
(* constants: each behaviour that TLC explores is one of the publisher's   *)
(* directory, one of the materialized files, one of the trust root and one *)
(* of the chunker, so what PublisherProofs, MaterializeProofs and          *)
(* KeyringProofs prove of the parts holds of the whole.                    *)
(***************************************************************************)
EXTENDS MCDelivery, PublisherProofs, MaterializeProofs, KeyringProofs

\* A part that does not chunk is given files without a byte.
LEMMA EmptyFiles == [v \in Version |-> <<>>] \in [Version -> File]
<1>1. 0 \in 0..MaxLength /\ <<>> \in [1..0 -> Byte]
  BY ChunkingAssumption
<1>2. QED
  BY <1>1 DEF File

\* At first every part is as it begins.
LEMMA DeliveryBegins ==
  DeliveryInit => OriginInit /\ MaterializeInit /\ KeyringInit /\ ChunkingInit
BY EmptyFiles DEF DeliveryInit, ChunkingInit

\* A step of one part is a step of it and leaves the others alone.
LEMMA DeliveryStepsArePartSteps ==
  [DeliveryNext]_deliveryVars =>
    /\ [OriginNext]_originVars /\ [MaterializeNext]_materializeVars
    /\ [KeyringNext]_keyringVars /\ [ChunkingNext]_chunkingVars
BY DEF DeliveryNext, deliveryVars

\* Each behaviour of the model is one of each part: what holds of a part's
\* specification holds of the model that TLC checks.
THEOREM DeliveryBehavesAsParts ==
  DeliverySpec => OriginSpec /\ MaterializeSpec /\ KeyringSpec /\ ChunkingSpec
BY DeliveryBegins, DeliveryStepsArePartSteps, PTL
  DEF DeliverySpec, OriginSpec, MaterializeSpec, KeyringSpec, ChunkingSpec

\* The variables of all four parts have their types in every state; the key
\* ring on disk and those that are pinned trust a key, whatever was revoked.
THEOREM DeliveryTypeCorrect == DeliverySpec => []DeliveryTypeOK
<1>1. OriginInv /\ MaterializeInv /\ KeyringInv /\ ChunkingInv => DeliveryTypeOK
  BY DEF OriginInv, MaterializeInv, KeyringInv, ChunkingInv, DeliveryTypeOK
<1>2. QED
  BY <1>1, DeliveryBehavesAsParts, OriginInvariant, MaterializeInvariant, KeyringInvariant,
    ChunkingInvariant, PTL
=============================================================================
