---------------------------- MODULE KeyringProofs ---------------------------
(***************************************************************************)
(* Proofs about Keyring: for any keys, processes and consumers, however    *)
(* many edits, rotations, failures and kills there are.                    *)
(***************************************************************************)
EXTENDS Keyring, TLAPS

Pending(o) == edit[o].at \in {"read", "opened"}
Creating(o) == edit[o].at = "creating"

\* An edit under way ends in a ring that trusts a key, and until the first ring
\* is written nothing else is under way.
EditsSound ==
  /\ \A o \in Process :
       /\ Pending(o) => /\ Trusted(NewRing(edit[o])) # {} /\ edit[o].kind # "init"
                        /\ ringFile # NoRing
       /\ Creating(o) => /\ Trusted(edit[o].base) # {} /\ edit[o].base.revoked = {}
                         /\ exists /\ ringFile = NoRing
                         /\ \A q \in Process : Creating(q) => q = o
  /\ ~exists => ringFile = NoRing
  /\ ringFile = NoRing => reported = {}

\* What a consumer was sent, the file still has.
Follows(ring) ==
  \/ ring = RingOf({FirstKey})
  \/ ring.keys \subseteq ringFile.keys /\ ring.revoked \subseteq ringFile.revoked

RevocationsGrow ==
  ~overlapped =>
    /\ reported \subseteq ringFile.revoked
    /\ \A c \in Consumer :
         /\ Follows(pinned[c])
         /\ barred[c] \subseteq ringFile.revoked /\ barred[c] \subseteq pinned[c].revoked
    /\ ~breach

\* The publisher's key is in every ring, and only keys it has left are revoked.
SignerPinned ==
  ~overlapped /\ ~emergency =>
    /\ ringFile.revoked \subseteq used \ {signer}
    /\ \A o \in Process : Pending(o) /\ edit[o].kind = "revoke" => edit[o].key \in used \ {signer}
    /\ \A c \in Consumer :
         /\ signer \in pinned[c].keys
         /\ ringFile # NoRing => signer \in ringFile.keys
         /\ \A o \in Process : Creating(o) => signer \in edit[o].base.keys

SignerUsed == {FirstKey, signer} \subseteq used

KeyringInv == KeyringTypeOK /\ EditsSound /\ RevocationsGrow /\ SignerPinned /\ SignerUsed

-----------------------------------------------------------------------------
(***************************************************************************)
(* Lemmas about rings.                                                     *)
(***************************************************************************)
\* A verifier accepts no pointer of a key that its ring revokes.
LEMMA RevokedNeverOk ==
  ASSUME NEW ring \in Ring, NEW by \in ring.revoked, NEW name \in Key \cup {NoKey}
  PROVE  Verdict(ring, by, name) # "ok"
  BY KeyringAssumption DEF Verdict, Trusted, Ring

\* It accepts the pointers of a key that its ring trusts, named or not.
LEMMA TrustedIsOk ==
  ASSUME NEW ring \in Ring, NEW by \in Trusted(ring), NEW name \in {by, NoKey}
  PROVE  Verdict(ring, by, name) = "ok"
  BY KeyringAssumption DEF Verdict, Trusted, Ring

\* An edit yields a ring, with the keys and revocations it had.
LEMMA NewRingGrows ==
  ASSUME NEW e \in Edit, e.kind # "init"
  PROVE  /\ NewRing(e) \in Ring
         /\ e.base.keys \subseteq NewRing(e).keys
         /\ e.base.revoked \subseteq NewRing(e).revoked
         /\ NewRing(e).revoked \subseteq
              e.base.revoked \cup {k \in {e.key} : e.kind = "revoke"}
         /\ e.kind = "revoke" => e.key \in NewRing(e).revoked
         /\ Trusted(NewRing(e)) # {} => NewRing(e) # NoRing
  <1>a. e.base \in Ring /\ e.key \in Key /\ e.kind \in {"init", "add", "revoke"}
    BY DEF Edit
  <1>1. CASE e.kind = "add"
    <2>1. NewRing(e) = [e.base EXCEPT !.keys = e.base.keys \cup {e.key}]
      BY <1>1 DEF NewRing, AddKey
    <2>2. /\ NewRing(e) \in Ring /\ NewRing(e).revoked = e.base.revoked
          /\ NewRing(e).keys = e.base.keys \cup {e.key}
      BY <1>a, <2>1 DEF Ring
    <2> QED
      BY <1>1, <2>2 DEF Trusted, NoRing, RingOf
  <1>2. CASE e.kind = "revoke"
    <2>1. NewRing(e) = [e.base EXCEPT !.revoked = e.base.revoked \cup {e.key}]
      BY <1>2 DEF NewRing, RevokeKey
    <2>2. /\ NewRing(e) \in Ring /\ NewRing(e).keys = e.base.keys
          /\ NewRing(e).revoked = e.base.revoked \cup {e.key}
      BY <1>a, <2>1 DEF Ring
    <2> QED
      BY <1>2, <2>2 DEF Trusted, NoRing, RingOf
  <1> QED
    BY <1>a, <1>1, <1>2

\* The rings and edits that the model names are rings and edits.
LEMMA RingFacts ==
  /\ NoRing \in Ring /\ Trusted(NoRing) = {} /\ NoRing.revoked = {} /\ NoRing.keys = {}
  /\ Idle \in Edit /\ Idle.at = "idle"
  /\ RingOf({FirstKey}).keys = {FirstKey} /\ RingOf({FirstKey}).revoked = {}
  /\ \A S \in SUBSET Key : /\ RingOf(S) \in Ring /\ RingOf(S).keys = S
                           /\ RingOf(S).revoked = {} /\ Trusted(RingOf(S)) = S
  BY KeyringAssumption DEF NoRing, Ring, RingOf, Trusted, Idle, Edit

-----------------------------------------------------------------------------
\* At first there is a ring of one key, which the publisher holds.
LEMMA KeyringInitInv == KeyringInit => KeyringInv
  <1> SUFFICES ASSUME KeyringInit PROVE KeyringInv
    OBVIOUS
  <1> USE RingFacts, KeyringAssumption DEF KeyringInit
  <1>1. KeyringTypeOK
    <2>1. {FirstKey} \in SUBSET Key
      OBVIOUS
    <2>2. pinned \in [Consumer -> Ring] /\ \A c \in Consumer : Trusted(pinned[c]) = {FirstKey}
      BY <2>1
    <2>3. edit \in [Process -> Edit] /\ edits \in 0..MaxEdits
      OBVIOUS
    <2> QED
      BY <2>1, <2>2, <2>3 DEF KeyringTypeOK
  <1>2. EditsSound /\ RevocationsGrow /\ SignerUsed
    BY DEF EditsSound, Pending, Creating, RevocationsGrow, Follows, SignerUsed
  <1>3. SignerPinned
    BY DEF SignerPinned, Pending, Creating
  <1> QED
    BY <1>1, <1>2, <1>3 DEF KeyringInv

-----------------------------------------------------------------------------
\* The edit of one process moves.
LEMMA EditMoves ==
  ASSUME KeyringInv, NEW o \in Process, NEW e \in Edit, edit' = [edit EXCEPT ![o] = e]
  PROVE  /\ edit' \in [Process -> Edit] /\ edit'[o] = e
         /\ \A q \in Process \ {o} : edit'[q] = edit[q]
  BY DEF KeyringInv, KeyringTypeOK

\* No step leads out of the ranges.
LEMMA KeyringTypes == KeyringInv /\ [KeyringNext]_keyringVars => KeyringTypeOK'
  <1> SUFFICES ASSUME KeyringInv, [KeyringNext]_keyringVars PROVE KeyringTypeOK'
    OBVIOUS
  <1>a. KeyringTypeOK /\ EditsSound
    BY DEF KeyringInv
  <1>b. Idle \in Edit
    BY RingFacts
  <1> USE <1>a DEF KeyringTypeOK, fileVars, consumerVars, signerVars
  <1>1. ASSUME NEW o \in Process, NEW S \in SUBSET Key, CreateFile(o, S) PROVE KeyringTypeOK'
    <2>1. [Idle EXCEPT !.at = "creating", !.base = RingOf(S)] \in Edit
      BY RingFacts DEF Edit
    <2> QED
      BY <1>1, <2>1, KeyringAssumption DEF CreateFile, Start
  <1>2. ASSUME NEW o \in Process, FinishCreate(o) PROVE KeyringTypeOK'
    <2>1. edit[o].base \in Ring /\ Trusted(edit[o].base) # {}
      BY <1>2 DEF FinishCreate, EditsSound, Creating, Edit
    <2> QED
      BY <1>2, <2>1, <1>b DEF FinishCreate
  <1>3. ASSUME NEW o \in Process, NEW k \in Key, ReadToAdd(o, k) PROVE KeyringTypeOK'
    <2>1. [at |-> "read", kind |-> "add", key |-> k, base |-> ringFile] \in Edit
      BY DEF Edit
    <2> QED
      BY <1>3, <2>1, KeyringAssumption DEF ReadToAdd, Start
  <1>4. ASSUME NEW o \in Process, NEW k \in Key, ReadToRevoke(o, k) PROVE KeyringTypeOK'
    <2>1. [at |-> "read", kind |-> "revoke", key |-> k, base |-> ringFile] \in Edit
      BY DEF Edit
    <2>2. emergency' \in BOOLEAN
      BY <1>4 DEF ReadToRevoke
    <2> QED
      BY <1>4, <2>1, <2>2, KeyringAssumption DEF ReadToRevoke, Start
  <1>5. ASSUME NEW o \in Process, NEW k \in Key, RevokeAgain(o, k) PROVE KeyringTypeOK'
    BY <1>5, KeyringAssumption DEF RevokeAgain, Start
  <1>6. ASSUME NEW o \in Process, OpenTemporary(o) PROVE KeyringTypeOK'
    <2>1. [edit[o] EXCEPT !.at = "opened"] \in Edit
      BY DEF Edit
    <2>2. \E e \in Edit : edit' = [edit EXCEPT ![o] = e]
      BY <1>6, <2>1, <1>b DEF OpenTemporary
    <2>3. temporaries' \subseteq Process
      BY <1>6 DEF OpenTemporary
    <2> QED
      BY <1>6, <2>2, <2>3 DEF OpenTemporary
  <1>7. ASSUME NEW o \in Process, Replace(o) PROVE KeyringTypeOK'
    <2>1. /\ NewRing(edit[o]) \in Ring /\ Trusted(NewRing(edit[o])) # {}
          /\ edit[o].key \in Key
      <3>1. edit[o] \in Edit /\ Pending(o)
        BY <1>7 DEF Replace, Pending
      <3> QED
        BY <3>1, NewRingGrows DEF EditsSound, Edit
    <2>2. overlapped' \in BOOLEAN
      BY <1>7 DEF Replace
    <2> QED
      BY <1>7, <2>1, <2>2, <1>b DEF Replace
  <1>8. ASSUME NEW o \in Process, FailWrite(o) \/ Kill(o) PROVE KeyringTypeOK'
    BY <1>8, <1>b DEF FailWrite, Kill
  <1>9. ASSUME NEW c \in Consumer, Ship(c) PROVE KeyringTypeOK'
    <2>1. ringFile.revoked \subseteq Key
      BY DEF Ring
    <2> QED
      BY <1>9, <2>1 DEF Ship
  <1>10. ASSUME NEW c \in Consumer, NEW by \in Key, NEW name \in Key \cup {NoKey},
                CheckPointer(c, by, name)
         PROVE  KeyringTypeOK'
    <2>1. breach' \in BOOLEAN
      BY <1>10 DEF CheckPointer
    <2> QED
      BY <1>10, <2>1 DEF CheckPointer
  <1>11. ASSUME NEW k \in Key, SwitchSigner(k) PROVE KeyringTypeOK'
    BY <1>11 DEF SwitchSigner
  <1>12. CASE UNCHANGED keyringVars
    BY <1>12 DEF keyringVars
  <1> QED
    BY <1>1, <1>2, <1>3, <1>4, <1>5, <1>6, <1>7, <1>8, <1>9, <1>10, <1>11, <1>12
       DEF KeyringNext, EditStep, ConsumerStep

\* Once there is a ring, there is one for good.
LEMMA RingStays == KeyringInv /\ [KeyringNext]_keyringVars /\ ringFile # NoRing => ringFile' # NoRing
  <1> SUFFICES ASSUME KeyringInv, [KeyringNext]_keyringVars, ringFile # NoRing
               PROVE  ringFile' # NoRing
    OBVIOUS
  <1>a. KeyringTypeOK /\ EditsSound
    BY DEF KeyringInv
  <1> USE <1>a DEF fileVars, consumerVars, signerVars
  <1>1. ASSUME NEW o \in Process, EditStep(o), UNCHANGED ringFile \/ FinishCreate(o) \/ Replace(o)
        PROVE  ringFile' # NoRing
    <2>1. CASE FinishCreate(o)
      BY <2>1 DEF FinishCreate, EditsSound, Creating
    <2>2. CASE Replace(o)
      <3>1. edit[o] \in Edit /\ Pending(o)
        BY <2>2 DEF Replace, Pending, KeyringTypeOK
      <3> QED
        BY <2>2, <3>1, NewRingGrows DEF Replace, EditsSound
    <2> QED
      BY <1>1, <2>1, <2>2
  <1>2. ASSUME NEW o \in Process, EditStep(o)
        PROVE  UNCHANGED ringFile \/ FinishCreate(o) \/ Replace(o)
    BY <1>2 DEF EditStep, CreateFile, ReadToAdd, ReadToRevoke, RevokeAgain, OpenTemporary,
       FailWrite, Kill
  <1>3. ASSUME NEW c \in Consumer, ConsumerStep(c) PROVE ringFile' # NoRing
    BY <1>3 DEF ConsumerStep, Ship, CheckPointer
  <1>4. ASSUME NEW k \in Key, SwitchSigner(k) PROVE ringFile' # NoRing
    BY <1>4 DEF SwitchSigner
  <1>5. CASE UNCHANGED keyringVars
    BY <1>5 DEF keyringVars
  <1> QED
    BY <1>1, <1>2, <1>3, <1>4, <1>5 DEF KeyringNext

\* An edit of the file is sound to its end.
LEMMA EditsStaySound == KeyringInv /\ [KeyringNext]_keyringVars => EditsSound'
  <1> SUFFICES ASSUME KeyringInv, [KeyringNext]_keyringVars PROVE EditsSound'
    OBVIOUS
  <1>a. KeyringTypeOK /\ EditsSound
    BY DEF KeyringInv
  <1>b. Idle \in Edit /\ Idle.at = "idle"
    BY RingFacts
  <1>c. ringFile # NoRing => ringFile' # NoRing
    BY RingStays
  <1>e. ASSUME UNCHANGED <<exists, ringFile, reported>>,
               \A q \in Process : edit'[q] = Idle \/ edit'[q] = edit[q]
        PROVE  EditsSound'
    <2>1. ASSUME NEW q \in Process, Pending(q)'
          PROVE  Trusted(NewRing(edit'[q])) # {} /\ edit'[q].kind # "init" /\ ringFile' # NoRing
      BY <1>a, <1>b, <1>e, <2>1 DEF EditsSound, Pending
    <2>2. \A q \in Process : Creating(q)' => Creating(q) /\ edit'[q] = edit[q]
      BY <1>b, <1>e DEF Creating
    <2>3. ASSUME NEW q \in Process, Creating(q)'
          PROVE  /\ Trusted(edit'[q].base) # {} /\ edit'[q].base.revoked = {}
                 /\ exists' /\ ringFile' = NoRing
                 /\ \A p \in Process : Creating(p)' => p = q
      BY <1>a, <1>e, <2>2, <2>3 DEF EditsSound
    <2>4. (~exists' => ringFile' = NoRing) /\ (ringFile' = NoRing => reported' = {})
      BY <1>a, <1>e DEF EditsSound
    <2> QED
      BY <2>1, <2>3, <2>4 DEF EditsSound
  <1> USE <1>a, <1>b DEF EditsSound, Pending, Creating, KeyringTypeOK, fileVars
  <1>1. ASSUME NEW o \in Process, NEW S \in SUBSET Key, CreateFile(o, S) PROVE EditsSound'
    <2> DEFINE e == [Idle EXCEPT !.at = "creating", !.base = RingOf(S)]
    <2>1. /\ e \in Edit /\ e.at = "creating" /\ e.base.revoked = {}
          /\ Trusted(e.base) = S
      BY RingFacts DEF Edit
    <2>2. edit' = [edit EXCEPT ![o] = e] /\ S # {} /\ exists' /\ ringFile = NoRing
      BY <1>1 DEF CreateFile
    <2> HIDE DEF e
    <2> QED
      BY <1>1, <2>1, <2>2 DEF CreateFile
  <1>2. ASSUME NEW o \in Process, FinishCreate(o) PROVE EditsSound'
    <2>1. /\ exists /\ ringFile = NoRing /\ ringFile' # NoRing
          /\ \A q \in Process \ {o} : ~Creating(q) /\ ~Pending(q)
      BY <1>2, RingFacts DEF FinishCreate
    <2> QED
      BY <1>2, <2>1 DEF FinishCreate
  <1>3. ASSUME NEW o \in Process, NEW k \in Key, ReadToAdd(o, k) PROVE EditsSound'
    <2> DEFINE e == [at |-> "read", kind |-> "add", key |-> k, base |-> ringFile]
    <2>1. /\ e \in Edit /\ e.at = "read" /\ e.kind = "add"
          /\ NewRing(e) = AddKey(ringFile, k)
      BY DEF Edit, NewRing
    <2>2. edit' = [edit EXCEPT ![o] = e] /\ Trusted(AddKey(ringFile, k)) # {}
      BY <1>3 DEF ReadToAdd, Valid
    <2> HIDE DEF e
    <2> QED
      BY <1>3, <2>1, <2>2 DEF ReadToAdd
  <1>4. ASSUME NEW o \in Process, NEW k \in Key, ReadToRevoke(o, k) PROVE EditsSound'
    <2> DEFINE e == [at |-> "read", kind |-> "revoke", key |-> k, base |-> ringFile]
    <2>1. /\ e \in Edit /\ e.at = "read" /\ e.kind = "revoke"
          /\ NewRing(e) = RevokeKey(ringFile, k)
      BY DEF Edit, NewRing
    <2>2. edit' = [edit EXCEPT ![o] = e] /\ Trusted(RevokeKey(ringFile, k)) # {}
      BY <1>4 DEF ReadToRevoke, Valid
    <2> HIDE DEF e
    <2> QED
      BY <1>4, <2>1, <2>2 DEF ReadToRevoke
  <1>5. ASSUME NEW o \in Process, NEW k \in Key, RevokeAgain(o, k) PROVE EditsSound'
    BY <1>5 DEF RevokeAgain
  <1>6. ASSUME NEW o \in Process, OpenTemporary(o) PROVE EditsSound'
    <2>1. CASE edit' = [edit EXCEPT ![o] = Idle]
      BY <1>6, <2>1 DEF OpenTemporary
    <2>2. CASE edit' = [edit EXCEPT ![o].at = "opened"]
      <3>1. /\ edit'[o].at = "opened" /\ edit'[o].kind = edit[o].kind
            /\ NewRing(edit'[o]) = NewRing(edit[o]) /\ edit[o].at = "read"
        BY <1>6, <2>2 DEF OpenTemporary, NewRing, Edit
      <3>2. \A q \in Process \ {o} : edit'[q] = edit[q]
        BY <2>2
      <3> QED
        BY <1>6, <3>1, <3>2 DEF OpenTemporary
    <2> QED
      BY <1>6, <2>1, <2>2 DEF OpenTemporary
  <1>7. ASSUME NEW o \in Process, Replace(o) PROVE EditsSound'
    <2>1. edit'[o] = Idle /\ \A q \in Process \ {o} : edit'[q] = edit[q]
      BY <1>7, EditMoves DEF Replace
    <2>2. ringFile # NoRing /\ exists
      BY <1>7 DEF Replace
    <2> QED
      BY <1>7, <1>c, <2>1, <2>2 DEF Replace
  <1>8. ASSUME NEW o \in Process, FailWrite(o) \/ Kill(o) PROVE EditsSound'
    <2>1. edit'[o] = Idle /\ \A q \in Process \ {o} : edit'[q] = edit[q]
      BY <1>8, EditMoves DEF FailWrite, Kill
    <2>2. UNCHANGED <<exists, ringFile, reported>>
      BY <1>8 DEF FailWrite, Kill
    <2>3. \A q \in Process : edit'[q] = Idle \/ edit'[q] = edit[q]
      BY <2>1
    <2> QED
      BY <1>e, <2>2, <2>3
  <1>9. ASSUME NEW c \in Consumer, ConsumerStep(c) PROVE EditsSound'
    BY <1>9, <1>e DEF ConsumerStep, Ship, CheckPointer
  <1>10. ASSUME NEW k \in Key, SwitchSigner(k) PROVE EditsSound'
    BY <1>10, <1>e DEF SwitchSigner
  <1>11. CASE UNCHANGED keyringVars
    BY <1>11, <1>e DEF keyringVars
  <1> QED
    BY <1>1, <1>2, <1>3, <1>4, <1>5, <1>6, <1>7, <1>8, <1>9, <1>10, <1>11
       DEF KeyringNext, EditStep

\* As long as no two edits overlap the file gains keys and revocations.
LEMMA RingGrows ==
  ASSUME KeyringInv, [KeyringNext]_keyringVars, ~overlapped'
  PROVE  /\ ~overlapped
         /\ ringFile.keys \subseteq ringFile'.keys /\ ringFile.revoked \subseteq ringFile'.revoked
  <1>a. KeyringTypeOK /\ EditsSound
    BY DEF KeyringInv
  <1>b. overlapped \in BOOLEAN
    BY <1>a DEF KeyringTypeOK
  <1> USE <1>a DEF fileVars, consumerVars, signerVars
  <1>1. ASSUME NEW o \in Process, FinishCreate(o)
        PROVE  /\ ~overlapped
               /\ ringFile.keys \subseteq ringFile'.keys
               /\ ringFile.revoked \subseteq ringFile'.revoked
    BY <1>1, RingFacts DEF FinishCreate, EditsSound, Creating
  <1>2. ASSUME NEW o \in Process, Replace(o)
        PROVE  /\ ~overlapped
               /\ ringFile.keys \subseteq ringFile'.keys
               /\ ringFile.revoked \subseteq ringFile'.revoked
    <2>1. ~overlapped /\ ringFile = edit[o].base
      BY <1>2, <1>b DEF Replace
    <2>2. edit[o] \in Edit /\ Pending(o)
      BY <1>2 DEF Replace, Pending, KeyringTypeOK
    <2> QED
      BY <1>2, <2>1, <2>2, NewRingGrows DEF Replace, EditsSound
  <1>3. ASSUME NEW o \in Process, EditStep(o)
        PROVE  UNCHANGED <<ringFile, overlapped>> \/ FinishCreate(o) \/ Replace(o)
    BY <1>3 DEF EditStep, CreateFile, ReadToAdd, ReadToRevoke, RevokeAgain, OpenTemporary,
       FailWrite, Kill
  <1>4. ASSUME NEW c \in Consumer, ConsumerStep(c) PROVE UNCHANGED <<ringFile, overlapped>>
    BY <1>4 DEF ConsumerStep, Ship, CheckPointer
  <1>5. ASSUME NEW k \in Key, SwitchSigner(k) PROVE UNCHANGED <<ringFile, overlapped>>
    BY <1>5 DEF SwitchSigner
  <1>6. CASE UNCHANGED keyringVars
    BY <1>6 DEF keyringVars
  <1> QED
    BY <1>1, <1>2, <1>3, <1>4, <1>5, <1>6 DEF KeyringNext

\* What is revoked, reported or barred stays so.
LEMMA RevocationsKeep == KeyringInv /\ [KeyringNext]_keyringVars => RevocationsGrow'
  <1> SUFFICES ASSUME KeyringInv, [KeyringNext]_keyringVars, ~overlapped'
               PROVE  RevocationsGrow'
    BY DEF RevocationsGrow
  <1>a. KeyringTypeOK /\ EditsSound /\ RevocationsGrow
    BY DEF KeyringInv
  <1>b. /\ ~overlapped
        /\ ringFile.keys \subseteq ringFile'.keys /\ ringFile.revoked \subseteq ringFile'.revoked
    BY RingGrows
  <1>c. \A c \in Consumer : Follows(pinned[c]) /\ pinned'[c] = pinned[c] => Follows(pinned[c])'
    BY <1>b DEF Follows
  <1>d. /\ reported \subseteq ringFile'.revoked
        /\ \A c \in Consumer : barred[c] \subseteq ringFile'.revoked
    BY <1>a, <1>b DEF RevocationsGrow
  <1> USE <1>a, <1>b, <1>c, <1>d DEF RevocationsGrow, fileVars, consumerVars, signerVars
  <1>1. ASSUME UNCHANGED consumerVars, reported' \subseteq ringFile'.revoked
        PROVE  RevocationsGrow'
    BY <1>1
  <1>2. ASSUME NEW o \in Process, EditStep(o) PROVE RevocationsGrow'
    <2>1. UNCHANGED consumerVars
      BY <1>2 DEF EditStep, CreateFile, FinishCreate, ReadToAdd, ReadToRevoke, RevokeAgain,
         OpenTemporary, Replace, FailWrite, Kill
    <2>2. CASE UNCHANGED reported
      BY <1>1, <2>1, <2>2
    <2>3. ASSUME NEW k \in Key, RevokeAgain(o, k) PROVE RevocationsGrow'
      BY <1>1, <2>1, <2>3 DEF RevokeAgain
    <2>4. CASE Replace(o)
      <3>1. edit[o] \in Edit /\ Pending(o)
        BY <2>4 DEF Replace, Pending, KeyringTypeOK
      <3>2. reported' \subseteq ringFile'.revoked
        BY <2>4, <3>1, NewRingGrows DEF Replace, EditsSound
      <3> QED
        BY <1>1, <2>1, <3>2
    <2> QED
      BY <1>2, <2>2, <2>3, <2>4 DEF EditStep, CreateFile, FinishCreate, ReadToAdd, ReadToRevoke,
         OpenTemporary, FailWrite, Kill
  <1>3. ASSUME NEW c \in Consumer, Ship(c) PROVE RevocationsGrow'
    <2>1. /\ pinned' = [pinned EXCEPT ![c] = ringFile]
          /\ barred' = [barred EXCEPT ![c] = barred[c] \cup ringFile.revoked]
          /\ UNCHANGED <<ringFile, reported, breach>>
      BY <1>3 DEF Ship
    <2>2. pinned \in [Consumer -> Ring] /\ barred \in [Consumer -> SUBSET Key]
      BY DEF KeyringTypeOK
    <2>3. Follows(ringFile)'
      BY <2>1 DEF Follows
    <2> QED
      BY <2>1, <2>2, <2>3 DEF Follows
  <1>4. ASSUME NEW c \in Consumer, NEW by \in Key, NEW name \in Key \cup {NoKey},
               CheckPointer(c, by, name)
        PROVE  RevocationsGrow'
    <2>1. pinned[c] \in Ring /\ by \in pinned[c].revoked
      BY <1>4 DEF CheckPointer, KeyringTypeOK
    <2>2. Verdict(pinned[c], by, name) # "ok"
      BY <2>1, RevokedNeverOk
    <2>3. ~breach'
      BY <1>4, <2>2 DEF CheckPointer
    <2> QED
      BY <1>4, <2>3 DEF CheckPointer, Follows
  <1>5. ASSUME NEW k \in Key, SwitchSigner(k) PROVE RevocationsGrow'
    BY <1>1, <1>5 DEF SwitchSigner
  <1>6. CASE UNCHANGED keyringVars
    BY <1>1, <1>6 DEF keyringVars
  <1> QED
    BY <1>2, <1>3, <1>4, <1>5, <1>6 DEF KeyringNext, ConsumerStep

\* The publisher signs with keys it has signed with.
LEMMA SignerStaysUsed == KeyringInv /\ [KeyringNext]_keyringVars => SignerUsed'
  <1> SUFFICES ASSUME KeyringInv, [KeyringNext]_keyringVars PROVE SignerUsed'
    OBVIOUS
  <1>a. SignerUsed
    BY DEF KeyringInv
  <1>1. ASSUME NEW k \in Key, SwitchSigner(k) PROVE SignerUsed'
    BY <1>1, <1>a DEF SwitchSigner, SignerUsed
  <1>2. ASSUME UNCHANGED <<signer, used>> PROVE SignerUsed'
    BY <1>2, <1>a DEF SignerUsed
  <1>3. ASSUME NEW o \in Process, EditStep(o) PROVE UNCHANGED <<signer, used>>
    BY <1>3 DEF EditStep, CreateFile, FinishCreate, ReadToAdd, ReadToRevoke, RevokeAgain,
       OpenTemporary, Replace, FailWrite, Kill, signerVars
  <1>4. ASSUME NEW c \in Consumer, ConsumerStep(c) PROVE UNCHANGED <<signer, used>>
    BY <1>4 DEF ConsumerStep, Ship, CheckPointer, signerVars
  <1> QED
    BY <1>1, <1>2, <1>3, <1>4 DEF KeyringNext, keyringVars, signerVars

\* A rotation stays a rotation.
LEMMA SignerStaysPinned == KeyringInv /\ [KeyringNext]_keyringVars => SignerPinned'
  <1> SUFFICES ASSUME KeyringInv, [KeyringNext]_keyringVars, ~overlapped', ~emergency'
               PROVE  SignerPinned'
    BY DEF SignerPinned
  <1>a. /\ KeyringTypeOK /\ EditsSound /\ RevocationsGrow /\ SignerPinned /\ SignerUsed
    BY DEF KeyringInv
  <1>b. /\ ~overlapped
        /\ ringFile.keys \subseteq ringFile'.keys /\ ringFile.revoked \subseteq ringFile'.revoked
    BY RingGrows
  <1>c. Idle.at = "idle" /\ Idle \in Edit
    BY RingFacts
  <1>d. emergency' = emergency \/ \E o \in Process, k \in Key : ReadToRevoke(o, k)
    BY DEF KeyringNext, EditStep, ConsumerStep, CreateFile, FinishCreate, ReadToAdd, RevokeAgain,
       OpenTemporary, Replace, FailWrite, Kill, Ship, CheckPointer, SwitchSigner, signerVars,
       keyringVars
  <1>e. ~emergency
    BY <1>a, <1>d DEF ReadToRevoke, KeyringTypeOK
  <1>f. /\ ringFile.revoked \subseteq used \ {signer}
        /\ \A o \in Process : Pending(o) /\ edit[o].kind = "revoke" => edit[o].key \in used \ {signer}
        /\ \A c \in Consumer :
             /\ signer \in pinned[c].keys
             /\ ringFile # NoRing => signer \in ringFile.keys
             /\ \A o \in Process : Creating(o) => signer \in edit[o].base.keys
    BY <1>a, <1>b, <1>e DEF SignerPinned
  \* What an edit may do: it adds no revocation but that of a retired key.
  <1>g. ASSUME UNCHANGED <<signer, used, pinned>>, ringFile'.revoked \subseteq used \ {signer},
               ringFile # NoRing => ringFile' # NoRing,
               Consumer # {} => ringFile' = NoRing \/ signer \in ringFile'.keys,
               \A q \in Process :
                 /\ Pending(q)' /\ edit'[q].kind = "revoke" => edit'[q].key \in used \ {signer}
                 /\ Creating(q)' => Consumer = {} \/ signer \in edit'[q].base.keys
        PROVE  SignerPinned'
    BY <1>f, <1>g DEF SignerPinned
  <1>h. ASSUME UNCHANGED <<signer, used, pinned, ringFile>>, NEW o \in Process, NEW e \in Edit,
               edit' = [edit EXCEPT ![o] = e],
               e.at \in {"read", "opened"} /\ e.kind = "revoke" => e.key \in used \ {signer},
               e.at = "creating" => signer \in e.base.keys
        PROVE  SignerPinned'
    <2>1. edit'[o] = e /\ \A q \in Process \ {o} : edit'[q] = edit[q]
      BY <1>h, EditMoves
    <2> QED
      BY <1>f, <1>g, <1>h, <2>1 DEF Pending, Creating
  <1>i. ASSUME UNCHANGED <<signer, used, pinned, ringFile, edit>> PROVE SignerPinned'
    BY <1>f, <1>g, <1>i DEF Pending, Creating
  <1> USE DEF fileVars, consumerVars, signerVars
  <1>1. ASSUME NEW o \in Process, NEW S \in SUBSET Key, CreateFile(o, S) PROVE SignerPinned'
    <2> DEFINE e == [Idle EXCEPT !.at = "creating", !.base = RingOf(S)]
    <2>1. /\ e \in Edit /\ e.at = "creating" /\ e.base.keys = S
      BY RingFacts DEF Edit
    <2>2. edit' = [edit EXCEPT ![o] = e] /\ signer \in S
      BY <1>1 DEF CreateFile
    <2> HIDE DEF e
    <2> QED
      BY <1>1, <1>h, <2>1, <2>2 DEF CreateFile
  <1>2. ASSUME NEW o \in Process, FinishCreate(o) PROVE SignerPinned'
    <2>1. edit'[o] = Idle /\ \A q \in Process \ {o} : edit'[q] = edit[q]
      BY <1>2, <1>c, EditMoves DEF FinishCreate
    <2>2. Creating(o) /\ ringFile' = edit[o].base /\ ringFile'.revoked = {} /\ ringFile = NoRing
      BY <1>2, <1>a DEF FinishCreate, EditsSound, Creating
    <2>3. Consumer # {} => signer \in ringFile'.keys
      BY <1>f, <2>2
    <2> QED
      BY <1>2, <1>c, <1>f, <1>g, <2>1, <2>2, <2>3 DEF FinishCreate, Pending, Creating
  <1>3. ASSUME NEW o \in Process, NEW k \in Key, ReadToAdd(o, k) PROVE SignerPinned'
    <2> DEFINE e == [at |-> "read", kind |-> "add", key |-> k, base |-> ringFile]
    <2>1. /\ e \in Edit /\ e.at = "read" /\ e.kind = "add"
      BY <1>a DEF Edit, KeyringTypeOK
    <2>2. edit' = [edit EXCEPT ![o] = e]
      BY <1>3 DEF ReadToAdd
    <2> HIDE DEF e
    <2> QED
      BY <1>3, <1>h, <2>1, <2>2 DEF ReadToAdd
  <1>4. ASSUME NEW o \in Process, NEW k \in Key, ReadToRevoke(o, k) PROVE SignerPinned'
    <2> DEFINE e == [at |-> "read", kind |-> "revoke", key |-> k, base |-> ringFile]
    <2>1. /\ e \in Edit /\ e.at = "read" /\ e.key = k
      BY <1>a DEF Edit, KeyringTypeOK
    <2>2. edit' = [edit EXCEPT ![o] = e] /\ k \in used \ {signer}
      BY <1>4, <1>e DEF ReadToRevoke, Retired
    <2> HIDE DEF e
    <2> QED
      BY <1>4, <1>h, <2>1, <2>2 DEF ReadToRevoke
  <1>5. ASSUME NEW o \in Process, NEW k \in Key, RevokeAgain(o, k) PROVE SignerPinned'
    BY <1>5, <1>i DEF RevokeAgain
  <1>6. ASSUME NEW o \in Process, OpenTemporary(o) PROVE SignerPinned'
    <2>1. CASE edit' = [edit EXCEPT ![o] = Idle]
      BY <1>6, <1>c, <1>h, <2>1 DEF OpenTemporary
    <2>2. CASE edit' = [edit EXCEPT ![o].at = "opened"]
      <3>1. edit[o] \in Edit /\ edit[o].at = "read"
        BY <1>6, <1>a DEF OpenTemporary, KeyringTypeOK
      <3> DEFINE e == [edit[o] EXCEPT !.at = "opened"]
      <3>2. /\ e \in Edit /\ e.at = "opened" /\ e.kind = edit[o].kind /\ e.key = edit[o].key
        BY <3>1 DEF Edit
      <3>3. edit' = [edit EXCEPT ![o] = e]
        BY <2>2
      <3> HIDE DEF e
      <3> QED
        BY <1>6, <1>f, <1>h, <3>1, <3>2, <3>3 DEF OpenTemporary, Pending
    <2> QED
      BY <1>6, <2>1, <2>2 DEF OpenTemporary
  <1>7. ASSUME NEW o \in Process, Replace(o) PROVE SignerPinned'
    <2>1. edit'[o] = Idle /\ \A q \in Process \ {o} : edit'[q] = edit[q]
      BY <1>7, <1>c, EditMoves DEF Replace
    <2>2. /\ edit[o] \in Edit /\ Pending(o) /\ edit[o].kind # "init" /\ ringFile # NoRing
          /\ Trusted(NewRing(edit[o])) # {}
      BY <1>7, <1>a DEF Replace, Pending, KeyringTypeOK, EditsSound
    <2>3. ringFile = edit[o].base /\ ringFile' = NewRing(edit[o])
      BY <1>7, <1>a DEF Replace, KeyringTypeOK
    <2>4. ringFile'.revoked \subseteq used \ {signer}
      BY <1>f, <2>2, <2>3, NewRingGrows
    <2>5. ringFile' # NoRing /\ (Consumer # {} => signer \in ringFile'.keys)
      BY <1>b, <1>f, <2>2, <2>3, NewRingGrows
    <2> QED
      BY <1>7, <1>c, <1>f, <1>g, <2>1, <2>4, <2>5 DEF Replace, Pending, Creating
  <1>8. ASSUME NEW o \in Process, FailWrite(o) \/ Kill(o) PROVE SignerPinned'
    BY <1>8, <1>c, <1>h DEF FailWrite, Kill
  <1>9. ASSUME NEW c \in Consumer, Ship(c) PROVE SignerPinned'
    <2>1. pinned' = [pinned EXCEPT ![c] = ringFile] /\ signer \in ringFile.keys
      BY <1>9, <1>f DEF Ship
    <2>2. \A d \in Consumer : signer \in pinned'[d].keys
      BY <1>a, <1>f, <2>1 DEF KeyringTypeOK
    <2> QED
      BY <1>9, <1>f, <2>2 DEF Ship, SignerPinned, Pending, Creating
  <1>10. ASSUME NEW c \in Consumer, NEW by \in Key, NEW name \in Key \cup {NoKey},
                CheckPointer(c, by, name)
         PROVE  SignerPinned'
    BY <1>10, <1>i DEF CheckPointer
  <1>11. ASSUME NEW k \in Key, SwitchSigner(k) PROVE SignerPinned'
    <2>1. /\ signer' = k /\ used' = used \cup {k} /\ k \notin used /\ UNCHANGED <<fileVars, pinned>>
          /\ \A c \in Consumer : k \in pinned[c].keys
      BY <1>11 DEF SwitchSigner, Trusted
    <2>2. used \subseteq used' \ {signer'}
      BY <2>1
    <2>3. \A c \in Consumer : k \in ringFile.keys
      <3>1. SUFFICES ASSUME NEW c \in Consumer PROVE k \in ringFile.keys
        OBVIOUS
      <3>2. Follows(pinned[c]) /\ FirstKey \in used
        BY <1>a, <1>b DEF RevocationsGrow, SignerUsed
      <3>3. pinned[c] # RingOf({FirstKey})
        <4>1. k \in pinned[c].keys /\ k # FirstKey
          BY <2>1, <3>2
        <4>2. RingOf({FirstKey}).keys = {FirstKey}
          BY RingFacts
        <4> QED
          BY <4>1, <4>2
      <3> QED
        BY <2>1, <3>2, <3>3 DEF Follows
    <2>4. \A o \in Process : Creating(o) => Consumer = {}
      BY <1>a, <2>3, RingFacts DEF EditsSound
    <2>5. ringFile'.revoked \subseteq used' \ {signer'}
      BY <1>f, <2>1, <2>2
    <2>6. \A o \in Process : Pending(o)' /\ edit'[o].kind = "revoke" => edit'[o].key \in used' \ {signer'}
      BY <1>f, <2>1, <2>2 DEF Pending
    <2>7. \A c \in Consumer :
            /\ signer' \in pinned'[c].keys
            /\ signer' \in ringFile'.keys
            /\ \A o \in Process : ~Creating(o)'
      BY <2>1, <2>3, <2>4 DEF Creating
    <2> QED
      BY <2>5, <2>6, <2>7 DEF SignerPinned
  <1>12. CASE UNCHANGED keyringVars
    BY <1>12, <1>i DEF keyringVars
  <1> QED
    BY <1>1, <1>2, <1>3, <1>4, <1>5, <1>6, <1>7, <1>8, <1>9, <1>10, <1>11, <1>12
       DEF KeyringNext, EditStep, ConsumerStep

-----------------------------------------------------------------------------
\* The invariant is inductive.
THEOREM KeyringInvariant == KeyringSpec => []KeyringInv
  <1>1. KeyringInit => KeyringInv
    BY KeyringInitInv
  <1>2. KeyringInv /\ [KeyringNext]_keyringVars => KeyringInv'
    BY KeyringTypes, EditsStaySound, RevocationsKeep, SignerStaysPinned, SignerStaysUsed
       DEF KeyringInv
  <1> QED
    BY <1>1, <1>2, PTL DEF KeyringSpec

\* What `keyring revoke` reported stays in the file, if no two edits overlap.
THEOREM RevocationsStick == KeyringSpec => []RevocationSticks
  <1>1. KeyringInv => RevocationSticks
    BY DEF KeyringInv, RevocationsGrow, RevocationSticks
  <1> QED
    BY <1>1, KeyringInvariant, PTL

\* No consumer accepts a pointer of a key that a ring of its own revoked.
THEOREM RevokedKeysRefused == KeyringSpec => []RevokedRefused
  <1>1. KeyringInv => RevokedRefused
    BY DEF KeyringInv, RevocationsGrow, RevokedRefused
  <1> QED
    BY <1>1, KeyringInvariant, PTL

\* The rotation of the runbook has no flag day: each consumer always verifies
\* what the publisher signs.
THEOREM RotationHasNoFlagDay == KeyringSpec => []NoFlagDay
  <1>1. ASSUME KeyringInv, ~overlapped, ~emergency, NEW c \in Consumer
        PROVE  pinned[c] \in Ring /\ signer \in Trusted(pinned[c])
    <2>1. pinned[c] \in Ring /\ signer \in pinned[c].keys
      BY <1>1 DEF KeyringInv, KeyringTypeOK, SignerPinned
    <2>2. pinned[c].revoked = {} \/ pinned[c].revoked \subseteq ringFile.revoked
      BY <1>1, RingFacts DEF KeyringInv, RevocationsGrow, Follows
    <2>3. signer \notin ringFile.revoked
      BY <1>1 DEF KeyringInv, SignerPinned
    <2> QED
      BY <2>1, <2>2, <2>3 DEF Trusted
  <1>2. KeyringInv => NoFlagDay
    BY <1>1, TrustedIsOk DEF NoFlagDay
  <1> QED
    BY <1>2, KeyringInvariant, PTL
=============================================================================
