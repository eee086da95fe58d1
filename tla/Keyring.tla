------------------------------- MODULE Keyring ------------------------------
(***************************************************************************)
(* The trust root: the keyring file that an operator edits with `edgeproc  *)
(* keyring`, the copies of it that the consumers pin, and the check of a   *)
(* pointer's signature against a copy (edgeproc/bundles/keyring.py, the    *)
(* keyring commands of edgeproc/cli/app.py, and the rotation of            *)
(* docs/OPERATIONS.md).                                                    *)
(*                                                                         *)
(* An edit reads the file, changes the ring and replaces the file through  *)
(* a temporary that is named for its process; it takes no lock.            *)
(***************************************************************************)
EXTENDS Naturals, FiniteSets

CONSTANTS
  Key,          \* a key stands for its key_id
  FirstKey,     \* the key of the raw public.key every consumer starts with
  NoKey,        \* a pointer that names no key
  Consumer,
  Process,      \* the processes that edit, by their pid
  MaxKeys, MaxRevoked, \* the longest lists a ring may have
  MaxEdits      \* bound: edits begun

ASSUME KeyringAssumption ==
  /\ FirstKey \in Key /\ NoKey \notin Key
  /\ MaxKeys \in Nat \ {0} /\ MaxRevoked \in Nat /\ MaxEdits \in Nat

Ring == [keys : SUBSET Key, revoked : SUBSET Key]
RingOf(S) == [keys |-> S, revoked |-> {}]
NoRing == RingOf({})

Trusted(ring) == ring.keys \ ring.revoked

\* Mutant: a ring that trusts no key is a ring.
ValidEmpty(ring) ==
  /\ ring.keys # {} /\ Cardinality(ring.keys) <= MaxKeys
  /\ Cardinality(ring.revoked) <= MaxRevoked

\* A model of the file validates: both lists in their bounds, one key trusted.
Valid(ring) ==
  /\ Cardinality(ring.keys) <= MaxKeys
  /\ Cardinality(ring.revoked) <= MaxRevoked
  /\ Trusted(ring) # {}

\* Mutants: the new key replaces the old ones; the revocations are forgotten.
AddReplacing(ring, k) == [ring EXCEPT !.keys = {k}]
AddForgetting(ring, k) == RingOf(ring.keys \cup {k})

AddKey(ring, k) == [ring EXCEPT !.keys = @ \cup {k}]
MayAdd(ring, k) == k \notin ring.revoked /\ k \notin ring.keys

\* The revoked key stays among the keys; an id without a key can be revoked.
RevokeKey(ring, k) == [ring EXCEPT !.revoked = @ \cup {k}]

\* Mutant: an unnamed pointer is tried against every key of the ring.
VerdictAny(ring, by, name) ==
  CASE name = NoKey -> IF by \in ring.keys THEN "ok" ELSE "bad"
    [] name # NoKey /\ name \in ring.revoked -> "revoked"
    [] name # NoKey /\ name \notin ring.revoked /\ name \notin ring.keys -> "unknown"
    [] OTHER -> IF by = name THEN "ok" ELSE "bad"

\* What a verifier with this ring says of a pointer that one key signed and
\* that names a key, or none.
Verdict(ring, by, name) ==
  CASE name = NoKey -> IF by \in Trusted(ring) THEN "ok"
                       ELSE IF by \in ring.keys THEN "revoked" ELSE "bad"
    [] name # NoKey /\ name \in ring.revoked -> "revoked"
    [] name # NoKey /\ name \notin ring.revoked /\ name \notin ring.keys -> "unknown"
    [] OTHER -> IF by = name THEN "ok" ELSE "bad"

VARIABLES
  exists,     \* is there a keyring file?
  ringFile,   \* the ring it holds; NoRing when it holds none that parses
  temporaries, \* the processes whose temporary file is there
  edit,       \* the edit each process is at
  pinned,     \* the ring each consumer has
  signer,     \* the key the publisher signs with
  used,       \* the keys it has signed with
  edits,      \* bound: edits so far
  reported,   \* history: the keys whose revocation a command reported
  barred,     \* history: the keys that a ring of this consumer revoked
  overlapped, \* history: did an edit replace a file it had not read?
  emergency,  \* history: was a key revoked that was not retired?
  breach      \* history: was a barred key accepted?

fileVars == <<exists, ringFile, temporaries, edit, edits>>
consumerVars == <<pinned, barred, breach>>
signerVars == <<signer, used, emergency>>
keyringVars == <<fileVars, consumerVars, signerVars, reported, overlapped>>

Edit == [at : {"idle", "creating", "read", "opened"}, kind : {"init", "add", "revoke"},
         key : Key, base : Ring]
Idle == [at |-> "idle", kind |-> "init", key |-> FirstKey, base |-> NoRing]

KeyringInit ==
  /\ exists = FALSE /\ ringFile = NoRing /\ temporaries = {}
  /\ edit = [o \in Process |-> Idle] /\ edits = 0
  /\ pinned = [c \in Consumer |-> RingOf({FirstKey})]
  /\ signer = FirstKey /\ used = {FirstKey}
  /\ reported = {} /\ overlapped = FALSE /\ emergency = FALSE
  /\ barred = [c \in Consumer |-> {}]
  /\ breach = FALSE

-----------------------------------------------------------------------------
(***************************************************************************)
(* The commands.  A refusal changes nothing and is left out.               *)
(***************************************************************************)
NewRing(e) == IF e.kind = "add" THEN AddKey(e.base, e.key) ELSE RevokeKey(e.base, e.key)

Start(o) == edit[o].at = "idle" /\ edits < MaxEdits /\ edits' = edits + 1

\* `init` creates the file exclusively and writes it in place.
\* Runbook: the first ring is made from the public.key in use.
CreateFile(o, S) ==
  /\ Start(o) /\ ~exists
  /\ signer \in S /\ Valid(RingOf(S))
  /\ exists' = TRUE
  /\ edit' = [edit EXCEPT ![o] = [Idle EXCEPT !.at = "creating", !.base = RingOf(S)]]
  /\ UNCHANGED <<ringFile, temporaries, consumerVars, signerVars, reported, overlapped>>

FinishCreate(o) ==
  /\ edit[o].at = "creating"
  /\ ringFile' = edit[o].base
  /\ edit' = [edit EXCEPT ![o] = Idle]
  /\ UNCHANGED <<exists, temporaries, edits, consumerVars, signerVars, reported, overlapped>>

ReadToAdd(o, k) ==
  /\ Start(o) /\ ringFile # NoRing
  /\ MayAdd(ringFile, k) /\ Valid(AddKey(ringFile, k))
  /\ edit' = [edit EXCEPT ![o] = [at |-> "read", kind |-> "add", key |-> k, base |-> ringFile]]
  /\ UNCHANGED <<exists, ringFile, temporaries, consumerVars, signerVars, reported, overlapped>>

\* Runbook: a key is retired when the publisher has moved on to another; any
\* other revocation is an emergency.
Retired(k) == k \in used \ {signer}

ReadToRevoke(o, k) ==
  /\ Start(o) /\ ringFile # NoRing
  /\ k \notin ringFile.revoked /\ Valid(RevokeKey(ringFile, k))
  /\ edit' = [edit EXCEPT ![o] = [at |-> "read", kind |-> "revoke", key |-> k,
                                  base |-> ringFile]]
  /\ emergency' = (emergency \/ ~Retired(k))
  /\ UNCHANGED <<exists, ringFile, temporaries, consumerVars, signer, used, reported,
                 overlapped>>

\* Revoking again writes nothing and reports success.
RevokeAgain(o, k) ==
  /\ Start(o) /\ ringFile # NoRing /\ k \in ringFile.revoked
  /\ reported' = reported \cup {k}
  /\ UNCHANGED <<exists, ringFile, temporaries, edit, consumerVars, signerVars, overlapped>>

\* A leftover temporary of the same pid refuses the command.
OpenTemporary(o) ==
  /\ edit[o].at = "read"
  /\ IF o \in temporaries
     THEN edit' = [edit EXCEPT ![o] = Idle] /\ UNCHANGED temporaries
     ELSE /\ edit' = [edit EXCEPT ![o].at = "opened"]
          /\ temporaries' = temporaries \cup {o}
  /\ UNCHANGED <<exists, ringFile, edits, consumerVars, signerVars, reported, overlapped>>

Replace(o) ==
  /\ edit[o].at = "opened"
  /\ ringFile' = NewRing(edit[o])
  /\ temporaries' = temporaries \ {o}
  /\ reported' = IF edit[o].kind = "revoke" THEN reported \cup {edit[o].key} ELSE reported
  /\ overlapped' = (overlapped \/ ringFile # edit[o].base)
  /\ edit' = [edit EXCEPT ![o] = Idle]
  /\ UNCHANGED <<exists, edits, consumerVars, signerVars>>

\* The write or the rename fails: the temporary is removed.
FailWrite(o) ==
  /\ edit[o].at = "opened"
  /\ temporaries' = temporaries \ {o}
  /\ edit' = [edit EXCEPT ![o] = Idle]
  /\ UNCHANGED <<exists, ringFile, edits, consumerVars, signerVars, reported, overlapped>>

\* The process is killed: its temporary, or an unfinished new file, stays.
Kill(o) ==
  /\ edit[o].at # "idle"
  /\ edit' = [edit EXCEPT ![o] = Idle]
  /\ UNCHANGED <<exists, ringFile, temporaries, edits, consumerVars, signerVars, reported,
                 overlapped>>

-----------------------------------------------------------------------------
(***************************************************************************)
(* The consumers and the publisher.                                        *)
(***************************************************************************)
\* The ring is pushed to a consumer as a configuration change.
Ship(c) ==
  /\ ringFile # NoRing
  /\ pinned' = [pinned EXCEPT ![c] = ringFile]
  /\ barred' = [barred EXCEPT ![c] = @ \cup ringFile.revoked]
  /\ UNCHANGED <<fileVars, breach, signerVars, reported, overlapped>>

\* Runbook: to a key that is new, once every consumer has it.
SwitchSigner(k) ==
  /\ k \notin used
  /\ \A c \in Consumer : k \in Trusted(pinned[c])
  /\ signer' = k /\ used' = used \cup {k}
  /\ UNCHANGED <<fileVars, consumerVars, emergency, reported, overlapped>>

\* A sync loads the ring before it fetches anything, and keeps it.  The
\* pointer it fetches may name any key; one that a barred key signed is of
\* interest, any other leaves all of this as it is.
CheckPointer(c, by, name) ==
  /\ by \in barred[c]
  /\ breach' = (breach \/ Verdict(pinned[c], by, name) = "ok")
  /\ UNCHANGED <<fileVars, pinned, barred, signerVars, reported, overlapped>>

EditStep(o) ==
  \/ \E S \in SUBSET Key : CreateFile(o, S)
  \/ \E k \in Key : ReadToAdd(o, k) \/ ReadToRevoke(o, k) \/ RevokeAgain(o, k)
  \/ FinishCreate(o) \/ OpenTemporary(o) \/ Replace(o) \/ FailWrite(o) \/ Kill(o)

ConsumerStep(c) ==
  \/ Ship(c)
  \/ \E by \in Key, name \in Key \cup {NoKey} : CheckPointer(c, by, name)

KeyringNext ==
  \/ \E o \in Process : EditStep(o)
  \/ \E c \in Consumer : ConsumerStep(c)
  \/ \E k \in Key : SwitchSigner(k)

KeyringSpec == KeyringInit /\ [][KeyringNext]_keyringVars

-----------------------------------------------------------------------------
KeyringTypeOK ==
  /\ exists \in BOOLEAN
  /\ ringFile \in Ring /\ (ringFile # NoRing => Trusted(ringFile) # {})
  /\ temporaries \subseteq Process
  /\ edit \in [Process -> Edit] /\ edits \in 0..MaxEdits
  /\ pinned \in [Consumer -> Ring] /\ \A c \in Consumer : Trusted(pinned[c]) # {}
  /\ signer \in Key /\ used \subseteq Key /\ reported \subseteq Key
  /\ barred \in [Consumer -> SUBSET Key]
  /\ overlapped \in BOOLEAN /\ emergency \in BOOLEAN /\ breach \in BOOLEAN

\* As long as no two edits overlapped, every revocation that a command
\* reported is in the file: through later edits, failed writes and kills.
RevocationSticks == ~overlapped => reported \subseteq ringFile.revoked

\* Once a consumer's ring revoked a key, no sync that it begins from then on
\* accepts a pointer which that key signed, named or unnamed, whatever rings
\* it is sent later (OPERATIONS.md:198).
RevokedRefused == ~overlapped => ~breach

\* "There is no flag day: at every step each consumer holds a ring that
\* verifies whatever the publisher is currently signing" (OPERATIONS.md:186),
\* whether or not the pointer names its key: for rotations of the runbook,
\* several in a row and in each other's way, with killed and failed edits.
NoFlagDay ==
  ~overlapped /\ ~emergency =>
    \A c \in Consumer, name \in {signer, NoKey} : Verdict(pinned[c], signer, name) = "ok"
=============================================================================
