------------------------------ MODULE Chunking ------------------------------
(***************************************************************************)
(* Content-defined chunking: GearCDC cuts a file where a rolling hash of   *)
(* its content says so (edgeproc/bundles/chunking.py).  Two versions of a  *)
(* file are cut, a chunk at a time: what they have in common is what a     *)
(* device need not fetch again.                                            *)
(*                                                                         *)
(* Offsets count the bytes before a place, as in the code: the byte at     *)
(* offset i is data[i + 1].                                                *)
(***************************************************************************)
EXTENDS Integers, Sequences

CONSTANTS
  Byte,
  Gear,                        \* the gear table
  Width,                       \* the bits of the hash
  StrictMask, LooseMask,       \* the masks, as sets of bits
  MinSize, AvgSize, MaxSize,
  MaxLength,                   \* bound: the longest file
  Version                      \* the versions of the file

ASSUME ChunkingAssumption ==
  /\ Width \in Nat /\ Gear \in [Byte -> Nat]
  /\ StrictMask \subseteq Nat /\ LooseMask \subseteq Nat
  /\ MinSize \in Nat /\ AvgSize \in Nat /\ MaxSize \in Nat \ {0}
  /\ MaxLength \in Nat

Least(a, b) == IF a <= b THEN a ELSE b

\* Mutant: the hash goes on from one chunk to the next.
RunningHash(data, from) ==
  LET h[i \in 0..Len(data)] ==
        IF i = 0 THEN 0 ELSE (2 * h[i - 1] + Gear[data[i]]) % (2^Width)
  IN  [i \in from..Len(data) - 1 |-> h[i + 1]]

\* The hash after the byte at each offset, begun at `from`.
Hash(data, from) ==
  LET h[i \in from..Len(data)] ==
        IF i = from THEN 0 ELSE (2 * h[i - 1] + Gear[data[i]]) % (2^Width)
  IN  [i \in from..Len(data) - 1 |-> h[i + 1]]

\* Does a hash have none of the bits of a mask?
Clear(fp, mask) == \A b \in mask : (fp \div 2^b) % 2 = 0

HardEnd(data, start) == Least(start + MaxSize, Len(data))
NormEnd(data, start) == Least(start + AvgSize, HardEnd(data, start))

\* The offsets after whose byte the content asks for a cut: by the strict
\* mask up to the average size, by the loose one from there.
Candidates(data, start) ==
  LET fp == Hash(data, start + MinSize) IN
  {i \in start + MinSize..HardEnd(data, start) - 1 :
     Clear(fp[i], IF i < NormEnd(data, start) THEN StrictMask ELSE LooseMask)}

\* Mutant: the cut comes before the byte that asked for it.
CutBefore(data, start) ==
  LET C == Candidates(data, start) IN
  IF C = {} THEN HardEnd(data, start) ELSE CHOOSE i \in C : \A j \in C : i <= j

CutPoint(data, start) ==
  LET C == Candidates(data, start) IN
  IF C = {} THEN HardEnd(data, start) ELSE (CHOOSE i \in C : \A j \in C : i <= j) + 1

VARIABLES
  text,     \* text[v]: the bytes of a version
  offset,   \* where its next chunk starts
  chunks    \* its chunks so far, as their <<start, end>>

chunkingVars == <<text, offset, chunks>>

File == UNION {[1..n -> Byte] : n \in 0..MaxLength}

ChunkingInit ==
  /\ text \in [Version -> File]
  /\ offset = [v \in Version |-> 0]
  /\ chunks = [v \in Version |-> {}]

NextChunk(v) ==
  /\ offset[v] < Len(text[v])
  /\ LET end == CutPoint(text[v], offset[v]) IN
     /\ chunks' = [chunks EXCEPT ![v] = @ \cup {<<offset[v], end>>}]
     /\ offset' = [offset EXCEPT ![v] = end]
  /\ UNCHANGED text

ChunkingNext == \E v \in Version : NextChunk(v)

ChunkingSpec == ChunkingInit /\ [][ChunkingNext]_chunkingVars

-----------------------------------------------------------------------------
ChunkingTypeOK ==
  /\ text \in [Version -> Seq(Byte)]
  /\ offset \in [Version -> Nat]
  /\ chunks \in [Version -> SUBSET (Nat \X Nat)]

\* The chunks of a file rejoin to it: they are pieces that end where the next
\* one starts, in the sizes of the profile, the last piece but in the maximum.
Tiles(v) ==
  /\ offset[v] \in 0..Len(text[v])
  /\ \A c \in chunks[v] :
       /\ 0 <= c[1] /\ c[1] < c[2] /\ c[2] <= offset[v]
       /\ c[2] - c[1] <= MaxSize
       /\ c[2] = Len(text[v]) \/ c[2] - c[1] > MinSize \/ c[2] - c[1] = MaxSize
       /\ c[1] = 0 \/ \E d \in chunks[v] : d[2] = c[1]
       /\ c[2] = offset[v] \/ \E d \in chunks[v] : d[1] = c[2]
  /\ offset[v] = 0 \/ \E c \in chunks[v] : c[2] = offset[v]

ChunksTile == \A v \in Version : Tiles(v)

\* The bytes from an offset on.
Rest(data, i) == SubSeq(data, i + 1, Len(data))

\* An edit is local: a chunk that ends before two versions first differ, and
\* before either of them ends, is a chunk of both; and once both are cut at
\* places from which on they agree, they are cut alike for good.
EditIsLocal ==
  \A v, w \in Version :
    \A c \in chunks[v], d \in chunks[w] :
      \/ /\ c[1] = d[1] /\ c[2] < Len(text[v]) /\ c[2] < Len(text[w])
         /\ SubSeq(text[v], 1, c[2]) = SubSeq(text[w], 1, c[2])
      \/ Rest(text[v], c[1]) = Rest(text[w], d[1])
      => c[2] - c[1] = d[2] - d[1]
=============================================================================
