---------------------------- MODULE Materialize -----------------------------
(***************************************************************************)
(* `edgeproc sync --materialize-to`: a command syncs the cache, releases   *)
(* the cache's lock, takes it again and writes the files of the active     *)
(* release into a directory (edgeproc/cli/app.py).  Several commands share *)
(* the cache and the directory.                                            *)
(*                                                                         *)
(* Releases are numbered in the order in which they become active: what a  *)
(* sync may promote is the matter of CacheSync.  A file stands for its     *)
(* path, its bytes for the release they come from.                         *)
(***************************************************************************)
EXTENDS Naturals

CONSTANTS
  Command,
  MaxActive,   \* bound: the last release
  Path,
  FilesOf,     \* the paths of each release
  Clash,       \* pairs of paths of which one would be a directory of the other
  NoCommand,
  MaxCommands  \* bound: commands started

Missing == 0
Partial == MaxActive + 1

ASSUME MaterializeAssumption ==
  /\ MaxActive \in Nat \ {0} /\ MaxCommands \in Nat
  /\ FilesOf \in [1..MaxActive -> SUBSET Path]
  /\ Clash \subseteq Path \X Path
  /\ NoCommand \notin Command
  /\ Path \cap {"idle", "synced", "writing"} = {}

VARIABLES
  active,   \* the active release of the cache
  out,      \* out[f]: the release a file of the directory comes from
  mutex,    \* the command that holds the cache's lock
  at,       \* where each command is
  synced,   \* the release its sync promoted
  source,   \* the release it materializes
  left,     \* the files it has still to write
  started,  \* bound: commands so far
  shown     \* history: the newest release each file was completed from

materializeVars == <<active, out, mutex, at, synced, source, left, started, shown>>

MaterializeInit ==
  /\ active = 0
  /\ out = [f \in Path |-> Missing]
  /\ mutex = NoCommand
  /\ at = [k \in Command |-> "idle"]
  /\ synced = [k \in Command |-> 0] /\ source = [k \in Command |-> 0]
  /\ left = [k \in Command |-> {}]
  /\ started = 0
  /\ shown = [f \in Path |-> 0]

\* The sync, from lock to unlock: it promotes a fresher release, or the same
\* one again, and returns what it promoted.
Sync(k) ==
  /\ at[k] = "idle" /\ mutex = NoCommand /\ started < MaxCommands
  /\ started' = started + 1
  /\ \E r \in 1..MaxActive :
       /\ r >= active
       /\ active' = r
       /\ synced' = [synced EXCEPT ![k] = r]
  /\ at' = [at EXCEPT ![k] = "synced"]
  /\ UNCHANGED <<out, mutex, source, left, shown>>

\* Mutant: what the sync returned is materialized.
LockSynced(k) ==
  /\ at[k] = "synced" /\ mutex = NoCommand
  /\ mutex' = k
  /\ source' = [source EXCEPT ![k] = synced[k]]
  /\ left' = [left EXCEPT ![k] = FilesOf[synced[k]]]
  /\ at' = [at EXCEPT ![k] = "writing"]
  /\ UNCHANGED <<active, out, synced, started, shown>>

\* Mutant: the lock is not taken a second time.
ReadUnlocked(k) ==
  /\ at[k] = "synced"
  /\ source' = [source EXCEPT ![k] = active]
  /\ left' = [left EXCEPT ![k] = FilesOf[active]]
  /\ at' = [at EXCEPT ![k] = "writing"]
  /\ UNCHANGED <<active, out, mutex, synced, started, shown>>

\* The active pointer is read again, under the lock, and may be newer than
\* the one the command is going to report.
TakeLock(k) ==
  /\ at[k] = "synced" /\ mutex = NoCommand
  /\ mutex' = k
  /\ source' = [source EXCEPT ![k] = active]
  /\ left' = [left EXCEPT ![k] = FilesOf[active]]
  /\ at' = [at EXCEPT ![k] = "writing"]
  /\ UNCHANGED <<active, out, synced, started, shown>>

InTheWay(f) == \E g \in Path : {<<f, g>>, <<g, f>>} \cap Clash # {} /\ out[g] # Missing

\* write_bytes truncates the file, in place, once its bytes were read from
\* the cache and verified.
StartFile(k, f) ==
  /\ at[k] = "writing" /\ f \in left[k] /\ ~InTheWay(f)
  /\ out' = [out EXCEPT ![f] = Partial]
  /\ left' = [left EXCEPT ![k] = @ \ {f}]
  /\ at' = [at EXCEPT ![k] = f]
  /\ UNCHANGED <<active, mutex, synced, source, started, shown>>

FinishFile(k) ==
  /\ at[k] \in Path
  /\ out' = [out EXCEPT ![at[k]] = source[k]]
  /\ shown' = [shown EXCEPT ![at[k]] = IF @ > source[k] THEN @ ELSE source[k]]
  /\ at' = [at EXCEPT ![k] = "writing"]
  /\ UNCHANGED <<active, mutex, synced, source, left, started>>

\* However the command ends, its lock is free again.
End(k) ==
  /\ at' = [at EXCEPT ![k] = "idle"]
  /\ synced' = [synced EXCEPT ![k] = 0] /\ source' = [source EXCEPT ![k] = 0]
  /\ left' = [left EXCEPT ![k] = {}]
  /\ mutex' = IF mutex = k THEN NoCommand ELSE mutex
  /\ UNCHANGED <<active, out, started, shown>>

Done(k) == at[k] = "writing" /\ left[k] = {} /\ End(k)

\* A kill, an error of the disk, a chunk that no longer verifies, or a file
\* that an older release left where a directory must go.  The files are left
\* as they are.
Die(k) == at[k] # "idle" /\ End(k)

MaterializeNext ==
  \E k \in Command :
    \/ Sync(k) \/ TakeLock(k) \/ FinishFile(k) \/ Done(k) \/ Die(k)
    \/ \E f \in Path : StartFile(k, f)

MaterializeSpec == MaterializeInit /\ [][MaterializeNext]_materializeVars

-----------------------------------------------------------------------------
MaterializeTypeOK ==
  /\ active \in 0..MaxActive
  /\ out \in [Path -> 0..MaxActive + 1]
  /\ mutex \in Command \cup {NoCommand}
  /\ at \in [Command -> {"idle", "synced", "writing"} \cup Path]
  /\ synced \in [Command -> 0..MaxActive] /\ source \in [Command -> 0..MaxActive]
  /\ left \in [Command -> SUBSET Path]
  /\ started \in 0..MaxCommands
  /\ shown \in [Path -> 0..MaxActive]

\* A command that succeeds leaves every file of the release that is active at
\* that moment, whole, although the lock was free between its sync and its
\* writes and files of other releases and of dead commands lie about.
DoneShowsActive ==
  [][\A k \in Command : at[k] = "writing" /\ at'[k] = "idle" /\ left[k] = {}
       => /\ source[k] = active
          /\ \A f \in FilesOf[active] : out[f] = active]_materializeVars

\* No file is ever taken back to an older release: what was once completed
\* from a release is later either cut short or from a release as new, and
\* always at least as new as what the writer's own sync promoted.
NeverBackward ==
  /\ \A f \in Path : out[f] \in {Partial, shown[f]}
  /\ \A k \in Command : source[k] # 0 => source[k] >= synced[k]
=============================================================================
