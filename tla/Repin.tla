------------------------------- MODULE Repin --------------------------------
(***************************************************************************)
(* The re-pin worker: on a Dependabot branch it copies the tool versions   *)
(* of uv.lock into the literals that repeat them, as a commit of its own   *)
(* (scripts/repin_locked_tools.py), while Dependabot pushes to the branch. *)
(* A push starts a worker; the one before it may still be at work.         *)
(***************************************************************************)
EXTENDS Naturals, Sequences

CONSTANTS
  Tool, ToolVersion,
  FirstVersion, \* what main has
  Literal,      \* the places that repeat a version
  ToolOf,       \* the tool each of them names
  Worker,
  MaxCommits    \* bound: commits on the branch

ASSUME RepinAssumption ==
  /\ ToolOf \in [Literal -> Tool] /\ FirstVersion \in ToolVersion
  /\ MaxCommits \in Nat \ {0}

VARIABLES
  commits,  \* every commit there was; its position is its sha
  head,     \* the commit the branch is at
  ci,       \* the state of the CI run of each commit
  worker    \* the local variables of each worker

repinVars == <<commits, head, ci, worker>>

Commit == [lock : [Tool -> ToolVersion], literals : [Literal -> ToolVersion],
           by : {"dependabot", "repin"}]
Sha == 0..MaxCommits
CI == {"live", "completed", "cancelled"}

Resting == [at |-> "resting", sha |-> 0, pending |-> {}]
AtWork == [at : {"resting", "read", "fetched", "committed", "cancelling"},
           sha : Sha, pending : SUBSET Sha]

RepinInit ==
  /\ commits = <<[lock |-> [t \in Tool |-> FirstVersion],
                  literals |-> [l \in Literal |-> FirstVersion], by |-> "dependabot"]>>
  /\ head = 1
  /\ ci = <<"live">>
  /\ worker = [w \in Worker |-> Resting]

Land(commit) ==
  /\ Len(commits) < MaxCommits
  /\ commits' = Append(commits, commit)
  /\ ci' = Append(ci, "live")
  /\ head' = Len(commits) + 1

\* Dependabot bumps a tool, or rebases: it starts from the first commit, as
\* from main, and what was on the branch is gone.
Push ==
  /\ \E lock \in [Tool -> ToolVersion] :
       Land([lock |-> lock, literals |-> commits[1].literals, by |-> "dependabot"])
  /\ UNCHANGED worker

FinishCI(sha) ==
  /\ ci[sha] = "live"
  /\ ci' = [ci EXCEPT ![sha] = "completed"]
  /\ UNCHANGED <<commits, head, worker>>

Goto(w, at) == worker' = [worker EXCEPT ![w].at = at]

\* The guard on author, repository and branch holds of this branch.
ReadHead(w) ==
  /\ worker[w].at = "resting"
  /\ worker' = [worker EXCEPT ![w] = [at |-> "read", sha |-> head, pending |-> {}]]
  /\ UNCHANGED <<commits, head, ci>>

Stale(c) == {l \in Literal : c.literals[l] # c.lock[ToolOf[l]]}

\* The lock and the files are fetched at the sha that was read, and planned.
Fetch(w) ==
  /\ worker[w].at = "read"
  /\ IF Stale(commits[worker[w].sha]) = {}
     THEN worker' = [worker EXCEPT ![w] = Resting]
     ELSE Goto(w, "fetched")
  /\ UNCHANGED <<commits, head, ci>>

\* The changed files in place of the head's: both files, taken from `sha`,
\* on top of what the branch has.
Repinned(sha) ==
  LET old == commits[sha] IN
  [lock |-> commits[head].lock,
   literals |-> [l \in Literal |-> IF l \in Stale(old) THEN old.lock[ToolOf[l]]
                                   ELSE commits[head].literals[l]],
   by |-> "repin"]

\* Mutant: the commit is made on whatever the head is.
CommitAnyway(w) ==
  /\ worker[w].at = "fetched"
  /\ Land(Repinned(worker[w].sha))
  /\ Goto(w, "committed")

\* expectedHeadOid: only on top of the head that was read.
CommitOnHead(w) ==
  /\ worker[w].at = "fetched" /\ head = worker[w].sha
  /\ Land(Repinned(worker[w].sha))
  /\ Goto(w, "committed")

CommitRefused(w) ==
  /\ worker[w].at = "fetched" /\ head # worker[w].sha
  /\ worker' = [worker EXCEPT ![w] = Resting]
  /\ UNCHANGED <<commits, head, ci>>

\* The commit is applied and its reply is lost: the worker gives up.
CommitUnheard(w) ==
  /\ worker[w].at = "fetched" /\ head = worker[w].sha
  /\ Land(Repinned(worker[w].sha))
  /\ worker' = [worker EXCEPT ![w] = Resting]

\* Mutant: the runs of the present head are listed.
ListHeadRuns(w) ==
  /\ worker[w].at = "committed"
  /\ worker' = [worker EXCEPT ![w].at = "cancelling",
                              ![w].pending = {s \in {head} : ci[s] # "completed"}]
  /\ UNCHANGED <<commits, head, ci>>

\* The runs of the commit that was read that are not completed; they may
\* complete before they are cancelled.
ListRuns(w) ==
  /\ worker[w].at = "committed"
  /\ worker' = [worker EXCEPT ![w].at = "cancelling",
                              ![w].pending = {s \in {worker[w].sha} : ci[s] # "completed"}]
  /\ UNCHANGED <<commits, head, ci>>

Cancel(w, sha) ==
  /\ worker[w].at = "cancelling" /\ sha \in worker[w].pending
  /\ worker' = [worker EXCEPT ![w].pending = @ \ {sha}]
  /\ ci' = [ci EXCEPT ![sha] = IF @ = "live" THEN "cancelled" ELSE @]
  /\ UNCHANGED <<commits, head>>

RepinDone(w) ==
  /\ worker[w].at = "cancelling" /\ worker[w].pending = {}
  /\ worker' = [worker EXCEPT ![w] = Resting]
  /\ UNCHANGED <<commits, head, ci>>

\* Cancelled by the run of a newer push, timed out, or an error of the API.
Abort(w) ==
  /\ worker[w].at # "resting"
  /\ worker' = [worker EXCEPT ![w] = Resting]
  /\ UNCHANGED <<commits, head, ci>>

RepinNext ==
  \/ Push
  \/ \E sha \in 1..Len(commits) : FinishCI(sha)
  \/ \E w \in Worker :
       \/ ReadHead(w) \/ Fetch(w)
       \/ CommitOnHead(w) \/ CommitRefused(w) \/ CommitUnheard(w)
       \/ ListRuns(w) \/ RepinDone(w) \/ Abort(w)
       \/ \E sha \in 1..Len(commits) : Cancel(w, sha)

RepinSpec == RepinInit /\ [][RepinNext]_repinVars

-----------------------------------------------------------------------------
RepinTypeOK ==
  /\ commits \in Seq(Commit) /\ Len(commits) \in 1..MaxCommits
  /\ head \in 1..Len(commits)
  /\ ci \in [1..Len(commits) -> CI]
  /\ worker \in [Worker -> AtWork]

\* What the worker commits agrees with the lock it is committed beside, in
\* every literal, however pushes and workers interleave and whatever is lost.
CommitsPinned ==
  \A i \in 1..Len(commits) : commits[i].by = "repin" => Stale(commits[i]) = {}

\* The worker cancels the checks of commits the branch has left, never those
\* of the commit it is at.
HeadNotCancelled == ci[head] # "cancelled"
=============================================================================
