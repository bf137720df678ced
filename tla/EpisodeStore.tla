---------------------------- MODULE EpisodeStore ----------------------------
(***************************************************************************)
(* The stored episode between API requests and the workflow worker.  A     *)
(* request loads the whole aggregate, changes it and saves all of it; no   *)
(* version is compared.  The worker runs its stages on a cached copy that  *)
(* it mutates in place, and saves through two wrappers that compare        *)
(* updated_at with what they remember: _ActiveWorkflowRunRepository for    *)
(* the stages of admitted episodes, _CachedWorkflowWorkerRepository for    *)
(* everything.  Each action is one read, one stamp of updated_at, or one   *)
(* commit; requests and worker are separate processes.                     *)
(*                                                                         *)
(* The content of an episode is the set of edits and the set of finished   *)
(* stages in it.  updated_at is the value of a clock that each save reads; *)
(* equal microseconds are left out, and so is the branch of the active     *)
(* repository that puts an episode back into transcript review.            *)
(***************************************************************************)
EXTENDS Integers, Sequences

CONSTANTS
  Edit,      \* API requests, each with an edit of its own
  Pausing,   \* the edits that pause or cancel the workflow
  Path       \* what a worker pass goes through, in order: "start" saves through the
             \* cached repository unless the workflow is blocked, "admit" builds the
             \* active repository, "active" stages save through it, "free" ones (visual
             \* reconciliation, the orchestration record) through the cached one

PathStep == {"start", "admit", "active", "free"}

ASSUME StoreAssumption ==
  /\ Pausing \subseteq Edit
  /\ Path \in Seq(PathStep) /\ Path # <<>>

VARIABLES
  clock,       \* the last updated_at handed out
  db,          \* the episode row
  phase, copy, \* where each request is, and the aggregate it holds
  wpc, at,     \* where the worker is, and its position in Path
  cached,      \* the worker's cached episode, mutated in place
  stamp,       \* the updated_at of the save the worker is in
  cachedVer,   \* _snapshot_updated_at of the cached repository
  activeVer,   \* _snapshot_updated_at of the active repository
  admitted,    \* the episode is in _admitted_episode_ids
  seen         \* the row as the last check of the worker read it

requests == <<phase, copy>>
snapshots == <<cached, cachedVer, activeVer, admitted>>
storeVars == <<clock, db, requests, wpc, at, stamp, snapshots, seen>>

Stage == {i \in 1..Len(Path) : Path[i] # "admit"}
Row == [ver : Nat, edits : SUBSET Edit, work : SUBSET Stage]

StoreTypeOK ==
  /\ clock \in Nat
  /\ db \in Row /\ seen \in Row /\ cached \in Row
  /\ phase \in [Edit -> {"ready", "loaded", "stamped", "done"}]
  /\ copy \in [Edit -> Row]
  /\ wpc \in {"idle", "work", "checkActive", "refresh", "checkCached", "stamp", "commit"}
  /\ at \in 1..Len(Path)
  /\ stamp \in Nat /\ cachedVer \in Nat /\ activeVer \in Nat
  /\ admitted \in BOOLEAN

Empty == [ver |-> 0, edits |-> {}, work |-> {}]

StoreInit ==
  /\ clock = 0
  /\ db = Empty /\ seen = Empty /\ cached = Empty
  /\ phase = [e \in Edit |-> "ready"]
  /\ copy = [e \in Edit |-> Empty]
  /\ wpc = "idle"
  /\ at = 1
  /\ stamp = 0 /\ cachedVer = 0 /\ activeVer = 0
  /\ admitted = FALSE

Blocked(row) == row.edits \cap Pausing # {}

\* The run that the "start" stage begins is what admits an episode.
Admissible(row) ==
  /\ ~Blocked(row)
  /\ \A i \in Stage : Path[i] = "start" => i \in row.work

-----------------------------------------------------------------------------
(* Requests.                                                               *)

Load(e) ==
  /\ phase[e] = "ready"
  /\ phase' = [phase EXCEPT ![e] = "loaded"]
  /\ copy' = [copy EXCEPT ![e] = db]
  /\ UNCHANGED <<clock, db, wpc, at, snapshots, seen, stamp>>

\* Mutant: the aggregate is saved with the updated_at it was loaded with.
StampNothing(e) ==
  /\ phase[e] = "loaded"
  /\ phase' = [phase EXCEPT ![e] = "stamped"]
  /\ copy' = [copy EXCEPT ![e].edits = @ \cup {e}]
  /\ UNCHANGED <<clock, db, wpc, at, snapshots, seen, stamp>>

\* The handler's change, and the first line of save.
Stamp(e) ==
  /\ phase[e] = "loaded"
  /\ phase' = [phase EXCEPT ![e] = "stamped"]
  /\ clock' = clock + 1
  /\ copy' = [copy EXCEPT ![e].ver = clock + 1, ![e].edits = @ \cup {e}]
  /\ UNCHANGED <<db, wpc, at, snapshots, seen, stamp>>

Commit(e) ==
  /\ phase[e] = "stamped"
  /\ phase' = [phase EXCEPT ![e] = "done"]
  /\ db' = copy[e]
  /\ UNCHANGED <<clock, copy, wpc, at, snapshots, seen, stamp>>

-----------------------------------------------------------------------------
(* The worker.                                                             *)

\* refresh() of the cached repository.
Refresh == cached' = db /\ cachedVer' = db.ver

StartPass ==
  /\ wpc = "idle"
  /\ wpc' = "work" /\ at' = 1
  /\ Refresh
  /\ UNCHANGED <<clock, db, requests, activeVer, admitted, seen, stamp>>

\* The next position of the pass, or the sleep after it.
NextStage ==
  \/ at < Len(Path) /\ wpc' = "work" /\ at' = at + 1
  \/ at = Len(Path) /\ wpc' = "idle" /\ at' = 1

\* _ActiveWorkflowRunRepository.__init__.
Admit ==
  /\ wpc = "work" /\ Path[at] = "admit"
  /\ activeVer' = cached.ver
  /\ admitted' = Admissible(cached)
  /\ NextStage
  /\ UNCHANGED <<clock, db, requests, cached, cachedVer, seen, stamp>>

HasWork ==
  /\ at \notin cached.work
  /\ Path[at] \in {"start", "active"} => ~Blocked(cached)
  /\ Path[at] = "active" => admitted

\* A stage with something to do changes the cached episode, then saves it.
Work ==
  /\ wpc = "work" /\ Path[at] # "admit" /\ HasWork
  /\ cached' = [cached EXCEPT !.work = @ \cup {at}]
  /\ wpc' = IF Path[at] = "active" THEN "checkActive" ELSE "checkCached"
  /\ UNCHANGED <<clock, db, requests, at, cachedVer, activeVer, admitted, seen, stamp>>

Skip ==
  /\ wpc = "work" /\ Path[at] # "admit" /\ ~HasWork
  /\ NextStage
  /\ UNCHANGED <<clock, db, requests, snapshots, seen, stamp>>

\* Mutant: a row as old as the snapshot counts as newer.
NewerOrSame(expected) == db.ver >= expected

Newer(expected) == db.ver > expected

\* _ActiveWorkflowRunRepository.save up to the save of the wrapped repository.
CheckActive ==
  /\ wpc = "checkActive"
  /\ seen' = db
  /\ \/ Newer(activeVer) /\ wpc' = "refresh" /\ UNCHANGED at
     \/ ~Newer(activeVer) /\ ~Admissible(db) /\ NextStage
     \/ ~Newer(activeVer) /\ Admissible(db) /\ wpc' = "checkCached" /\ UNCHANGED at
  /\ UNCHANGED <<clock, db, requests, snapshots, stamp>>

\* The stage's work is dropped; the version remembered is that of the first read.
RefreshActive ==
  /\ wpc = "refresh"
  /\ Refresh
  /\ activeVer' = seen.ver
  /\ NextStage
  /\ UNCHANGED <<clock, db, requests, admitted, seen, stamp>>

\* The active repository takes over the version of whatever its save returned.
Saved(ver) == activeVer' = IF Path[at] = "active" THEN ver ELSE activeVer

\* Mutant: the newer version is remembered, the stale aggregate is kept.
AdoptVersionOnly == UNCHANGED cached /\ cachedVer' = db.ver

\* _CachedWorkflowWorkerRepository.save, a newer row: it replaces the copy.
Adopt == cached' = db /\ cachedVer' = db.ver

CheckCached ==
  /\ wpc = "checkCached"
  /\ seen' = db
  /\ \/ Newer(cachedVer) /\ Adopt /\ Saved(db.ver) /\ NextStage
     \/ ~Newer(cachedVer) /\ wpc' = "stamp" /\ UNCHANGED <<at, cached, cachedVer, activeVer>>
  /\ UNCHANGED <<clock, db, requests, admitted, stamp>>

WorkerStamp ==
  /\ wpc = "stamp"
  /\ wpc' = "commit"
  /\ clock' = clock + 1
  /\ stamp' = clock + 1
  /\ UNCHANGED <<db, requests, at, snapshots, seen>>

WorkerCommit ==
  /\ wpc = "commit"
  /\ cached' = [cached EXCEPT !.ver = stamp]
  /\ db' = cached'
  /\ cachedVer' = stamp
  /\ Saved(stamp)
  /\ NextStage
  /\ UNCHANGED <<clock, requests, admitted, seen, stamp>>

WorkerProcess ==
  \/ StartPass \/ Admit \/ Work \/ Skip
  \/ CheckActive \/ RefreshActive \/ CheckCached \/ WorkerStamp \/ WorkerCommit

StoreNext == WorkerProcess \/ \E e \in Edit : Load(e) \/ Stamp(e) \/ Commit(e)

StoreSpec == StoreInit /\ [][StoreNext]_storeVars

\* The worker loop does not stop; nobody is obliged to send a request.
StoreFairSpec == StoreSpec /\ WF_storeVars(WorkerProcess)

-----------------------------------------------------------------------------
(* Properties.                                                             *)

(* updated_at names a revision, which the version checks rely on: whoever  *)
(* holds the version of the row holds the edits of the row.                *)
VersionNamesRow ==
  /\ \A e \in Edit : copy[e].ver = db.ver => copy[e].edits = db.edits
  /\ cached.ver = db.ver => cached.edits = db.edits

(* An edit can be lost to the worker in two ways only: it was committed    *)
(* after the worker's last look at the row, or it had been stamped before  *)
(* the revision the worker started from and was committed after it.        *)
LossWindow ==
  [][WorkerCommit =>
       \A e \in db.edits \ db'.edits : e \notin seen.edits \/ copy[e].ver <= cached.ver]_storeVars

(* Once no more edits arrive, a dropped stage is repeated on the current   *)
(* revision until everything the pass can do is in the row.                *)
WorkGetsDone ==
  <>[](\A i \in Stage : i \in db.work \/ (Path[i] \in {"start", "active"} /\ Blocked(db)))

=============================================================================
