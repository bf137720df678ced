------------------------------- MODULE Speech -------------------------------
(***************************************************************************)
(* From the reviewed transcript to its recordings: the versions of the     *)
(* broadcast transcript and their approvals (DiscussionEngine, the         *)
(* repository's approval decisions), the audio assets VoiceboxService      *)
(* plans for the turns of a version, the jobs it submits to the speech     *)
(* provider, the audio stage of the worker, and the adapter that collects  *)
(* what the provider finished.                                             *)
(*                                                                         *)
(* One language; localized transcripts are left out.  A version has fresh  *)
(* turns, so an asset belongs to one version.  The text is not modelled.   *)
(***************************************************************************)
EXTENDS Integers, Sequences, FiniteSets, FiniteSetsExt

CONSTANTS
  Turn,          \* the playable turns of a version
  External,      \* the Temporal worker runs the stages, not the local loop
  MaxVersions,   \* bounds: transcript versions,
  MaxDecisions,  \*   decisions of the reviewer,
  MaxAssets,     \*   audio assets,
  MaxJobs,       \*   jobs the provider takes,
  MaxRequests,   \*   requests about audio,
  MaxFaults      \*   failures of the provider, lost answers and kills

ASSUME TurnAssumption == Turn # {} /\ IsFiniteSet(Turn)
ASSUME ExternalAssumption == External \in BOOLEAN
ASSUME BoundAssumption ==
  /\ MaxVersions \in Nat \ {0}
  /\ {MaxDecisions, MaxAssets, MaxJobs, MaxRequests, MaxFaults} \subseteq Nat

VARIABLES
  row,       \* the stored episode: versions, approvals, assets, reviewing
  pass,      \* what each process is at with the provider, on a copy of the episode
  jobs,      \* the jobs of the provider
  regenerated, \* the versions a plan was asked to regenerate
  decisions, \* decisions, requests and faults so far (bounded)
  requests,
  faults

vars == <<row, pass, jobs, regenerated, decisions, requests, faults>>

Version == 1..MaxVersions
Decision == {"pending", "approved", "rejected"}
AssetStatus == {"planned", "submitted", "completed", "failed", "cancelled"}

Approval == [decision : Decision, target : Version]
Asset == [
   version : Version, turn : Turn, status : AssetStatus,
   endpoint : BOOLEAN,  \* voicebox_endpoint_id is recorded
   job : 0..MaxJobs,    \* remote_job_id
   mustCancel : BOOLEAN,
   retry : BOOLEAN]     \* ready_for_retry

NewAsset(v, t) ==
  [version |-> v, turn |-> t, status |-> "planned", endpoint |-> FALSE, job |-> 0,
   mustCancel |-> FALSE, retry |-> FALSE]

\* The workflow worker, the request in progress, and the adapter that polls.
Process == {"worker", "request", "adapter"}
Kind == {"generate", "regenerate", "sync", "cancel", "reset"}

NoPass(e) ==
  [busy |-> FALSE, kind |-> "generate", copy |-> e, todo |-> {}, planned |-> FALSE, stale |-> FALSE]

-----------------------------------------------------------------------------
(* The versions of the transcript and their review.                        *)

Canonical(e) == Len(e.versions)
CanonicalApproved(e) == e.versions[Canonical(e)] = "approved"
Approved(e) == {v \in DOMAIN e.versions : e.versions[v] = "approved"}
Pending(e) == {i \in DOMAIN e.approvals : e.approvals[i].decision = "pending"}

\* Mutant: a review is opened only when there never was one.
BoundOnce(approvals, v) == approvals

\* _ensure_pending_transcript_approval: the first pending approval is bound to
\* the new version, or a new one is opened.
Bound(approvals, v) ==
  LET P == {i \in DOMAIN approvals : approvals[i].decision = "pending"}
  IN IF P # {} THEN [approvals EXCEPT ![Min(P)].target = v]
               ELSE Append(approvals, [decision |-> "pending", target |-> v])

\* _append_broadcast_revision
Revised(e) ==
  [e EXCEPT !.versions = Append(@, "pending"),
            !.approvals = Bound(@, Len(e.versions) + 1),
            !.reviewing = TRUE]

\* _ensure_transcript_review_editable
Editable(e) == (e.reviewing \/ Pending(e) # {}) /\ ~CanonicalApproved(e)

\* record_approval_decision: whatever the approval was opened for, it decides
\* the canonical version.
Decided(e, i, decision) ==
  [e EXCEPT !.approvals[i] = [decision |-> decision, target |-> Canonical(e)],
            !.versions[Canonical(e)] = decision,
            !.reviewing = decision = "rejected"]

-----------------------------------------------------------------------------
(* The audio assets of a version.                                          *)

Of(e, v) == {i \in DOMAIN e.assets : e.assets[i].version = v}
In(e, v, statuses) == {i \in Of(e, v) : e.assets[i].status \in statuses}
Recorded(e, v) == {e.assets[i].turn : i \in Of(e, v)}

\* The turns with more than one recording.
Doubled(e) ==
  {r \in (DOMAIN e.versions) \X Turn :
     Cardinality({i \in Of(e, r[1]) : e.assets[i].turn = r[2]}) > 1}

\* Mutant: a recording that failed does not count as there.
MissingUnfailed(e, v) ==
  Turn \ {e.assets[i].turn : i \in In(e, v, AssetStatus \ {"failed"})}

\* The turns of v without an asset.
Missing(e, v) == Turn \ Recorded(e, v)

\* plan_audio_assets, in some order of the turns; regenerate adds an asset to
\* every turn and retires none.
Planned(e, v, regenerate) ==
  LET T == IF regenerate THEN Turn ELSE Missing(e, v)
      order == CHOOSE s \in [1..Cardinality(T) -> T] : {s[n] : n \in DOMAIN s} = T
  IN [e EXCEPT !.assets = @ \o [n \in DOMAIN order |-> NewAsset(v, order[n])],
               !.reviewing = FALSE]

\* _audio_generation_target_assets
WorkerTargets(e, v) ==
  {i \in Of(e, v) : \/ e.assets[i].status = "planned"
                    \/ e.assets[i].status \in {"failed", "cancelled"} /\ e.assets[i].retry}

NeedsAudio(e, v) == Missing(e, v) # {} \/ WorkerTargets(e, v) # {}

\* _production_transcript_candidates; without an approved canonical version
\* every approved one.
Candidates(e) == IF CanonicalApproved(e) THEN {Canonical(e)} ELSE Approved(e)

\* The local loop does not list an episode whose canonical version waits for
\* its review; the Temporal worker lists every episode.
Listed(e) == External \/ CanonicalApproved(e)

-----------------------------------------------------------------------------
(* What becomes of an asset.                                               *)

\* _normalize_tts_status, of the words of the provider that differ.
StatusOf(state) ==
  CASE state = "working" -> "submitted" [] state = "done" -> "completed" [] OTHER -> state

\* The provider says that job k is in this state.
Answered(a, k, state) ==
  [a EXCEPT !.status = StatusOf(state), !.endpoint = TRUE, !.job = k]

SubmitFailed(a) == [a EXCEPT !.status = "failed", !.endpoint = TRUE]

RequiresCancel(a) == a.status = "submitted" \/ (a.job # 0 /\ a.mustCancel)

\* _cancel_existing_job_before_retry succeeded.
Freed(a) == [a EXCEPT !.job = 0, !.mustCancel = FALSE, !.retry = TRUE]

\* cancel_audio_jobs
Cancelled(a, reset) ==
  [a EXCEPT !.status = IF reset THEN "planned" ELSE "cancelled",
            !.job = 0, !.mustCancel = FALSE, !.retry = reset]

Stopped(K) ==
  [k \in DOMAIN jobs |-> IF k \in K /\ jobs[k] = "working" THEN "cancelled" ELSE jobs[k]]

-----------------------------------------------------------------------------
(* Saving.                                                                 *)

Asked == requests < MaxRequests /\ requests' = requests + 1
Fault == faults < MaxFaults /\ faults' = faults + 1

\* A save outdates the copies of the other processes.
Ended(p) == [q \in Process |-> IF q # p /\ pass[q].busy THEN [pass[q] EXCEPT !.stale = TRUE]
                                                      ELSE NoPass(row')]
Saves(p, e) == row' = e /\ pass' = Ended(p)

\* A request that does not wait for the provider loads and saves at once.
Edits(e) == Saves("none", e)

Drops(p) == UNCHANGED row /\ pass' = [pass EXCEPT ![p] = NoPass(row)]

\* A pass of the local loop leaves a newer row alone; nobody else looks.
GivesWay(p) == p = "worker" /\ ~External /\ pass[p].stale

SavesUnlessNewer(p, e) == IF GivesWay(p) THEN Drops(p) ELSE Saves(p, e)

-----------------------------------------------------------------------------
(* The review.                                                             *)

Decide(i, decision) ==
  /\ i \in DOMAIN row.approvals
  /\ Decided(row, i, decision) # row
  /\ decisions < MaxDecisions /\ decisions' = decisions + 1
  /\ Edits(Decided(row, i, decision))
  /\ UNCHANGED <<jobs, regenerated, requests, faults>>

\* A turn is edited, excluded or spoken anew; an approved version is reopened;
\* the opening becomes a bridge, whatever the state of the review is.
Revise ==
  /\ Len(row.versions) < MaxVersions
  /\ Editable(row) \/ CanonicalApproved(row)
  /\ Edits(Revised(row))
  /\ UNCHANGED <<jobs, regenerated, decisions, requests, faults>>

-----------------------------------------------------------------------------
(* Generation passes: generate_audio_assets on the copy of a process.      *)

Start(p, kind, e, T, planned) ==
  /\ ~pass[p].busy
  /\ pass' = [pass EXCEPT ![p] =
       [busy |-> TRUE, kind |-> kind, copy |-> e, todo |-> T, planned |-> planned, stale |-> FALSE]]

\* Generations and cancellations leave the episode in another status.
Ready(e) == [e EXCEPT !.reviewing = FALSE]

\* run_audio_production_worker_once plans before it generates.
Prepared(v) == IF Missing(row, v) # {} THEN Planned(row, v, FALSE) ELSE row

CanStart ==
  /\ Listed(row)
  /\ LET N == {v \in Candidates(row) : NeedsAudio(row, v)}
     IN N # {} /\ Len(Prepared(Max(N)).assets) <= MaxAssets

WorkerStart ==
  /\ CanStart
  /\ LET v == Max({w \in Candidates(row) : NeedsAudio(row, w)})
         e == Prepared(v)
     IN Start("worker", "generate", Ready(e), WorkerTargets(e, v), e # row)
  /\ UNCHANGED <<row, jobs, regenerated, decisions, requests, faults>>

Regenerates(v, regenerate) ==
  regenerated' = regenerated \cup (IF regenerate THEN {v} ELSE {})

\* plan_audio_assets on request, of the canonical version, of the last approved
\* one, or of any approved one that is named.
PlanRequest ==
  /\ Asked
  /\ \E v \in Approved(row), regenerate \in BOOLEAN :
       /\ Len(Planned(row, v, regenerate).assets) <= MaxAssets
       /\ regenerate \/ Missing(row, v) # {}
       /\ Edits(Planned(row, v, regenerate))
       /\ Regenerates(v, regenerate)
  /\ UNCHANGED <<jobs, decisions, faults>>

Generation(regenerate) == IF regenerate THEN "regenerate" ELSE "generate"

\* generate_audio_assets on request, of all assets or of one.
GenerateRequest ==
  /\ Asked
  /\ \E v \in Approved(row), regenerate \in BOOLEAN :
       \E T \in {Of(row, v)} \cup {{i} : i \in Of(row, v)} :
         T # {} /\ Start("request", Generation(regenerate), Ready(row), T, FALSE)
  /\ UNCHANGED <<row, jobs, regenerated, decisions, faults>>

\* produce_episode_speech
ProduceRequest ==
  /\ Asked
  /\ \E v \in Approved(row), regenerate \in BOOLEAN :
       LET e == Planned(row, v, regenerate)
       IN /\ Len(e.assets) <= MaxAssets
          /\ Start("request", Generation(regenerate), Ready(e), Of(e, v), FALSE)
          /\ Regenerates(v, regenerate)
  /\ UNCHANGED <<row, jobs, decisions, faults>>

Due(p, i) ==
  /\ i \in pass[p].todo
  /\ pass[p].kind = "generate" => pass[p].copy.assets[i].status # "completed"

AtTurn(p, i) == pass[p].busy /\ Due(p, i) /\ \A j \in pass[p].todo : Due(p, j) => i <= j

CancelDue(p, i) ==
  LET a == pass[p].copy.assets[i] IN pass[p].kind = "regenerate" /\ RequiresCancel(a) /\ a.job # 0

Submits(p, i) ==
  AtTurn(p, i) /\ pass[p].kind \in {"generate", "regenerate"} /\ ~CancelDue(p, i)

Worked(p, i, a) ==
  pass' = [pass EXCEPT ![p].copy.assets[i] = a, ![p].todo = {j \in @ : i < j}]

\* _cancel_existing_job_before_retry: without the cancellation no new job.
CancelFirst(p, i) ==
  LET a == pass[p].copy.assets[i]
  IN /\ AtTurn(p, i) /\ CancelDue(p, i)
     /\ \/ /\ jobs' = Stopped({a.job})
           /\ pass' = [pass EXCEPT ![p].copy.assets[i] = [Freed(a) EXCEPT !.status = "planned"]]
           /\ UNCHANGED faults
        \/ jobs' \in {jobs, Stopped({a.job})} /\ Worked(p, i, [a EXCEPT !.status = "failed"]) /\ Fault
     /\ UNCHANGED <<row, regenerated, decisions, requests>>

\* The provider takes the job, finishes it at once, or its answer is lost.
Submit(p, i) ==
  LET a == pass[p].copy.assets[i]
      k == Len(jobs) + 1
  IN /\ Submits(p, i) /\ k <= MaxJobs
     /\ \E state \in {"working", "done"} :
          /\ jobs' = Append(jobs, state)
          /\ \/ Worked(p, i, Answered(a, k, state)) /\ UNCHANGED faults
             \/ Worked(p, i, SubmitFailed(a)) /\ Fault
     /\ UNCHANGED <<row, regenerated, decisions, requests>>

\* The provider refuses the call.
Refuse(p, i) ==
  /\ Submits(p, i) /\ Len(jobs) >= MaxJobs
  /\ Worked(p, i, SubmitFailed(pass[p].copy.assets[i]))
  /\ UNCHANGED <<row, jobs, regenerated, decisions, requests, faults>>

\* A ValueError, as when the provider sends no audio, ends the pass.  The asset
\* is marked as submitted by then; only a worker that planned saves its copy.
Raise(p, i) ==
  /\ Submits(p, i) /\ Fault
  /\ IF p = "worker" /\ pass[p].planned
     THEN SavesUnlessNewer(p, [pass[p].copy EXCEPT !.assets[i].status = "submitted"])
     ELSE Drops(p)
  /\ UNCHANGED <<jobs, regenerated, decisions, requests>>

PassEnd(p) ==
  /\ pass[p].busy /\ \A i \in pass[p].todo : ~Due(p, i)
  /\ SavesUnlessNewer(p, pass[p].copy)
  /\ UNCHANGED <<jobs, regenerated, decisions, requests, faults>>

Kill(p) ==
  /\ pass[p].busy /\ Fault
  /\ Drops(p)
  /\ UNCHANGED <<jobs, regenerated, decisions, requests>>

-----------------------------------------------------------------------------
(* Cancellation and synchronisation: the provider is asked about each      *)
(* asset in turn, and the copy saved in the end.                           *)

\* cancel_audio_jobs, of all assets that allow it or of one.
CancelRequest ==
  /\ Asked
  /\ \E v \in Approved(row), reset \in BOOLEAN :
       LET C == In(row, v, {"submitted", "failed"} \cup (IF reset THEN {"cancelled"} ELSE {}))
       IN \E T \in ({C} \cup {{i} : i \in C}) \ {{}} :
            Start("request", IF reset THEN "reset" ELSE "cancel", Ready(row), T, FALSE)
  /\ UNCHANGED <<row, jobs, regenerated, decisions, faults>>

\* The provider may have stopped the job when the call fails.
CancelJob(p, i) ==
  LET a == pass[p].copy.assets[i]
      remote == a.endpoint /\ a.job # 0
  IN /\ AtTurn(p, i) /\ pass[p].kind \in {"cancel", "reset"}
     /\ \/ /\ jobs' = IF remote THEN Stopped({a.job}) ELSE jobs
           /\ Worked(p, i, Cancelled(a, pass[p].kind = "reset"))
           /\ UNCHANGED faults
        \/ /\ remote /\ Fault
           /\ jobs' \in {jobs, Stopped({a.job})}
           /\ Worked(p, i, [a EXCEPT !.mustCancel = TRUE])
     /\ UNCHANGED <<row, regenerated, decisions, requests>>

\* Mutant: the first approved version is synchronised.
SyncVersionFirst(e) == Min(Approved(e))

\* A poll names only the language: the last approved version is meant.
SyncVersion(e) == Max(Approved(e))

\* run_voicebox_adapter_once
Poll ==
  /\ Approved(row) # {}
  /\ LET T == In(row, SyncVersion(row), {"submitted"}) IN
     T # {} /\ Start("adapter", "sync", row, T, FALSE)
  /\ UNCHANGED <<row, jobs, regenerated, decisions, requests, faults>>

\* sync_audio_results on request, of what was submitted or of one asset.
SyncRequest ==
  /\ Asked
  /\ \E v \in Approved(row) :
     \E T \in ({In(row, v, {"submitted"})} \cup {{i} : i \in Of(row, v)}) \ {{}} :
       Start("request", "sync", row, T, FALSE)
  /\ UNCHANGED <<row, jobs, regenerated, decisions, faults>>

\* An asset without an endpoint is passed over, one without a job has failed.
\* A poll may fail, and a result that is there may be impossible to fetch.
SyncJob(p, i) ==
  LET a == pass[p].copy.assets[i]
      failed == [a EXCEPT !.status = "failed"]
  IN /\ AtTurn(p, i) /\ pass[p].kind = "sync"
     /\ \/ ~a.endpoint /\ Worked(p, i, a) /\ UNCHANGED faults
        \/ a.endpoint /\ a.job = 0 /\ Worked(p, i, failed) /\ UNCHANGED faults
        \/ /\ a.endpoint /\ a.job # 0
           /\ \/ Worked(p, i, Answered(a, a.job, jobs[a.job])) /\ UNCHANGED faults
              \/ Worked(p, i, a) /\ Fault
              \/ jobs[a.job] = "done" /\ Worked(p, i, failed) /\ Fault
     /\ UNCHANGED <<row, jobs, regenerated, decisions, requests>>

Finish(k) ==
  /\ jobs[k] = "working"
  /\ \/ jobs' = [jobs EXCEPT ![k] = "done"] /\ UNCHANGED faults
     \/ jobs' = [jobs EXCEPT ![k] = "failed"] /\ Fault
  /\ UNCHANGED <<row, pass, regenerated, decisions, requests>>

-----------------------------------------------------------------------------
\* The engine has made the first version and asked for its review.
Init ==
  /\ row = [versions |-> <<"pending">>,
            approvals |-> <<[decision |-> "pending", target |-> 1]>>,
            assets |-> <<>>, reviewing |-> TRUE]
  /\ pass = [p \in Process |-> NoPass(row)]
  /\ jobs = <<>> /\ regenerated = {} /\ decisions = 0 /\ requests = 0 /\ faults = 0

Step(p) ==
  \/ PassEnd(p)
  \/ \E i \in pass[p].todo : \/ CancelFirst(p, i) \/ Submit(p, i) \/ Refuse(p, i)
                             \/ CancelJob(p, i) \/ SyncJob(p, i)

Next ==
  \/ \E i \in DOMAIN row.approvals, d \in {"approved", "rejected"} : Decide(i, d)
  \/ Revise
  \/ PlanRequest \/ GenerateRequest \/ ProduceRequest \/ CancelRequest \/ SyncRequest
  \/ WorkerStart \/ Poll
  \/ \E p \in Process : \/ Step(p) \/ Kill(p)
                        \/ \E i \in pass[p].todo : Raise(p, i)
  \/ \E k \in DOMAIN jobs : Finish(k)

Spec == Init /\ [][Next]_vars

\* The worker looks at the episode on every pass, the adapter polls, both and
\* the requests get their answers, and the provider comes to an end with every
\* job it took.
FairSpec ==
  /\ Spec
  /\ []<>(pass["worker"].busy \/ ~CanStart)
  /\ \A p \in Process : []<>~pass[p].busy
  /\ WF_vars(Poll)
  /\ \A k \in 1..MaxJobs : WF_vars(k \in DOMAIN jobs /\ Finish(k))

-----------------------------------------------------------------------------
Episode ==
  [versions : Seq(Decision), approvals : Seq(Approval), assets : Seq(Asset),
   reviewing : BOOLEAN]

TypeOK ==
  /\ row \in Episode
  /\ DOMAIN pass = Process
  /\ \A p \in Process :
       /\ pass[p].copy \in Episode /\ pass[p].todo \subseteq DOMAIN pass[p].copy.assets
       /\ pass[p].kind \in Kind
  /\ regenerated \subseteq Version
  /\ jobs \in Seq({"working", "done", "failed", "cancelled"})
  /\ requests \in 0..MaxRequests /\ faults \in 0..MaxFaults

(***************************************************************************)
(* However the reviews, edits and reopenings follow one another, and       *)
(* whichever stale copy was saved over them: the status of the canonical   *)
(* transcript is that of a recorded decision about this very version, and  *)
(* a version nobody decided about has a review open.  The completion gates *)
(* and the claim check rely on it.                                         *)
(***************************************************************************)
ReviewDecides ==
  \E i \in DOMAIN row.approvals :
    /\ row.approvals[i].decision = row.versions[Canonical(row)]
    /\ row.approvals[i].target = Canonical(row)

(***************************************************************************)
(* A turn gets a second recording only if a plan was asked to regenerate   *)
(* its version, whichever passes were killed or repeated and whichever     *)
(* stale copy was saved back: the timeline plays the last recording, the   *)
(* lip-synced clip is made from the first.                                 *)
(***************************************************************************)
OneRecording == Doubled(row) \subseteq regenerated \X Turn

\* Marked as submitted by a pass that a ValueError ended: neither the worker
\* nor the adapter takes such an asset up.
Stranded(a) == a.status = "submitted" /\ ~a.endpoint

Settled(v) ==
  /\ Missing(row, v) = {} \/ Len(Prepared(v).assets) > MaxAssets
  /\ \A i \in Of(row, v) :
       row.assets[i].status \in {"completed", "failed", "cancelled"} \/ Stranded(row.assets[i])

\* A save came between the load of a copy and the end of the pass that holds it.
Overtaken == \E p \in Process : pass[p].stale

(***************************************************************************)
(* Once saves no longer overtake one another, every turn of an approved    *)
(* canonical version is recorded or marked as failed or cancelled in the   *)
(* end: no asset waits for ever for a job, whatever answer, save or        *)
(* process was lost on the way.  It says nothing of jobs that no asset     *)
(* names any more, and an adapter that overtakes each pass of the worker   *)
(* could keep it from its work for ever.                                   *)
(***************************************************************************)
SpeechSettles == <>[]~Overtaken => []<>(CanonicalApproved(row) => Settled(Canonical(row)))

=============================================================================
