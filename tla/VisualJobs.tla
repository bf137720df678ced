----------------------------- MODULE VisualJobs -----------------------------
(***************************************************************************)
(* The pictures of a seated panel: a plate of the seated character, the    *)
(* studio master composed from it, and the clip of a turn filmed in the    *)
(* master.  Each is made by a job of a remote provider; plate and master   *)
(* wait for a person to approve them before anything is made from them.    *)
(*                                                                         *)
(* A pass of a process loads the episode, calls the provider for asset     *)
(* after asset and saves at the end: the worker generates, the adapter     *)
(* collects results, a request generates, collects, cancels or reviews.    *)
(* Between, the other processes save too.  The worker's save gives way to  *)
(* a newer row (EpisodeStore has the gap between its check and its         *)
(* commit); nobody else looks.  Of an episode only these assets are kept;  *)
(* `submitted' stands for running as well, which no code tells apart.      *)
(*                                                                         *)
(* The provider is B1's managed media, as seated panels require; ComfyUI's *)
(* own /prompt, which takes no Idempotency-Key, is left out, and so are    *)
(* media quality checks, the mock adapter and endpoints or profiles that   *)
(* go missing, except that a turn may have no visual profile.              *)
(***************************************************************************)
EXTENDS Naturals, Sequences, FiniteSets

CONSTANTS
  RetryLimit,  \* workflow_stage_retry_max_attempts
  Named,       \* what generation requests carry: TRUE with a user_id, FALSE without
  Made,        \* how much is made and approved at the start: 0 nothing, 1 the plate,
               \* 2 the master as well
  MaxPlans,    \* bounds: plans that create an asset,
  MaxJobs,     \* jobs the provider takes before it refuses,
  MaxRequests, \* requests of operators, and
  MaxFaults    \* failed jobs, lost calls and processes killed

ASSUME VisualAssumption ==
  /\ RetryLimit \in Nat \ {0}
  /\ Named \subseteq BOOLEAN /\ Made \subseteq 0..2
  /\ MaxPlans \in Nat \ {0} /\ MaxJobs \in Nat /\ MaxRequests \in Nat /\ MaxFaults \in Nat

VARIABLES
  row,      \* the stored assets
  pass,     \* what each process is at with the provider, on a copy of the episode
  jobs,     \* the provider's jobs
  plans,    \* plans that created an asset
  uncast,   \* another turn of the transcript has no visual profile
  requests, faults,
  replayed  \* a submission of a plate was answered with a job finished before

vars == <<row, pass, jobs, plans, uncast, requests, faults, replayed>>
budget == <<requests, faults>>

Role == <<"plate", "master", "clip">>
Id == [role : {"plate", "master", "clip"}, plan : 1..MaxPlans]
Status == {"planned", "submitted", "completed", "failed", "cancelled", "replaced"}

Asset ==
  [dep : Nat,          \* depends_on_asset_ids: the plan of the plate or master, or 0
   status : Status,
   approval : {"none", "pending", "approved", "rejected"},
   job : Nat,          \* remote_job_id, or 0
   mustCancel : BOOLEAN, \* remote_job_cancellation_required
   pic : Nat,          \* the job that made the stored picture, or 0
   seen : Nat,         \* the picture the last reviewer saw
   tries : Nat,        \* generation_attempt_count
   retry : {"unset", "yes", "no"}] \* ready_for_retry

NewAsset(dep) ==
  [dep |-> dep, status |-> "planned", approval |-> "none", job |-> 0, mustCancel |-> FALSE,
   pic |-> 0, seen |-> 0, tries |-> 0, retry |-> "unset"]

Job == [asset : Id, attempt : Nat, base : Nat,
        state : {"working", "done", "failed", "cancelled"}]

\* The workflow worker, the request in progress, and the adapter that polls.
Process == {"worker", "request", "adapter"}
Kind == {"generate", "regenerate", "sync", "cancel", "reset", "review"}

NoPass == [busy |-> FALSE, kind |-> "generate", copy |-> <<>>, todo |-> {},
           named |-> TRUE, stale |-> FALSE]

-----------------------------------------------------------------------------
(* Looking assets up.                                                      *)

Standing(e) == {i \in DOMAIN e : e[i].status # "replaced"}

\* The latest asset of a role that is not replaced, as its plan, or 0.
Active(e, role) ==
  LET P == {i.plan : i \in {i \in Standing(e) : i.role = role}}
  IN IF P = {} THEN 0 ELSE CHOOSE p \in P : \A q \in P : q <= p

Below(i, a) == [role |-> IF i.role = "clip" THEN "master" ELSE "plate", plan |-> a.dep]

\* _visual_dependency_state is None.
Clear(e, i) ==
  \/ i.role = "plate"
  \/ LET d == Below(i, e[i])
     IN d \in DOMAIN e /\ e[d].status = "completed" /\ e[d].approval = "approved"

\* The picture the provider is given to work from.
Base(e, i) == IF i.role = "plate" THEN 0 ELSE e[Below(i, e[i])].pic

\* Mutant: an asset whose retries are used up or that was cancelled is taken up again.
WorkerTargetsAll(e) == {i \in Standing(e) : e[i].status \in {"planned", "failed", "cancelled"}}

WorkerTargets(e) ==
  {i \in Standing(e) : \/ e[i].status = "planned"
                       \/ e[i].status \in {"failed", "cancelled"} /\ e[i].retry # "no"}

\* A turn without a profile is never planned and so always misses its clip.
MissesClip(e) == uncast \/ Active(e, "clip") = 0

-----------------------------------------------------------------------------
(* Planning.                                                               *)

Replaced(e, I) == [i \in DOMAIN e |-> IF i \in I THEN [e[i] EXCEPT !.status = "replaced"]
                                                 ELSE e[i]]

\* The plan of the asset that serves on, or 0: what depended on another is retired.
Kept(e, role, dep) ==
  LET p == Active(e, role)
  IN IF p # 0 /\ e[[role |-> role, plan |-> p]].dep = dep THEN p ELSE 0

\* _plan_seated_panel_assets without regenerate; n is the plan new assets belong to.
Planned(e, n) ==
  LET Or(p) == IF p = 0 THEN n ELSE p
      plate == Or(Active(e, "plate"))
      master == Or(Kept(e, "master", plate))
      clip == Or(Kept(e, "clip", master))
      chain == {[role |-> "plate", plan |-> plate], [role |-> "master", plan |-> master],
                [role |-> "clip", plan |-> clip]}
      dep == [plate |-> 0, master |-> plate, clip |-> master]
      old == Replaced(e, {i \in Standing(e) : i.role # "plate" /\ i \notin chain})
  IN [i \in DOMAIN e \cup chain |-> IF i \in DOMAIN e THEN old[i] ELSE NewAsset(dep[i.role])]

\* The plans used up: none when nothing was missing.
PlansAfter(e, n) == IF DOMAIN Planned(e, n) = DOMAIN e THEN plans ELSE n

-----------------------------------------------------------------------------
(* What becomes of an asset.                                               *)

\* _normalize_visual_status, of the provider's words that differ.
NormalStatus(state) ==
  CASE state = "working" -> "submitted" [] state = "done" -> "completed" [] OTHER -> state

\* Mutant: a plate made anew keeps the approval of the picture before it.
AppliedKeepingReview(i, a, k, state, named) ==
  [a EXCEPT
     !.status = NormalStatus(state),
     !.job = k,
     !.mustCancel = state = "working",
     !.pic = CASE state = "working" -> 0 [] state = "done" -> k [] OTHER -> @,
     !.retry = IF state = "working" THEN "unset" ELSE @,
     !.approval = IF state = "done" /\ i.role # "clip" /\ @ = "none" THEN "pending" ELSE @,
     !.tries = IF named THEN @ + 1 ELSE @]

\* _apply_visual_result: the provider says that job k is in this state.
Applied(i, a, k, state, named) ==
  [a EXCEPT
     !.status = NormalStatus(state),
     !.job = k,
     !.mustCancel = state = "working",
     !.pic = CASE state = "working" -> 0 [] state = "done" -> k [] OTHER -> @,
     !.retry = IF state = "working" THEN "unset" ELSE @,
     !.approval = CASE state = "working" /\ i.role = "plate" -> "none"
                    [] state = "done" /\ i.role # "clip" /\ @ = "none" -> "pending"
                    [] OTHER -> @,
     !.tries = IF named THEN @ + 1 ELSE @]

\* Mutant: a failed submission does not count as an attempt.
SubmitFailedUncounted(a) ==
  [a EXCEPT !.status = "failed", !.pic = 0,
            !.retry = IF a.tries + 1 < RetryLimit THEN "yes" ELSE "no"]

\* The submission raised.
SubmitFailed(a) ==
  [a EXCEPT !.status = "failed", !.pic = 0, !.tries = @ + 1,
            !.retry = IF a.tries + 1 < RetryLimit THEN "yes" ELSE "no"]

RequiresCancel(a) == a.status = "submitted" \/ (a.job # 0 /\ a.mustCancel)

\* _cancel_existing_job_before_retry succeeded.
Freed(a) == [a EXCEPT !.job = 0, !.mustCancel = FALSE, !.retry = "yes"]

\* cancel_visual_jobs.
Cancelled(a, reset) ==
  [a EXCEPT !.status = IF reset THEN "planned" ELSE "cancelled", !.pic = 0, !.job = 0,
            !.mustCancel = FALSE, !.retry = IF reset THEN "yes" ELSE "no"]

-----------------------------------------------------------------------------
(* The provider.                                                           *)

\* The jobs it has under the Idempotency-Key of this attempt.
Known(i, attempt) == {k \in DOMAIN jobs : jobs[k].asset = i /\ jobs[k].attempt = attempt}

\* jobs after a cancellation: what is no longer working is left as it is.
Stopped(k) == IF k \in DOMAIN jobs /\ jobs[k].state = "working"
                THEN [jobs EXCEPT ![k].state = "cancelled"] ELSE jobs

Fault == faults < MaxFaults /\ faults' = faults + 1

Finish(k) ==
  /\ jobs[k].state = "working"
  /\ \/ jobs' = [jobs EXCEPT ![k].state = "done"] /\ UNCHANGED faults
     \/ jobs' = [jobs EXCEPT ![k].state = "failed"] /\ Fault
  /\ UNCHANGED <<row, pass, plans, uncast, requests, replayed>>

-----------------------------------------------------------------------------
(* Saving.                                                                 *)

Asked == requests < MaxRequests /\ requests' = requests + 1

\* A save outdates the copies of the other processes.
Ended(p) == [q \in Process |-> IF q # p /\ pass[q].busy THEN [pass[q] EXCEPT !.stale = TRUE]
                                                      ELSE NoPass]
Saves(p, e) == row' = e /\ pass' = Ended(p)

\* A request that does not wait for the provider loads and saves at once.
Edits(e) == Saves("none", e)

Drops(p) == UNCHANGED row /\ pass' = [pass EXCEPT ![p] = NoPass]

Start(p, kind, e, T, named) ==
  /\ ~pass[p].busy
  /\ pass' = [pass EXCEPT ![p] = [busy |-> TRUE, kind |-> kind, copy |-> e, todo |-> T,
                                  named |-> named, stale |-> FALSE]]

Rank(i) == 3 * i.plan + (CHOOSE n \in 1..3 : Role[n] = i.role)

Generates(p) == pass[p].kind \in {"generate", "regenerate"}

Due(p, i) ==
  /\ i \in pass[p].todo
  /\ pass[p].kind = "generate" => pass[p].copy[i].status # "completed"
  /\ Generates(p) => Clear(pass[p].copy, i)

\* The next asset in the order of the list; those before it are passed over.
Turn(p, i) == pass[p].busy /\ Due(p, i) /\ \A j \in pass[p].todo : Due(p, j) => Rank(i) <= Rank(j)

Worked(p, i, a) ==
  pass' = [pass EXCEPT ![p].copy[i] = a, ![p].todo = {j \in @ : Rank(j) > Rank(i)}]

PassEnd(p) ==
  /\ pass[p].busy /\ \A i \in pass[p].todo : ~Due(p, i)
  /\ IF p = "worker" /\ pass[p].stale THEN Drops(p) ELSE Saves(p, pass[p].copy)
  /\ UNCHANGED <<jobs, plans, uncast, budget, replayed>>

\* Killed, or ended by a ValueError: nothing is saved.
Kill(p) ==
  /\ pass[p].busy /\ Fault
  /\ Drops(p)
  /\ UNCHANGED <<jobs, plans, uncast, requests, replayed>>

-----------------------------------------------------------------------------
(* Generation passes: generate_visual_assets on the copy of a process.     *)

\* targeted_asset_ids or None: no target means every asset.
TargetsOrAll(T, e) == IF T # {} THEN T ELSE Standing(e)

CanStart ==
  /\ MissesClip(row) \/ WorkerTargets(row) # {}
  /\ MissesClip(row) => PlansAfter(row, plans + 1) <= MaxPlans
  /\ uncast => Len(jobs) < MaxJobs  \* bound: such a worker would go on for ever

WorkerStart ==
  /\ CanStart
  /\ LET e == IF MissesClip(row) THEN Planned(row, plans + 1) ELSE row
     IN Start("worker", "generate", e, TargetsOrAll(WorkerTargets(e), e), TRUE)
  /\ plans' = IF MissesClip(row) THEN PlansAfter(row, plans + 1) ELSE plans
  /\ UNCHANGED <<row, jobs, uncast, budget, replayed>>

\* A request to generate one asset or all of them.
RequestStart ==
  /\ Standing(row) # {} /\ Asked
  /\ \E T \in {Standing(row)} \cup {{i} : i \in Standing(row)}, n \in Named,
        kind \in {"generate", "regenerate"} : Start("request", kind, row, T, n)
  /\ UNCHANGED <<row, jobs, plans, uncast, faults, replayed>>

\* repair_directed_visual_assets: what failed is planned anew and generated.
RepairStart ==
  /\ Standing(row) # {} /\ Asked
  /\ LET broken == {i \in Standing(row) : row[i].status \in {"failed", "cancelled"}}
         e == Planned(Replaced(row, broken), plans + 1)
         T == {i \in Standing(e) : e[i].status = "planned"}
     IN /\ PlansAfter(Replaced(row, broken), plans + 1) <= MaxPlans
        /\ Start("request", "generate", e, T, TRUE)
        /\ plans' = PlansAfter(Replaced(row, broken), plans + 1)
  /\ UNCHANGED <<row, jobs, uncast, faults, replayed>>

CancelDue(p, i) ==
  LET a == pass[p].copy[i] IN pass[p].kind = "regenerate" /\ RequiresCancel(a) /\ a.job # 0

Submits(p, i) == Turn(p, i) /\ Generates(p) /\ ~CancelDue(p, i)

\* _cancel_existing_job_before_retry: without the cancellation no new job.
CancelFirst(p, i) ==
  LET a == pass[p].copy[i]
  IN /\ Turn(p, i) /\ CancelDue(p, i)
     /\ \/ /\ jobs' = Stopped(a.job)
           /\ pass' = [pass EXCEPT ![p].copy[i] = Freed(a)]
           /\ UNCHANGED faults
        \/ jobs' \in {jobs, Stopped(a.job)} /\ Worked(p, i, [a EXCEPT !.status = "failed"]) /\ Fault
     /\ UNCHANGED <<row, plans, uncast, requests, replayed>>

\* A new job is accepted, or its answer is lost.
Submit(p, i) ==
  LET a == pass[p].copy[i]
      k == Len(jobs) + 1
  IN /\ Submits(p, i) /\ Known(i, a.tries + 1) = {} /\ k <= MaxJobs
     /\ jobs' = Append(jobs, [asset |-> i, attempt |-> a.tries + 1,
                              base |-> Base(pass[p].copy, i), state |-> "working"])
     /\ \/ Worked(p, i, Applied(i, a, k, "working", pass[p].named)) /\ UNCHANGED faults
        \/ Worked(p, i, SubmitFailed(a)) /\ Fault
     /\ UNCHANGED <<row, plans, uncast, requests, replayed>>

\* The provider has the key already.  It answers with the job it has: one that
\* is done may come without its picture, to be polled for.  Another request
\* under the same key is a conflict, and plates and clips upload their
\* references anew, so it may be another.
Replay(p, i) ==
  LET a == pass[p].copy[i]
      Same(k) == jobs[k].base = Base(pass[p].copy, i)
  IN /\ Submits(p, i)
     /\ \E k \in Known(i, a.tries + 1) :
          \/ /\ Same(k)
             /\ \E state \in {jobs[k].state} \cup
                             (IF jobs[k].state = "done" THEN {"working"} ELSE {}) :
                  /\ Worked(p, i, Applied(i, a, k, state, pass[p].named))
                  /\ replayed' = (replayed \/ (i.role = "plate" /\ state = "done"))
          \/ /\ i.role # "master" \/ ~Same(k)
             /\ Worked(p, i, SubmitFailed(a))
             /\ UNCHANGED replayed
     /\ UNCHANGED <<row, jobs, plans, uncast, budget>>

\* The call does not get through, or the provider takes no more jobs.
Refuse(p, i) ==
  /\ Submits(p, i)
  /\ Worked(p, i, SubmitFailed(pass[p].copy[i]))
  /\ IF Len(jobs) < MaxJobs \/ Known(i, pass[p].copy[i].tries + 1) # {}
       THEN Fault ELSE UNCHANGED faults
  /\ UNCHANGED <<row, jobs, plans, uncast, requests, replayed>>

-----------------------------------------------------------------------------
(* The other requests, and the adapter.                                    *)

\* plan_visual_assets; with regenerate everything is replaced, running or not.
Plan ==
  /\ Asked
  /\ \E regenerate \in BOOLEAN :
       LET e == IF regenerate THEN Replaced(row, Standing(row)) ELSE row
       IN /\ PlansAfter(e, plans + 1) <= MaxPlans
          /\ Edits(Planned(e, plans + 1))
          /\ plans' = PlansAfter(e, plans + 1)
  /\ UNCHANGED <<jobs, uncast, faults, replayed>>

\* update_episode_production_settings with another studio reference.
ChangeScene ==
  /\ Asked
  /\ Standing(row) # {} /\ \A i \in Standing(row) : row[i].status # "submitted"
  /\ Edits(Replaced(row, Standing(row)))
  /\ UNCHANGED <<jobs, plans, uncast, faults, replayed>>

Under(e) == {i \in Standing(e) : e[i].status = "submitted"}

\* A request that names all the assets under way or one of them.
Chosen(e) == ({Under(e)} \cup {{i} : i \in Under(e)}) \ {{}}

CancelRequest ==
  /\ Asked
  /\ \E kind \in {"cancel", "reset"}, T \in Chosen(row) : Start("request", kind, row, T, TRUE)
  /\ UNCHANGED <<row, jobs, plans, uncast, faults, replayed>>

\* cancel_visual_jobs; the provider may have stopped the job when the call fails.
CancelJob(p, i) ==
  LET a == pass[p].copy[i]
  IN /\ Turn(p, i) /\ pass[p].kind \in {"cancel", "reset"}
     /\ \/ /\ jobs' = Stopped(a.job)
           /\ Worked(p, i, Cancelled(a, pass[p].kind = "reset"))
           /\ UNCHANGED faults
        \/ /\ jobs' \in {jobs, Stopped(a.job)}
           /\ Worked(p, i, [a EXCEPT !.mustCancel = TRUE])
           /\ Fault
     /\ UNCHANGED <<row, plans, uncast, requests, replayed>>

Reviewable(i, role) == i.role = role /\ row[i].status = "completed"

Reviewed(i, decision) == [row EXCEPT ![i].approval = decision, ![i].seen = row[i].pic]

\* review_studio_panel_keyframe, and review_seated_character when it rejects.
Review(i) ==
  /\ Asked
  /\ \E d \in {"approved", "rejected"} :
       /\ Reviewable(i, "master") \/ (Reviewable(i, "plate") /\ d = "rejected")
       /\ Edits(Reviewed(i, d))
  /\ UNCHANGED <<jobs, plans, uncast, faults, replayed>>

\* review_seated_character tells the provider of an approval before it is saved.
ApprovePlate(i) ==
  /\ Asked
  /\ Reviewable(i, "plate")
  /\ Start("request", "review", Reviewed(i, "approved"), {}, TRUE)
  /\ UNCHANGED <<row, jobs, plans, uncast, faults, replayed>>

\* run_comfyui_adapter_once
Poll ==
  /\ Under(row) # {} /\ Start("adapter", "sync", row, Under(row), TRUE)
  /\ UNCHANGED <<row, jobs, plans, uncast, budget, replayed>>

SyncRequest ==
  /\ Asked
  /\ \E T \in Chosen(row) : Start("request", "sync", row, T, TRUE)
  /\ UNCHANGED <<row, jobs, plans, uncast, faults, replayed>>

\* sync_visual_results; a poll may fail.
SyncJob(p, i) ==
  LET a == pass[p].copy[i]
  IN /\ Turn(p, i) /\ pass[p].kind = "sync"
     /\ \/ Worked(p, i, Applied(i, a, a.job, jobs[a.job].state, FALSE)) /\ UNCHANGED faults
        \/ Worked(p, i, a) /\ Fault
     /\ UNCHANGED <<row, jobs, plans, uncast, requests, replayed>>

-----------------------------------------------------------------------------

\* An asset of the chain after the worker's passes and the reviews that made the first m of it.
MadeAsset(m, role) ==
  LET n == CHOOSE n \in 1..3 : Role[n] = role
      new == NewAsset(IF n = 1 THEN 0 ELSE 1)
  IN IF n > m THEN new
     ELSE [new EXCEPT !.status = "completed", !.approval = "approved", !.job = n,
                      !.pic = n, !.seen = n, !.tries = 1]

MadeRow(m) == [i \in {[role |-> Role[n], plan |-> 1] : n \in 1..3} |-> MadeAsset(m, i.role)]

MadeJobs(m) ==
  [n \in 1..m |-> [asset |-> [role |-> Role[n], plan |-> 1], attempt |-> 1,
                   base |-> n - 1, state |-> "done"]]

Init ==
  /\ \E m \in Made :
       /\ row = IF m = 0 THEN <<>> ELSE MadeRow(m)
       /\ jobs = MadeJobs(m)
       /\ plans = IF m = 0 THEN 0 ELSE 1
  /\ pass = [p \in Process |-> NoPass]
  /\ uncast \in BOOLEAN
  /\ requests = 0 /\ faults = 0
  /\ replayed = FALSE

Step(p) ==
  \/ PassEnd(p)
  \/ \E i \in pass[p].todo : \/ CancelFirst(p, i) \/ Submit(p, i) \/ Replay(p, i) \/ Refuse(p, i)
                             \/ CancelJob(p, i) \/ SyncJob(p, i)

Next ==
  \/ WorkerStart \/ RequestStart \/ RepairStart \/ CancelRequest \/ SyncRequest \/ Poll
  \/ \E p \in Process : Step(p) \/ Kill(p)
  \/ \E k \in DOMAIN jobs : Finish(k)
  \/ Plan \/ ChangeScene
  \/ \E i \in DOMAIN row : Review(i) \/ ApprovePlate(i)

Spec == Init /\ [][Next]_vars

\* The worker's loops go on, passes run to their end, the provider finishes jobs.
\* The first two conjuncts are WF_vars(WorkerStart), which ends in a busy pass, and
\* WF_vars(Step(p)), which a busy pass always enables: TLC checks them much faster so.
FairSpec ==
  /\ Spec
  /\ []<>(pass["worker"].busy \/ ~CanStart)
  /\ \A p \in Process : []<>~pass[p].busy
  /\ WF_vars(Poll)
  /\ WF_vars(\E k \in DOMAIN jobs : Finish(k))

-----------------------------------------------------------------------------
(* Properties.                                                             *)

Assets(e) == DOMAIN e \subseteq Id /\ \A i \in DOMAIN e : e[i] \in Asset

TypeOK ==
  /\ Assets(row)
  /\ \A p \in Process :
       /\ Assets(pass[p].copy) /\ pass[p].todo \subseteq DOMAIN pass[p].copy
       /\ {pass[p].busy, pass[p].named, pass[p].stale} \subseteq BOOLEAN /\ pass[p].kind \in Kind
  /\ jobs \in Seq(Job)
  /\ plans \in 0..MaxPlans /\ requests \in 0..MaxRequests /\ faults \in 0..MaxFaults
  /\ uncast \in BOOLEAN /\ replayed \in BOOLEAN

(* A master is only ever composed from a plate that a person approved in   *)
(* that very picture.  The one way around it is a submission answered with *)
(* a job finished before, which skips the step that clears the approval.   *)
PlateSeen ==
  ~replayed => \A i \in DOMAIN row :
    i.role = "plate" /\ row[i].status = "completed" /\ row[i].approval = "approved"
      => row[i].pic = row[i].seen

GivenUp(a) == a.status \in {"failed", "cancelled"} /\ a.retry = "no"

(* What an operator cancelled without reset, and what has used up its      *)
(* retries, is taken up again only by a request to generate or repair it,  *)
(* or by the save of a copy that was loaded before it was given up: the    *)
(* worker and the adapter leave it alone.                                  *)
CancelStands ==
  [][\A i \in DOMAIN row \cap DOMAIN row' :
       GivenUp(row[i]) /\ ~uncast
         => \/ row'[i] \in {row[i], [row[i] EXCEPT !.status = "replaced"]}
            \/ \E p \in Process : /\ PassEnd(p)
                                  /\ pass[p].stale \/ (p = "request" /\ Generates(p))]_vars

(* Once requests and faults have ended, nothing stays under way: every     *)
(* asset is made, given up, or waits for a person to review another.       *)
Settled ==
  /\ \A i \in Standing(row) : row[i].status # "submitted"
  /\ \A i \in WorkerTargets(row) : ~Clear(row, i)

EverythingSettles == uncast \/ <>[]Settled

=============================================================================
