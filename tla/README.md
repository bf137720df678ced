# DialectiCore in TLA+

Specifications of the core of DialectiCore: the life of an episode under
operators, API requests and worker processes, what the event journal says of
it, how worker processes share the work, and the production pipelines that fill
an episode: the discussion, its review, its recordings, its pictures, the topic
primer, rendering and delivery.  TLC checks small instances; TLAPS proves the
main invariants of several components for every value of the constants.

    tlc -config MCWorkerLease.cfg MCWorkerLease      # a run: its module and cfg
    tlapm WorkerProofs.tla                           # the proofs of a component

`PROJECT.json` lists the components, the runs, the source lines behind every
definition, the mutants, the hazards, the findings and the theorems.

## 1. The system

An *episode* is one JSON aggregate in a database row: definition, discussion,
transcripts, assets, approvals, publish jobs, a `status`, and a
`workflow_control` block.  Whatever happens to it is a load of the aggregate,
a service call that changes it, and a save.

| part (under `src/backend/app`) | state | operations | hard behaviour | what makes it correct | module |
|---|---|---|---|---|---|
| workflow control, `services/production_control_service.py` | `status`, `workflow_control`: paused, cancelled, restore points, `run`, `stage_retry_queue` | operator actions, automatic retries, recording of worker errors, completion gates | long sequences of legal actions: recoveries, restarts, approvals after a cancellation | attempt numbers and budget survive recoveries; flags have a cause; status and run agree | WorkflowControl |
| event journal and replay, same file | `workflow_event_log`, `stage_history`, `signals` | every handler appends; `replay_workflow` folds | one handler changes the run and journals in separate calls | replay gives back the stored run | WorkflowJournal |
| workflow worker, `workflows/worker_placeholder.py` | cached episodes, two remembered versions, admission | a pass: start runs, due retries, thirteen stages, recording | API edits during a pass; half-finished stages | no edit lost, dropped work repeated, queued retries outlast the saves of others | EpisodeStore, OrchestrationLog |
| repository, `infrastructure/repository.py` | the episode row, `updated_at` | get, save, approval decisions | read-modify-write without a version | a version names one content | EpisodeStore, Speech, Delivery |
| worker leases, `services/worker_lease_service.py` | lease file and lock file per role | acquire, renew, release, list | several processes, kills, late calls, file races | one admitted worker per role, and always one in the end | WorkerLease, RoleHolder |
| discussion engine, `services/discussion_engine.py` | session, turns | select a speaker, divide the time, speak, conclude | the reserve of turns is computed apart from the plan; a run takes minutes and may fail half way | there is time to conclude, everybody is heard, the loop ends | Discussion |
| transcript review, `discussion_engine.py`, `repository.py` | versions of the transcript, approvals | edit, reopen, decide | decisions on episodes that moved on | an approval never counts for a later text | Speech |
| speech, `services/voicebox_service.py` | audio assets, remote jobs | plan, submit, poll, cancel | lost answers, killed passes, saves of what was loaded before a call of the provider, superseded versions, no idempotency key | one recording per turn; no asset waits for ever | Speech |
| visuals, `services/comfyui_service.py` | plates, masters, clips, remote jobs, reviews | plan, submit, repair, poll, cancel, review | the same, conflicts of the idempotency key, and pictures made from reviewed pictures | nothing is made from a plate nobody saw; retries end; what was cancelled stays so | VisualJobs |
| timeline, render, `services/timeline_service.py`, `render_service.py` | timelines, renders, packages, manifests | queue, compose, approve, package | decisions taken back, renders of replaced timelines, killed renders | a final render follows its review; the queue drains | Delivery |
| publishing, `services/publisher_service.py` | publish jobs | publish, replace | a delivery that is not on record is made again | one standing job per package; deliveries are on record | Delivery |
| topic primer, `services/primer_production_service.py` | scripts, recording, visual plan and its revisions, render | draft, edit, record, trim, verify, approve, restore, produce | anything may be replaced after it was approved | only reviewed words are spoken, only checked excerpts shown | Primer |
| the stages together: `worker_placeholder.py`, gates in `production_control_service.py`, `localization_service.py`, `asset_replacement_service.py` | what the episode has: versions, media, timelines, renders, packages, decisions | each stage looks for its next work; localize, replace, rebuild, decide again; complete | stages that wait for each other; two pieces of code that judge the same episode | quiet means completed or waiting for a person to review or to queue a render; with the renders queued the worker gets to completion | Completion |
| heartbeats, Redis bus, model gateway, research, subtitles | files, streams, reviews | - | lost and repeated signals, staleness | a lost signal only delays work | - |
| auth, redaction, backup, object storage, health, metrics, preflight, UI, scripts | mostly none | reports, text and file transformation | - | outside the core | - |

API handlers, the workflow worker, the render and publishing workers and (in
the external mode) the Temporal worker meet only in the database row; workers
of one role meet in the lease file; a Redis signal wakes a worker early.

## 2. The modules

    WorkflowControl  <--- WorkflowJournal <--- MCWorkflowJournal, WorkflowControlProofs
          ^-------------- MCWorkflowControl
    RoleHolder <- (implemented by) - WorkerLease <--- MCWorkerLease, WorkerProofs
    EpisodeStore     <--- MCEpisodeStore, WorkerProofs
    OrchestrationLog <--- MCOrchestrationLog, WorkerProofs
    Discussion       <--- MCDiscussion, DiscussionProofs
    Speech           <--- MCSpeech, SpeechProofs
    VisualJobs       <--- MCVisualJobs, VisualJobsProofs
    Delivery         <--- MCDelivery, DeliveryProofs
    Primer           <--- MCPrimer, PrimerProofs
    Completion       <--- MCCompletion, CompletionProofs

WorkflowControl and EpisodeStore say how any handler and any pass meet the
stored row; the production modules take from them what they need: a request
that is short loads and saves in one step, a pass or a request that waits for
somebody keeps its copy, works on it, and saves it as a whole.  In those modules
a handler is an operator from the episode it loaded to the episode it saves.

**WorkflowControl** takes one request or worker call as one action on the
stored episode.

| variable | in the code |
|---|---|
| `status` | `episode.status` |
| `control` | `paused`, `cancelled`, `paused_stage`, `failed_stage`, `cancelled_from_stage`, `retry_exhausted_stage` of `workflow_control` |
| `run` | `workflow_control["run"]`: `state`, `current_stage`, `completion_reason`, `run_sequence` |
| `retries` | `stage_retry_queue`: stage, attempt number, status of each entry |
| `transcript`, `media` | what the completion gates and the other handlers need to know of the content |

| action | handler |
|---|---|
| `BeginRun` `Pause` `Resume` `Cancel` `StopRun` | the methods of those names (`begin_run` ...), from the API or the worker's automatic start |
| `RetryFailedStage` `ContinueAfterManualEdit` `AcknowledgeRetry` `RejectStage` `Complete` | the operator recoveries and decisions; `approve_stage` changes only the journal |
| `RetryDueStage` | `retry_due_stage`; backoff times are left out, so any scheduled entry may be due |
| `RecordOrchestration` `WorkerCompletes` | `record_worker_orchestration` at the end of a pass, alone or on the episode that the same pass completed |
| `WorkerDiscussion` `ReconcileVisuals` | the discussion stage; the visual reconciliation, which is not limited to active runs |
| `Produce` `ProduceFails` | `POST /produce`; failure at the present status or while discussing |
| `DecideTranscript` `ReopenTranscript` `MediaWork` `PublishLive` | the other handlers that assign the status |

A worker stage is a position in `stage_order`; `Target` is
`_worker_stage_status_value`, so several stages may share a target.  A
recording that the worker discards (see OrchestrationLog) is a
`RecordOrchestration` that does not happen.

**WorkflowJournal** extends it: each action is conjoined with the events the
same handler journals, with `stage_history` and `signals`.  `Replayed` is
`_replay_events`, `Replay`, of the journal: a function over its events.

**WorkerLease** is the lease file and the lock file of one role; each action is
one file operation.  Times are relative to now (what is left of the lease, the
age of the lock, the time since the call read the clock), so nothing grows
without bound.  `grant` is what a process was last told is left of its lease;
`robbed` remembers that a lock file was removed under its user or a running
lease was pruned.  **RoleHolder** is the promise this makes to the worker loop:
one holder, a bounded term, a successor only over a vacancy.  `KeepsPromise`
is the refinement: the holder is the process with a running grant, and the
promise is void once `robbed`.

**EpisodeStore** is the row between requests and a worker pass.  The content is
the set of edits and of finished stages; each read, stamp and commit is an
action of its own, because `save` sets `updated_at` before its transaction and
the wrappers read the row before they call `save`.  `Path` is the order of a
pass: `"start"` and `"free"` positions save through the cached repository,
`"active"` ones through both.

**OrchestrationLog** is how the evidence of passes is numbered, retained and
saved, and what becomes of the retry that a failed pass queues.  `stored` is the
row; `held` the copy of each actor, `stale` whether somebody else saved since it
was loaded.  Runners are what runs passes: `Start` is the refresh, `StageEnds` a
stage up to the check of the row's version, which adopts a newer row (`Adopts`)
and drops the work, `Record` the record at the end, which is dropped too when
the row is newer or the log did not become longer, `Store` the save after the
check.  Clients `Fetch` the row and `Save` the whole of it later.  A Temporal
worker records on the plain repository, which is a runner that starts and
records with nothing between.

**Discussion** is `DiscussionEngine.run`.  `turns` are the turns with speaker
and type, `used` the estimated duration in spoken words (a duration is words
divided by a rate, so words are exact), `engine` who runs it, `brief` the
settings.  `Speak` is one iteration of the loop: the controller's choice
(`Stage`, `NextType`, `NextSpeakers`), the number of turns that must still
follow (`Reserved`), the share of the remaining time (`Allowance`) and a turn
of any length within it.  `Conclude` is the end of the loop, `Fail` an
exception, `Produce`, `WorkerStarts` and `Retry` the ways in which a discussion
is started.

**Speech** goes from the transcript to its recordings.  `row` has the versions
with their status, the approvals and the audio assets; `pass` is what each
process (the worker, a request, the adapter) has loaded and still has to do;
`jobs` is the speech provider.

| action | in the code |
|---|---|
| `Decide` `Revise` | `record_approval_decision`; the edits of the transcript, which append a version or reopen the review |
| `PlanRequest` `GenerateRequest` `ProduceRequest` `CancelRequest` `SyncRequest` | the API calls about audio; all but the first hold their copy while they ask the provider |
| `WorkerStart` | `run_audio_production_worker_once`: which version, plan if turns lack assets, which assets |
| `CancelFirst` `Submit` `Refuse` `Raise` | one asset of a pass: the old job cancelled first, a new one taken, an error recorded, an error that ends the pass |
| `CancelJob` | one asset of `cancel_audio_jobs` |
| `Poll` `SyncJob` | `run_voicebox_adapter_once`, one asset of `sync_audio_results` |
| `PassEnd` `Kill` | the save: the worker's wrapper refuses it when the row moved on, adapter and requests do not look; a process ended |
| `Finish` | the provider |

With `External`, the worker is the Temporal worker, whose repository has no
admission and no refusal.

**VisualJobs** has the same shape for the chain plate, studio master, clip of a
turn.  `row` maps an asset to its state: status, approval, which picture it has
(`pic`), which picture a person saw when deciding (`seen`), how often it was
tried.  Worker, adapter and a request each have a `pass`: they load the row, ask
the provider asset by asset and save in the end, and only the worker looks
whether the row is newer (`PassEnd`).  `Submit` makes a job; `Replay` meets one of
the same Idempotency-Key, which answers with that job or, because plates and
clips upload their references anew with every submission, with a conflict; a job
that is done may come back without its picture, to be polled for; `Refuse`
fails.  `CancelRequest` with `CancelJob`, `SyncRequest` and `Poll` with `SyncJob`
are cancellation and synchronisation, `ApprovePlate` the review that tells the
provider first, `Review` the others.  `RepairStart` is
`repair_directed_visual_assets`, `Plan` makes new assets that replace old ones,
`ChangeScene` is another studio reference.  The ghost variable `replayed` marks
the one answer that `PlateSeen` excludes by name.

**Delivery** goes from the timeline to the published episode.  `row` has the
timeline number, renders, packages, manifest and publish jobs; `composer` is
the render worker with the copy it loaded; `sender` the publishing worker and
publish requests with theirs; `sent` counts live deliveries and `lost` says
that one is not on record.

| action | in the code |
|---|---|
| `BuildTimeline` `EnqueueRender` `Decide` `ExportPackage` `GenerateManifest` | the requests of those names |
| `RenderStart` `RenderEnd` `RenderCrash` | `run_render_worker_once`: take the next queued render, compose (the result checks the review again), save; killed in between |
| `PublishRequest` `PublishPass` | a publish request, a pass of `run_publishing_worker_once` with its package and manifest |
| `DeliverySave` `DeliveryCrash` | the save after the target was reached; killed before it |
| `Steer` `Complete` | pause, resume, cancel; the completion worker |

**Primer** is the production of the topic primer.  `row` has the narration
script, the spoken text with its review and the policy it was made for, the
recording, the visual plan (visuals with source, length, excerpt, trim and
people-free check; target, measurement and status), its revisions and the
render.  A request that waits for a model or the narrator is `Prompt` (nobody
saved meanwhile) or `Load` and `Late` (it saves the copy it loaded over
everything since); `Outcomes` are the episodes it may save, and a refused
request saves what it loaded, as the routes do.  `EditSpoken`, `ApproveSpoken`,
`AddBeat`, `RemoveBeat`, `TrimBeat`, `Approve`, `Restore` are the other
requests; `ChangeProfile` is another narrator profile.  Durations are counted
in half seconds, so the tolerance of 500 ms is 1.

**Completion** composes the pipelines: what Speech, VisualJobs and Delivery do
in many steps is one step here, so that all stages, both judgements of the
episode and what people do meanwhile fit into one state.

| variable | in the code |
|---|---|
| `transcripts` | broadcast and localized versions: language, parent, review, the stages whose assets are complete, the generation of the visuals |
| `timelines` | the timelines in order: version, generation of the visuals they name |
| `renders` `packages` | renders with their decision and thumbnails; packages with the thumbnail in them, and whether they were delivered |

| action | in the code |
|---|---|
| `Produce` `Localize` `BuildTimeline` `Publish` `Complete` | the stages of `run_workflow_worker_once`, each with the guard by which it finds its next work |
| `AdvanceWorkflow` | the render stage of a pass that an operator asks for (`/workflow/advance`, `/workflow/run-until-blocked`): the only one that queues renders, for the polling loops leave `auto_queue_renders` at False (`worker_placeholder.py:1625`, `891`) |
| `Approve` | a reviewer answers what the episode shows: `_is_actionable_render_approval` hides the renders of other versions |
| `DecideTranscript` `DecideRender` `Revise` `LocalizeAgain` `ReplaceAsset` `RebuildTimeline` `RenderAgain` `GenerateThumbnail` `ExportPackage` | the requests of those names, in any order and at any time |

`Gates` is `completion_readiness`, `Handoff` is `_talkshow_production_handoff`,
each with what it asks of the lists above.

## 3. The runs

| run | checks | instance |
|---|---|---|
| control | `AttemptsCumulative` `AutomaticRetryBudget` `ExhaustedFlagGrounded` `OperatorKeepsRunInStep` `ScheduledRetryProgress` `CompletionAccounted` | one worker stage, two attempts, two errors in a pass, one run, under fairness |
| journal | `ActiveRunReplays` `SignalsReplay` `FirstRunHistoryReplays` `CancellationSticks` | two runs, nine events |
| lease | `ExclusiveGrant` `KeepsPromise` `RoleServed` | two processes, TTL 2, calls held up by 3, one stop, under fairness |
| store | `VersionNamesRow` `LossWindow` `WorkGetsDone` | an edit and a pause, a pass of start, active, free, active, under fairness |
| orchestration_log | `AttemptsNumbered` `RetriesOutlastSaves` | retention 2, two runners and a request, any number of passes, saves and runs |
| discussion | `ReservationExact` `TimeToConclude` `EverybodyHeard` `DiscussionEnds` | three panelists, four briefs, started twice, under fairness |
| speech | `ReviewDecides` `OneRecording` `SpeechSettles` | one turn, two versions, two decisions, three jobs, one request beside worker and adapter, one fault, under fairness |
| visual | `PlateSeen` `CancelStands` `EverythingSettles` | two plans, three jobs, one request beside worker and adapter, two faults, retry limit 2, from three starting points, under fairness |
| delivery | `OneRequestPerRender` `DeliveriesOnRecord` `FinalFollowsReview` `QueueDrains` | two timelines, renders, packages and jobs, one sender, one crash, under fairness |
| primer | `NarrationReleased` `RenderTellsItsPlan` `ExcerptsReviewed` `ApprovedFits` | two scripts, two policies, two visuals, two recordings, seven steps |
| completion | `StopsOnlyForPeople` `JudgesAgree` `ReachesCompletion` | one localized language, two edits of any kind, under fairness |
| v_completion | `CompletedShowsItsTimeline` | refuted, see section 4 |

What the runs show, beyond the component's ordinary life:

* *control, journal*: whatever recoveries, restarts and rejections follow one
  another, attempts are numbered and budgeted, a cancelled episode stays
  marked, and completion around the gates happens in the two named ways only.
* *lease*: the files implement the promise of RoleHolder until a lock is
  removed under its user, and a role is served again after every stop.
* *store, orchestration_log*: the worker overwrites an edit in two situations
  only; dropped work is done again.  Attempt numbers on record never repeat,
  and a retry once queued is lost only when somebody saves a copy that another
  save had outdated: a request, or a pass between its check and its save.  That
  a failure comes to be queued at all is not promised by the code: the record
  that carries it is given up when the row is newer, and not made when the log
  is full.
* *discussion*: `Reserved`, a case distinction of its own, agrees with the plan
  at every turn, so the time reserved is exact and every turn still to come
  keeps its second, whatever the models use.
* *speech*: passes that are killed, dropped, repeated or saved late give no turn
  of a version a second recording unless a request asked to regenerate it.
  Once saves no longer overtake one another, every asset of an approved version
  is completed, failed or cancelled in the end, except those a `ValueError`
  leaves without an endpoint (`Stranded`).  This is about the assets: jobs that
  no asset names any more, after a lost answer or a save of an older copy, exist
  and are nobody's.
* *visual*: an approved plate shows what its reviewer saw, also after late saves
  and resubmissions; worker and adapter take up nothing that was cancelled or
  has used up its retries, unless they had loaded it before; and whatever
  answers, saves or processes are lost, nothing stays under way for ever.
* *delivery*: a delivery can be missing from the record only when a process
  ended between delivery and save or a stale copy was saved; what was checked
  when a final render was queued is checked again when it is composed.
* *primer*: no order of drafts, edits, recordings, restored revisions and stale
  copies lets the narrator speak words nobody released, or the render show a
  plan made for other words.  Each of the four properties names its exception,
  if it has one, by a ghost field of the plan.
* *completion*: no order of edits, decisions and stages leaves the episode lying
  between two stages that wait for each other: it stops for a person, who has
  something to review or a render to queue, except in two corners, which are
  named: the newest timeline or final render is of another language
  (`NewestElsewhere`), or the package has an older thumbnail than its render
  (`ThumbnailAhead`).  The gates and the report on them, two copies of one
  judgement, agree.

*Bounds.*  One worker stage with two attempts contains every combination of
scheduled, exhausted and resolved entries that the handlers tell apart; sharing
a target is the one interaction between stages, and the proof of
`ExhaustedFlagGrounded` covers every way of sharing.  Two errors in one pass
make the numbering skip past the budget.  Two runs are needed to see a restart,
which is what could undo a cancellation, and nine events hold a stopped,
rejected or failed first run and a reopened second one.  Two processes are
enough for each race of the lease, because every hazard there is between a
victim and one other; calls may be held up longer (3) than a lease runs (2), so
that late writers occur.  Two requests and four stages contain an edit that is
refused, one that slips in after the check, one stamped early and committed
late, and the worker's own save taken for a foreign one.  Three panelists reach
all eight cases of `Reserved` with and without cross examination; the four
briefs are roomy, just roomy and too tight, with and without bridge.  In speech
and visuals two generations of everything (version, plan, job) are what
superseding needs, one request runs against worker and adapter, each on its own
copy, and a fault is a lost answer, a kill or a failed job; the visual run starts with nothing, with
an approved plate or with an approved master, so that each link of the chain is
reached within three jobs.  Two timelines and two of each asset let a decision,
a package and a job outlive what they were made for.  The shortest render of a
primer takes five steps, so seven leave two for an edit, a changed policy, a
second recording or a late save; longer behaviours with all kinds of media and
more lengths were simulated.  One localized language makes the candidates of
the stages compete, and two edits are an edit and its repetition or one that
undoes the other: a version refused and approved again, a replacement and a
rebuilt timeline, a render of the wrong timeline on top of a decision.  The proofs remove the bounds from the properties
of section 5.

*Fairness.*  WorkflowControl: the worker loop polls while its process runs, so
a due retry that stays enabled is taken.  WorkerLease: a running process goes
on, comes back to the lease at every turn, is restarted by docker compose
(`restart: unless-stopped`), and time passes; stops are finitely many.
EpisodeStore: the worker loop does not stop; requests need not come, nor
finish.  Speech and VisualJobs: the worker looks again while there is something
it can start, each pass comes to its end, the adapter polls, and the provider
finishes its jobs; the first two are written `[]<>(busy \/ ~CanStart)` and
`[]<>~busy`, which is what weak fairness of the start and of the steps of a
pass amounts to.  Discussion: a loop that is running goes on to another turn or
ends (`LoopGoesOn`; each call of a model returns or times out), and the worker
polls.  Delivery: the render worker polls and its renders end, deliveries end.
OrchestrationLog has no
liveness property.  Completion: the worker polls, and reviewers answer what is
shown to them; the latter is why approvals that are hidden matter.  That an
operator queues renders is not assumed: `ReachesCompletion` says what follows
if no render is left to be queued again and again (`[]<>(NextRender = "none")`).  Elsewhere no request, decision
or edit is ever assumed to come.

*Type invariants.*  Modules with proofs have theirs among the theorems
(WorkflowControl, WorkflowJournal, WorkerLease, EpisodeStore, OrchestrationLog,
Discussion, Speech, VisualJobs, Delivery, Primer, Completion), so no run repeats
them.

`CHECK_DEADLOCK FALSE` stands where a bound stops the system: a completed or
cancelled episode with its bounds used up, processes that are down with no
stop left to come, all passes made, all requests made.

## 4. Where code and documentation differ

One promise of the documentation is refuted by a run; the quotation is in
`PROJECT.json`.

| run | what happens |
|---|---|
| v_completion | a picture is replaced after the final render was approved: timeline and assets now say something else than the render, and completion, which reads the quality row stored at render time (`production_control_service.py:1718`), takes it for fresh; against `docs/timeline-and-rendering.md:166-169` |

The other disagreements met while modelling are built into the models as the
code has them, and the properties state exactly how far the promise holds:

* An edit committed between the worker's check and its save is overwritten
  (`worker_placeholder.py:210`, against the comment at 244-246): the first case
  of `LossWindow`.
* While an edited transcript waits for its review, the Temporal worker, which
  has no admission, records the version it superseded
  (`worker_placeholder.py:3710`, against the docstring at 3702-3707): `Speech`
  with `External`.
* Visual reconciliation moves a cancelled episode to READY (`comfyui_service.py:2090`;
  `docs/operations.md:1311-1314`), and the render and publishing workers save
  the copy they loaded over a cancellation (`worker_placeholder.py:1050`).
  `CancellationSticks` is about the flag, which the former leaves alone, under
  handlers that load and save in one step.
* A live publish sets COMPLETED without the gates (`publisher_service.py:176`;
  `docs/implementation-plan.md:412-413`): the first case of
  `CompletionAccounted`.  A production request that fails on a completed
  episode leaves COMPLETED as the stage to retry, and the retry restores it:
  the second.
* `record_failure` puts a FAILED entry into the history without a journal
  event (`production_control_service.py:1603`; `docs/implementation-plan.md:399-403`).
  Replay also differs after a stop (`workflow.run.stopped` is not handled), in
  every second run (history and signals are not reset), and after an approval
  on an ended run.  What it does promise is in `ActiveRunReplays`,
  `SignalsReplay` and `FirstRunHistoryReplays`.
* A pass' record is stored only if the log became longer, so at the retention
  limit of 100 records nothing of a pass is stored any more, its failures
  included (`worker_placeholder.py:2199`; `docs/deployment.md:459-462`,
  `docs/implementation-plan.md:319-323`), and before that it is given up when the
  row is newer than the copy (`worker_placeholder.py:196-209`).
  `RetriesOutlastSaves` is about retries that are queued.
* A lock file that has gone counts as stale and is unlinked by name, which may
  be the fresh lock of another process; and a status read may delete a lease
  that was renewed after it was read (`worker_lease_service.py:159`, `88`;
  `docs/operations.md:908-910`).  `robbed` says when; a pass longer than the
  TTL runs beside that of another process in any case.
* Only a seated character made anew loses its approval; a studio master keeps
  it (`comfyui_service.py:6646-6654`; `api/routes.py:5216`).  `PlateSeen` is
  therefore about plates.

Smaller observations, each visible in the named operator:

* *Discussion.*  An episode too short for its cast and bridge breaks the
  reserve (`Roomy`; `docs/discussion-engine.md:97-103`).  A discussion that
  failed after some turns is not started again by the worker, and a production
  request is refused while its run is running (`BrokenOff`).  `produce` saves
  the started run only after the discussion, so two requests may both run it.
* *Speech.*  A regeneration whose cancellation failed submits without having
  cancelled (`CancelFirst`; `docs/voicebox-integration.md:180-183`).  Jobs of a
  superseded version are not collected (`SyncVersion`).  `/speech/produce` with
  regenerate gives a turn a second asset, of which the clip takes the first and
  the timeline the last.  Failed assets with the retry flag are retried every
  pass without limit, those without it never.
* *VisualJobs.*  With nothing to target, the worker's `or None` resubmits what
  is running (`TargetsOrAll`; `docs/api.md:894-896`).  Requests without a user
  do not count attempts, so their key repeats (`Named`).  A job that fails at
  the provider is retried without limit.  A new plan replaces running assets
  without cancelling their jobs.  An asset may have two jobs under way at the
  provider: after a lost answer the next submission may be a conflict, which
  counts as a failed attempt, and the attempt after it has another key; so may
  one whose older copy was saved back.  Nothing is claimed about it
  (`comfyui_service.py:3461`).
* *Delivery.*  A replaced render that is rejected and then approved counts as
  completed again (`Decided`).  A package that fails its quality check is
  exported anew by every pass.  A live publish request asks for no approved
  render.  An error after the upload records a failed job, and a regenerated
  publish uploads again (`publisher_service.py:478-510`).  The worker never
  retries a failed job.
* *Completion.*  Renders are queued for the newest timeline of any language,
  the gates want the canonical version's, and the approval of another version's
  render is hidden: after a localized timeline was rebuilt last, nothing leads
  on without an operator (`NewestElsewhere`).  A thumbnail taken after packaging
  is not packaged by the worker, and the gates refuse the package
  (`ThumbnailAhead`).  A localization of a superseded version satisfies gates
  and stages (`LocalizedReady`, `MissingLanguages`).  The handoff reports
  delivery_ready without the preview's approval (`JudgesAgree`).
* *Primer.*  A new recording of about the same length takes back the demand to
  review rescaled trims (`remeasured`), against the docstring at
  `primer_production_service.py:2571-2577`.  A recording up to 500 ms longer
  than the plan leaves an approved plan that cannot be rendered until a visual
  is made longer (`ApprovedFits` is the bound).  After a retiming without trims
  `produce` goes on to render although the plan has just lost its approval.  A
  plan that was replaced or edited keeps the old render, which `produce` then
  returns.  A request that is refused saves its old copy all the same.

## 5. The proofs

All theorems assume only the named assumptions on the constants, which the
runs evaluate.

*WorkflowControlProofs.*  `IInv` adds to the properties what makes them
inductive: no restore point is CANCELLED once recorded by an operator failure
while the cancelled flag is down (`RestoreNotCancelled`), and every automatic
retry carries an attempt number below `MaxAttempts` (`BudgetKept`).  With
`AttemptsCumulative`, distinct retries have distinct numbers, so fewer than
`MaxAttempts` of them exist: `RetryBudgetHolds` is this counting argument, by
an injection into `1..(MaxAttempts - 1)`.  Also: `TypeCorrect`,
`AttemptsStayCumulative`, `CancellationStays`, `ExhaustedFlagStaysGrounded`,
`CompletionsAccounted`, and `RunStaysInStep` for the action property.

The same module proves the journal.  A step of WorkflowJournal is a step of
WorkflowControl that also writes, so `JournalImplementsControl` (`JSpec` implies
`Spec`) brings all invariants above along.  `Replay` is a recursive function
over the events; that it is what its equation says, and that appending an event
applies that event (`ReplayAppend`), is an induction over the length of the
journal, done by well-foundedness on the set of lengths where it fails.  From
there each kind of event has a lemma, each handler is the events it writes, and
`JInv` says: the replayed run is in step with the stored one, and the replayed
signals end in those of the row, because a new run starts its own list while
replay goes on with the old.  `RunningRunReplays`, `RunSignalsReplay`, `FirstHistoryReplays` and
`JournaledCancellationStays` hold for journals of any length.

*WorkerProofs* has the three modules of the worker: leases, store, log.

*Leases.*  `ExclusiveGrant` is not inductive.  The invariant says,
while nobody was robbed: who is inside the lock created it; a running grant is
the lease on file, which runs at least as long; who is about to write has read
a lease that is its own, absent or expired, and stays so.  `LeaseExclusive`
holds for any number of processes and any TTL, lag, retention and stops.
`LeaseKeepsPromise` maps each file operation to a step of RoleHolder or none.

*Store.*  No version is ahead of the clock, equal versions mean
equal edits, a stamp that is about to be committed is held by nobody else, an
edit in a row was stamped no later than the row, and what the worker saves was
current at its check.  From this: `VersionsNameRows`, `EditsLostInWindowOnly`
and `StoreTypes`.

*Log.*  Because a record that would push an entry out is never saved, entry i is
attempt i, in the row and in every copy, and a run that has counted attempts has
counted as many as its log has entries (`Sound`): `AttemptsStayNumbered`.  A copy
that is not stale has the retries of the row (`Fresh`), which gives
`RetriesAreKept`; `LogTypes` are the types.  They hold for any runners, clients
and retention.

*DiscussionProofs.*  `Reserved` is a case distinction of its own, and the plan a
tally of types spoken so far.  `IInv` says of the turns: each type comes
at most as often as planned and waits for the one before it (`InOrder`), every
turn is of a type that is counted (`Counted`), panelists open in the order of
their numbers and close once each (`Heard`), and what is used leaves a second for
every turn still to come (`InTime`).  Every case of the stage then fixes how many turns are
left, which is `ReserveAgreesWithPlan`; the share of the time that a turn may use
leaves the rest its seconds, `DiscussionFitsItsTime`; and as many different
speakers as panelists are all of them, `SynthesisHeardEverybody`.  They hold for
any number of panelists, any briefs and any lengths.

*SpeechProofs.*  A pass saves its copy over whatever came since, so
`ReviewDecides` cannot be proved of the row alone: `Reviewed` is a property of
an episode by itself (its newest version has the status of an approval bound
to that version) and holds of the row and of every copy.  Each handler that
adds a version adds its approval in the same save, and the decision goes to
the first pending approval, which exists by well-foundedness of the naturals.
`ReviewAlwaysDecides` holds for any turns, versions, requests, either worker.
Which turns are recorded twice (`Doubled`) no handler but a regenerating plan
changes; that the rest of a pass works asset by asset (`Reworked`) and that
planning appends to the turns without an asset only (`PlannedIs`) are lemmas.
`OneRecording` is about which versions a plan was asked to regenerate, ever, so it
too is a property of an episode by itself (`Within`), of the row and of every copy:
whichever of them is saved last, a turn recorded twice is of such a version
(`RInv`, `RecordsOnce`).  The types are `SpeechTypes`.  All hold for both workers.

*VisualJobsProofs.*  A property of an episode by itself again: every asset, in the
row and in each copy, names a job the provider has, and a plate that is under
way is not approved, one that is completed and approved shows what was seen
(`Fits`, `Sound`).  A job that was cancelled to make room leaves its asset without
one only until the next submission of the same pass (`Vacant`, `TurnIn`).
`ApprovedPlatesSeen` follows.  `StandsOff` says that a pass which no save has
outdated, and which was not asked to generate, has copied and does not target what
was given up; this gives `GivenUpStands`, and needs `HasClip`, that what stands has
its clip, because a worker plans anew when the clip is missing.  `TypesHold` are
the types.  All hold for any plans, jobs, requests, faults and users.

*PrimerProofs.*  The same form: `Sound(e, released)` holds of the row and of
the copy of the late request, and `released` only grows, so an old copy stays
sound.  The status of the spoken text is compared with the script when it is
spoken, not when it is saved: the invariant says of an approved text that it
was released, and the guard of the narration supplies the rest.  Revisions are
plans (`Shaped`), which a restored revision needs.  `OnlyReleasedIsSpoken` and
`RenderKeepsToThePlan` hold for any scripts, profiles, durations and requests.

The excerpts and lengths rest on a second invariant, `Fits(e, h, n)`, again of
the row and of the late copy.  `h` tells how long each of the `n` recordings
is; no variable keeps it, so the invariant says that there is such an `h`, and
a new recording extends it (`Grown`), which is why a copy made before it still
fits (`FitsGrow`).  A plan that was measured agrees with `h`, and is too short
by the tolerance at most; one that is approved lasts at least its target; and
its verified excerpts last as long as their trims unless a review is asked for
or was taken back (`Drafts`, `Plans`).  Revisions are such plans, so a restored
one fits.  `ScheduledIs` shows that a render cuts only the last visual it
shows, and `RescaledIs` that no visual is retimed to nothing, whatever rounding
does; both need sums of durations, so `Total` is the last value of a recursive
function and `Induction` is stated for a set of naturals, which the provers can
use.  From it follow `ExcerptsStayReviewed`, `ApprovedPlansFit` and
`PrimerTypes`.

*CompletionProofs.*  `StopsOnlyForPeople` and `JudgesAgree` need little of history:
the types of the lists, that the first version is in the episode's language,
and that a render that counts was not rejected (`NotRejected`).  The argument
walks through the stages: nothing to review and nothing refused means approved
versions, then media for every candidate, then a timeline; no render to be queued
means a preview and a final render, then a thumbnail and a delivered package,
which is what the gates ask.
`HeldUpByPeopleOnly` and `JudgesAlwaysAgree` hold for any languages and any
number of edits; that the newest entry of a kind exists is `LatestIsNewest`.

*DeliveryProofs.*  Again `Sound(e)` holds of the row and of every copy: a queued
request is the last render of its type and timeline (`QueuedIsLast`), which a
new request keeps because what it has to reckon with is the latest of them.  A
stale save brings back a sound episode, never a second request, so
`QueueHoldsOneRequest`; and because a render that is completed passes the
checks again at its end, `FinalsFollowReview`: the completed final leaves the
latest preview as it was.  What a delivery under way will save knows of one live
delivery more than the row it saw (`Reckoned`), and as long as nothing is
`lost` no copy is saved that has not seen all of them; so deliveries sent are
deliveries on record and deliveries in hand (`DInv`, `RecordsAreKept`).  All
hold for any processes, requests and bounds.

Only model-checked: the liveness properties (fairness and ENABLED are out of
the prover's reach) and the refuted statement.  Not shown at all: that the
durations `Rescaled` returns add up to the target; no property needs it, for an
approval looks at the sum again.

## 6. What is left out, and the plan

Left out on purpose: wording and layout of records, audit events, times other
than the ordering they decide, stage plans, the signal export and Temporal
dispatch envelopes, what ComfyUI's own `/prompt` does, a
plan and its generation in one request (`/visuals/produce`), retries of the completion
stage itself (`production_control_service.py:3692`, a target of COMPLETED, which the
assumption on `Target` excludes because `complete` raises only what the readiness check
just before it has ruled out), the inside of the readiness report (the one predicate
`GatesPass` in WorkflowControl, the rows about what the episode has in
Completion), what models say, and everything about pixels, samples and
prompts.

*Not modelled*: heartbeats (`worker_status_service.py`: one file per worker,
written and read whole), the Redis bus (a lost signal delays work by one poll,
which the fairness of every module already allows), the model gateway,
research (a review of the same form as those in Speech), the composition of pictures and sound in
`render_service.py` (8,000 lines of filter graphs and measurements, in which
the state that matters here is a status), media discovery for the primer,
health reports, authentication, redaction, backup, configuration, the web UI.

Next, in this order:

1. **EpisodeStore**: stages that fail half way and leave their changes in the
   cached episode; a composition in which pause and cancel are actions of
   WorkflowControl.
2. **Timeline, subtitle and render arithmetic** (segments, splits, cues) as
   operators against a reference.
3. **Research review, heartbeats and the Redis bus**.
4. Proofs: what `Rescaled` adds up to; EpisodeStore as a refinement of an
   abstract register with a named loss.
