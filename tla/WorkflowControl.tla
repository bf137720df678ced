--------------------------- MODULE WorkflowControl ---------------------------
(***************************************************************************)
(* One episode under ProductionControlService: its status, the             *)
(* workflow_control block (pause, cancel, restore points, retry queue) and *)
(* the run projection, together with every other handler that moves the    *)
(* same status: discussion runs, approval decisions, transcript reopening, *)
(* media work and live publishing.                                         *)
(*                                                                         *)
(* Each action is one request or one worker call on the stored episode,    *)
(* load, handler and save together; what happens when two of them overlap  *)
(* is the subject of EpisodeStore.  The event journal, the signal list and *)
(* the stage history of the same handlers are added by WorkflowJournal,    *)
(* which extends this module.                                              *)
(***************************************************************************)
EXTENDS Integers, FiniteSets

CONSTANTS
  MediaStages,   \* statuses the speech, visual, timeline and render services leave behind
  NumStages,     \* worker stages are the positions 1..NumStages of stage_order
  Target,        \* _worker_stage_status_value: the status a worker stage retries from
  MaxAttempts,   \* workflow_stage_retry_max_attempts
  MaxErrors,     \* bound: errors one worker stage reports for the episode in a pass
  MaxRuns,       \* bound: runs begun on the episode
  MaxEntries     \* bound: retry entries per worker stage

None == "none"

Terminal == {"COMPLETED", "CANCELLED"}
Working == {"DRAFT", "DISCUSSING", "TRANSCRIPT_REVIEW", "READY"} \cup MediaStages
Status == Working \cup Terminal \cup {"FAILED"}
RestorePoint == Status \cup {None}

WorkerStage == 1..NumStages

ASSUME ConstantsAssumption ==
  /\ MediaStages \cap (Terminal \cup {"FAILED", None}) = {}
  /\ NumStages \in Nat
  /\ Target \in [WorkerStage -> Working]
  /\ MaxAttempts \in Nat \ {0}
  /\ MaxErrors \in Nat
  /\ MaxRuns \in Nat
  /\ MaxEntries \in Nat

VARIABLES
  status,        \* episode.status
  control,       \* the flags and restore points of episode.workflow_control
  run,           \* workflow_control["run"]; state "none" while there is none
  retries,       \* workflow_control["stage_retry_queue"]
  transcript,    \* the canonical transcript: none, in review or approved
  media          \* the least finished media asset: "failed" is _has_failed_assets,
                 \* "submitted" a remote job that is out, "complete" means that the
                 \* media gates of completion_readiness hold

evidence == <<transcript, media>>
vars == <<status, control, run, retries, evidence>>

Active == {"scheduled", "exhausted"}
Resolution == {"operator_retried", "automatic_retried", "operator_acknowledged",
               "manual_edit_resolved"}

RetryEntry == [stage : WorkerStage, attempt : Nat, status : Active \cup Resolution]

RunState == {None, "running", "stopped", "failed", "cancelled", "completed"}
Reason == {None, "cancelled", "stopped_by_operator", "stage_rejected", "stage_failed",
           "completed"}

MediaState == {None, "submitted", "failed", "complete"}

\* completion_readiness["status"] = "pass"
GatesPass == media = "complete" /\ transcript = "approved"

NoRun == [state |-> None, stage |-> None, reason |-> None, seq |-> 0]

TypeOK ==
  /\ status \in Status
  /\ control \in [paused : BOOLEAN, cancelled : BOOLEAN,
                  paused_stage : RestorePoint, failed_stage : RestorePoint,
                  cancelled_from_stage : RestorePoint,
                  retry_exhausted_stage : RestorePoint]
  /\ run \in [state : RunState, stage : RestorePoint, reason : Reason, seq : Nat]
  /\ retries \in SUBSET RetryEntry
  /\ transcript \in {None, "in_review", "approved"}
  /\ media \in MediaState

Init ==
  /\ status = "DRAFT"
  /\ control = [paused |-> FALSE, cancelled |-> FALSE,
                paused_stage |-> None, failed_stage |-> None,
                cancelled_from_stage |-> None,
                retry_exhausted_stage |-> None]
  /\ run = NoRun
  /\ retries = {}
  /\ transcript = None
  /\ media = None

-----------------------------------------------------------------------------
(* Shared pieces of the handlers.                                          *)

HasRun == run.state # None
Running == run.state = "running"

\* Python's `a or b` on restore points, where a missing one is None.
Or(a, b) == IF a = None THEN b ELSE a

\* Mutant: a start looks at the status only, not at the cancelled flag.
CanBeginByStatus ==
  /\ ~control.paused
  /\ status # "CANCELLED"
  /\ Running => status \in Terminal

\* ensure_can_start and the active-run check of begin_run.
CanBegin ==
  /\ ~control.paused
  /\ status # "CANCELLED" /\ ~control.cancelled
  /\ Running => status \in Terminal

\* The end of a run, in the projection; nothing to end when there is no run.
EndRun(state, stage, reason) ==
  IF HasRun THEN [run EXCEPT !.state = state, !.stage = stage, !.reason = reason] ELSE run

\* record_stage for a stage that is not terminal.
EnterStage(stage) == IF HasRun THEN [run EXCEPT !.stage = stage] ELSE run

\* Mutant: reopening leaves the current stage of the run as it was.
ReopenRunInPlace(stage) == EndRun("running", run.stage, None)

\* _reopen_run_after_operator_action.
ReopenRun(stage) == EndRun("running", stage, None)

ActiveFor(t) == {e \in retries : e.status \in Active /\ Target[e.stage] = t}

\* _resolve_stage_retries: every active entry of the target stage.
ResolveStage(t, resolution) ==
  (retries \ ActiveFor(t)) \cup {[e EXCEPT !.status = resolution] : e \in ActiveFor(t)}

\* Mutant: the entry is looked up but not marked.
ResolveEntryUnmarked(e, resolution) == retries

\* _resolve_specific_stage_retry, for an entry that is in the queue.
ResolveEntry(e, resolution) ==
  (retries \ {e}) \cup {[e EXCEPT !.status = resolution]}

\* Mutant: the exhausted flag survives the resolution of its entries.
PopExhaustedNever(flag, t, resolvedSome) == flag

\* Both pop retry_exhausted_stage when it names the resolved target.
PopExhausted(flag, t, resolvedSome) == IF resolvedSome /\ flag = t THEN None ELSE flag

\* Mutant: attempts are counted over the active entries only.
NextAttemptOfActive(s) ==
  1 + Cardinality({e \in retries : e.stage = s /\ e.status \in Active})

\* _next_stage_retry_attempt_number: one above the highest attempt on record,
\* resolved entries included.
Attempts(s) == {e.attempt : e \in {r \in retries : r.stage = s}}
NextAttempt(s) ==
  IF Attempts(s) = {} THEN 1
  ELSE 1 + CHOOSE n \in Attempts(s) : \A m \in Attempts(s) : m <= n

\* Mutant: the budget is compared with > instead of >=.
NewEntryOffByOne(s, n) ==
  [stage |-> s, attempt |-> n,
   status |-> IF n > MaxAttempts THEN "exhausted" ELSE "scheduled"]

\* _append_stage_retry, the entries k errors of stage s append one after another.
NewEntry(s, n) ==
  [stage |-> s, attempt |-> n,
   status |-> IF n >= MaxAttempts THEN "exhausted" ELSE "scheduled"]
NewEntries(s, k) == {NewEntry(s, n) : n \in NextAttempt(s)..(NextAttempt(s) + k - 1)}

LastOf(S) == CHOOSE s \in S : \A r \in S : r <= s

-----------------------------------------------------------------------------
(* Operator actions.                                                       *)

\* begin_run: POST /workflow/start and the worker's automatic start.
BeginRun ==
  /\ CanBegin
  /\ run.seq < MaxRuns
  /\ run' = [state |-> "running", stage |-> status, reason |-> None, seq |-> run.seq + 1]
  /\ UNCHANGED <<status, control, retries, evidence>>

Pause ==
  /\ status \notin Terminal
  /\ ~control.paused
  /\ control' = [control EXCEPT !.paused = TRUE, !.paused_stage = status]
  /\ UNCHANGED <<status, run, retries, evidence>>

Resume ==
  /\ control.paused
  /\ status # "CANCELLED"
  /\ control' = [control EXCEPT !.paused = FALSE]
  /\ UNCHANGED <<status, run, retries, evidence>>

Cancel ==
  /\ status \notin Terminal
  /\ control' = [control EXCEPT !.paused = FALSE, !.cancelled = TRUE,
                                !.cancelled_from_stage = status]
  /\ run' = EndRun("cancelled", "CANCELLED", "cancelled")
  /\ status' = "CANCELLED"
  /\ UNCHANGED <<retries, evidence>>

StopRun ==
  /\ status \notin Terminal
  /\ Running
  /\ control' = [control EXCEPT !.paused = FALSE, !.cancelled = FALSE]
  /\ run' = EndRun("stopped", status, "stopped_by_operator")
  /\ UNCHANGED <<status, retries, evidence>>

\* The status retry_failed_stage goes back to.
RetryStage == Or(control.failed_stage, Or(control.cancelled_from_stage, "READY"))

RetryFailedStage ==
  /\ status = "FAILED" \/ media = "failed"
  /\ status' = RetryStage
  /\ control' = [control EXCEPT
       !.paused = FALSE, !.cancelled = FALSE,
       !.retry_exhausted_stage = PopExhausted(@, RetryStage, ActiveFor(RetryStage) # {})]
  /\ retries' = ResolveStage(RetryStage, "operator_retried")
  /\ run' = ReopenRun(RetryStage)
  /\ UNCHANGED evidence

\* acknowledge_stage_retry: the run is not reopened.
AcknowledgeRetry(e) ==
  /\ e.status \in Active
  /\ retries' = ResolveEntry(e, "operator_acknowledged")
  /\ control' = [control EXCEPT
       !.retry_exhausted_stage = PopExhausted(@, Target[e.stage], TRUE)]
  /\ UNCHANGED <<status, run, evidence>>

\* The status continue_after_manual_edit goes on from.  (The source also
\* tries last_rejected_stage, which is only ever written with failed_stage.)
ContinueStage ==
  CASE status = "FAILED" ->
         Or(control.failed_stage, Or(control.paused_stage, "READY"))
    [] status # "FAILED" /\ control.paused -> Or(control.paused_stage, status)
    [] OTHER -> status

ContinueAfterManualEdit ==
  /\ status \notin Terminal
  /\ status' = ContinueStage
  /\ control' = [control EXCEPT !.paused = FALSE, !.cancelled = FALSE,
                                !.retry_exhausted_stage = None]
  /\ retries' = ResolveStage(ContinueStage, "manual_edit_resolved")
  /\ run' = ReopenRun(ContinueStage)
  /\ UNCHANGED evidence

RejectStage ==
  /\ status \notin Terminal
  /\ control' = [control EXCEPT !.failed_stage = status]
  /\ run' = EndRun("failed", "FAILED", "stage_rejected")
  /\ status' = "FAILED"
  /\ UNCHANGED <<retries, evidence>>

\* Mutant: the readiness report is built and not looked at.
CompleteUngated ==
  /\ status \notin Terminal /\ ~control.cancelled
  /\ run' = EndRun("completed", "COMPLETED", "completed")
  /\ status' = "COMPLETED"
  /\ control' = [control EXCEPT !.paused = FALSE]
  /\ UNCHANGED <<retries, evidence>>

\* complete: every gate of completion_readiness, the approved transcript among them.
Complete ==
  /\ status \notin Terminal
  /\ ~control.paused
  /\ GatesPass
  /\ run' = EndRun("completed", "COMPLETED", "completed")
  /\ status' = "COMPLETED"
  /\ UNCHANGED <<control, retries, evidence>>

-----------------------------------------------------------------------------
(* The worker coordinator.                                                 *)

\* retry_due_stage: backoff times are left out, so any scheduled entry may be
\* the earliest one that is due.
RetryDueStage(e) ==
  LET t == Target[e.stage] IN
  /\ ~control.paused /\ ~control.cancelled
  /\ Running
  /\ e.status = "scheduled"
  /\ status' = t
  /\ retries' = ResolveEntry(e, "automatic_retried")
  /\ control' = [control EXCEPT !.retry_exhausted_stage = PopExhausted(@, t, TRUE)]
  /\ run' = ReopenRun(t)
  /\ UNCHANGED evidence

\* What record_worker_orchestration keeps of a pass in which stage s reported
\* errors[s] errors for this episode; stage_order decides what is written last.
RecordErrors(errors) ==
  LET failed == {s \in WorkerStage : errors[s] > 0}
      exhausted == {s \in failed : NextAttempt(s) + errors[s] - 1 >= MaxAttempts}
  IN
  /\ \A s \in failed : NextAttempt(s) + errors[s] - 1 <= MaxEntries
  /\ retries' = retries \cup UNION {NewEntries(s, errors[s]) : s \in failed}
  /\ control' = [control EXCEPT
       !.failed_stage = IF failed = {} THEN @ ELSE Target[LastOf(failed)],
       !.retry_exhausted_stage =
          IF exhausted = {} THEN @ ELSE Target[LastOf(exhausted)]]

\* The end of a pass for an episode whose run is running.  A paused episode is
\* not exempt: its visual reconciliation may fail.
RecordOrchestration(errors) ==
  /\ Running
  /\ RecordErrors(errors)
  /\ UNCHANGED <<status, run, evidence>>

\* run_completion_worker_once, and the same pass being recorded on the episode
\* it completed.
WorkerCompletes(errors) ==
  /\ Running
  /\ ~control.paused /\ ~control.cancelled
  /\ status \notin Terminal \cup {"FAILED"}
  /\ GatesPass
  /\ run' = EndRun("completed", "COMPLETED", "completed")
  /\ status' = "COMPLETED"
  /\ RecordErrors(errors)
  /\ UNCHANGED evidence

\* run_comfyui_adapter_once over the unfiltered worker repository: jobs that
\* are out are synced whatever the episode's workflow says.
ReconcileVisuals ==
  /\ media = "submitted"
  /\ status' = "READY"
  /\ media' \in MediaState \ {None}
  /\ UNCHANGED <<control, run, retries, transcript>>

-----------------------------------------------------------------------------
(* The other handlers that move the status.                                *)

\* POST /produce, the discussion engine finishing.
Produce ==
  /\ CanBegin
  /\ run.seq < MaxRuns
  /\ status' = "TRANSCRIPT_REVIEW"
  /\ run' = [state |-> "running", stage |-> "TRANSCRIPT_REVIEW", reason |-> None,
             seq |-> run.seq + 1]
  /\ transcript' = "in_review"
  /\ UNCHANGED <<control, retries, media>>

\* POST /produce, the engine raising at stage p: before it set a status, or later.
ProduceFails(p) ==
  /\ CanBegin
  /\ run.seq < MaxRuns
  /\ p \in {status, "DISCUSSING"}
  /\ status' = "FAILED"
  /\ control' = [control EXCEPT !.failed_stage = p]
  /\ run' = [state |-> "failed", stage |-> "FAILED", reason |-> "stage_failed",
             seq |-> run.seq + 1]
  /\ UNCHANGED <<retries, evidence>>

\* The discussion stage of a worker pass: only for an active, unblocked run
\* and an episode that has no canonical transcript.
WorkerDiscussion ==
  /\ Running
  /\ ~control.paused /\ ~control.cancelled
  /\ transcript = None
  /\ status \in {"DRAFT", "READY", "DISCUSSING"}
  /\ status' = "TRANSCRIPT_REVIEW"
  /\ run' = EnterStage("TRANSCRIPT_REVIEW")
  /\ transcript' = "in_review"
  /\ UNCHANGED <<control, retries, media>>

\* record_approval_decision on the transcript review.  The decision is not
\* limited to pending approvals and does not look at the episode's status.
DecideTranscript(approved) ==
  /\ transcript # None
  /\ transcript' = IF approved THEN "approved" ELSE "in_review"
  /\ status' = IF approved THEN "READY" ELSE "TRANSCRIPT_REVIEW"
  /\ run' = IF status' # status THEN EnterStage(status') ELSE run
  /\ UNCHANGED <<control, retries, media>>

ReopenTranscript ==
  /\ status \notin Terminal
  /\ transcript = "approved"
  /\ transcript' = "in_review"
  /\ status' = "TRANSCRIPT_REVIEW"
  /\ run' = EnterStage("TRANSCRIPT_REVIEW")
  /\ UNCHANGED <<control, retries, media>>

\* A speech, visual, timeline or render service on request: it assigns the
\* status without recording a stage, and does not ask for the present one.
MediaWork(s) ==
  /\ transcript = "approved"
  /\ status' = s
  /\ media' \in MediaState \ {None}
  /\ UNCHANGED <<control, run, retries, transcript>>

\* publish_package with a live target that answers "completed".
PublishLive ==
  /\ transcript = "approved"
  /\ status' = "COMPLETED"
  /\ UNCHANGED <<control, run, retries, evidence>>

-----------------------------------------------------------------------------
Operator ==
  \/ BeginRun \/ Pause \/ Resume \/ Cancel \/ StopRun
  \/ RetryFailedStage \/ ContinueAfterManualEdit \/ RejectStage \/ Complete
  \/ \E e \in retries : AcknowledgeRetry(e)

Worker ==
  \/ \E e \in retries : RetryDueStage(e)
  \/ \E errors \in [WorkerStage -> 0..MaxErrors] :
       RecordOrchestration(errors) \/ WorkerCompletes(errors)
  \/ WorkerDiscussion
  \/ ReconcileVisuals

Other ==
  \/ Produce
  \/ \E p \in {status, "DISCUSSING"} : ProduceFails(p)
  \/ \E approved \in BOOLEAN : DecideTranscript(approved)
  \/ ReopenTranscript
  \/ \E s \in MediaStages \cup {"READY"} : MediaWork(s)
  \/ PublishLive

Next == Operator \/ Worker \/ Other

Spec == Init /\ [][Next]_vars

\* The worker loop polls for as long as the process runs, so a due retry of
\* an active run is picked up eventually.
FairSpec == Spec /\ WF_vars(\E e \in retries : RetryDueStage(e))

-----------------------------------------------------------------------------
(* Properties.                                                             *)

(* The attempt numbers of a worker stage are 1, 2, 3, ... without a gap or *)
(* a duplicate: resolving entries never gives a number back, so operator   *)
(* recovery cannot reset the retry budget.                                 *)
AttemptsCumulative ==
  /\ \A s \in WorkerStage : \E n \in 0..MaxEntries : Attempts(s) = 1..n
  /\ \A e, f \in retries : e.stage = f.stage /\ e.attempt = f.attempt => e = f

(* The coordinator retries a stage by itself at most MaxAttempts - 1 times *)
(* in the life of the episode, over all its runs and operator recoveries.  *)
AutomaticRetryBudget ==
  \A s \in WorkerStage :
    Cardinality({e \in retries : e.stage = s /\ e.status = "automatic_retried"}) < MaxAttempts

(* The exhausted flag always has an unresolved exhausted entry behind it:  *)
(* whichever path resolves the last such entry also takes the flag away.   *)
ExhaustedFlagGrounded ==
  control.retry_exhausted_stage # None =>
    \E e \in retries : e.status = "exhausted" /\ Target[e.stage] = control.retry_exhausted_stage

(* A cancelled episode is marked so, and the mark excludes an active run,  *)
(* even after an approval or a visual sync has moved the status on.        *)
CancellationSticks ==
  /\ status = "CANCELLED" => control.cancelled
  /\ control.cancelled => ~Running

(* The projection of a running run follows the status through every        *)
(* operator action: a run that is started, reopened, rejected, stopped or   *)
(* completed is left at the status the same request stored.                *)
OperatorKeepsRunInStep ==
  [][Operator /\ run' # run => run'.stage = status']_vars

(* A scheduled retry of an active run does not wait for ever: it is taken  *)
(* up or resolved unless the run is paused, cancelled or ended.            *)
ScheduledRetryProgress ==
  \A s \in WorkerStage, n \in 1..MaxEntries :
    (\E e \in retries : e.stage = s /\ e.attempt = n /\ e.status = "scheduled")
      ~> \/ ~\E e \in retries : e.stage = s /\ e.attempt = n /\ e.status = "scheduled"
         \/ control.paused \/ control.cancelled \/ ~Running

(* The completion gates are passed over in two ways only: a target that    *)
(* publishes live completes the episode by itself, and a recovery brings   *)
(* back an episode that failed, paused or was cancelled once it was        *)
(* completed.                                                              *)
CompletionAccounted ==
  [][status # "COMPLETED" /\ status' = "COMPLETED" =>
       \/ GatesPass
       \/ PublishLive
       \/ "COMPLETED" \in {control.failed_stage, control.paused_stage,
                           control.cancelled_from_stage}]_vars

=============================================================================
