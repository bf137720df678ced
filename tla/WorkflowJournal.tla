--------------------------- MODULE WorkflowJournal ---------------------------
(***************************************************************************)
(* The workflow_event.v1 journal that the handlers of WorkflowControl      *)
(* append to, the stage history and signal list they keep on the run, and  *)
(* replay_workflow, which folds the journal back into a run projection.    *)
(*                                                                         *)
(* Every action here is an action of WorkflowControl together with what    *)
(* the same handler journals.  Times, actors, comments and identifiers are *)
(* left out; a run is identified by its sequence number.                   *)
(***************************************************************************)
EXTENDS WorkflowControl, SequencesExt

CONSTANT MaxJournal   \* bound: events in the journal

ASSUME JournalAssumption == MaxJournal \in Nat

VARIABLES
  journal,   \* workflow_control["workflow_event_log"]
  history,   \* the stages of run["stage_history"]
  signals    \* run["signals"]

journalVars == <<journal, history, signals>>
allVars == <<vars, journalVars>>

\* The stages DiscussionEngine.run records one after another.
DiscussionPath ==
  <<"PREPARING_DISCUSSION", "DISCUSSING", "TRANSCRIPT_QC", "TRANSCRIPT_REVIEW">>

Started(stage, n) == [type |-> "run.started", stage |-> stage, seq |-> n]
Entered(stage) == [type |-> "stage.entered", stage |-> stage]
Received(signal) == [type |-> "signal.received", signal |-> signal]
Completed(state, stage, reason) ==
  [type |-> "run.completed", state |-> state, stage |-> stage, reason |-> reason]
\* Events replay does not look at: workflow.run.stopped, workflow.stage_retry.*
Note(type) == [type |-> type]

Signal(type, stage) == [type |-> type, stage |-> stage]

\* The stages of path that record_stage appends to history h: a stage that is
\* already the last one is not entered again.
Fresh(h, path) == IF h # <<>> /\ path # <<>> /\ Last(h) = Head(path) THEN Tail(path) ELSE path

EnteredAll(stages) == [i \in DOMAIN stages |-> Entered(stages[i])]

\* _append_workflow_event does nothing while there is no run.
Journals(events) ==
  /\ journal' = IF HasRun THEN journal \o events ELSE journal
  /\ Len(journal') <= MaxJournal

\* Mutant: every stage of the path is journaled, the history takes the fresh ones.
EntersAlways(before, path, after) ==
  /\ history' = IF HasRun THEN history \o Fresh(history, path) ELSE history
  /\ Journals(before \o EnteredAll(path) \o after)

\* A handler that journals events and then enters the stages of path.
Enters(before, path, after) ==
  LET fresh == Fresh(history, path) IN
  /\ history' = IF HasRun THEN history \o fresh ELSE history
  /\ Journals(before \o EnteredAll(fresh) \o after)

\* _append_workflow_signal.
Signals(signal) == signals' = IF HasRun THEN Append(signals, signal) ELSE signals

\* Mutant: the signal is kept on the run but not journaled.
SignalOnlyUnjournaled(signal, after) ==
  /\ Signals(signal)
  /\ Journals(after)
  /\ UNCHANGED history

\* A handler that only journals its signal and a closing event.
SignalOnly(signal, after) ==
  /\ Signals(signal)
  /\ Journals(<<Received(signal)>> \o after)
  /\ UNCHANGED history

\* A handler that journals its signal, resolves retries and re-enters a stage.
SignalAndReopen(signal, resolvedSome) ==
  /\ Signals(signal)
  /\ Enters(<<Received(signal)>> \o (IF resolvedSome THEN <<Note("retry.resolved")>> ELSE <<>>),
            <<signal.stage>>, <<>>)

\* A handler that starts a run at the present status and goes through path.
Starts(path, after, unjournaled) ==
  LET fresh == Fresh(<<status>>, path) IN
  /\ history' = <<status>> \o fresh \o unjournaled
  /\ signals' = <<>>
  /\ journal' = journal \o <<Started(status, run.seq + 1)>> \o EnteredAll(fresh) \o after
  /\ Len(journal') <= MaxJournal

JBeginRun == BeginRun /\ Starts(<<>>, <<>>, <<>>)

JPause == Pause /\ SignalOnly(Signal("pause", status), <<>>)

JResume == Resume /\ SignalOnly(Signal("resume", status), <<>>)

JCancel ==
  /\ Cancel
  /\ SignalOnly(Signal("cancel", status), <<Completed("cancelled", "CANCELLED", "cancelled")>>)

JStopRun == StopRun /\ SignalOnly(Signal("stop_run", status), <<Note("run.stopped")>>)

JRetryFailedStage ==
  /\ RetryFailedStage
  /\ SignalAndReopen(Signal("retry_failed_stage", status'), ActiveFor(status') # {})

JContinueAfterManualEdit ==
  /\ ContinueAfterManualEdit
  /\ SignalAndReopen(Signal("continue_after_manual_edit", status'), ActiveFor(status') # {})

JRejectStage ==
  /\ RejectStage
  /\ SignalOnly(Signal("reject_stage", status), <<Completed("failed", "FAILED", "stage_rejected")>>)

\* approve_stage leaves every variable of WorkflowControl as it is.
JApproveStage ==
  /\ status \notin Terminal
  /\ SignalOnly(Signal("approve_stage", status), <<>>)
  /\ UNCHANGED vars

JComplete ==
  /\ Complete
  /\ Signals(Signal("complete", "COMPLETED"))
  /\ Enters(<<Received(Signal("complete", "COMPLETED"))>>, <<"COMPLETED">>,
            <<Completed("completed", "COMPLETED", "completed")>>)

JWorkerCompletes(errors) ==
  /\ WorkerCompletes(errors)
  /\ Signals(Signal("complete", "COMPLETED"))
  /\ Enters(<<Received(Signal("complete", "COMPLETED"))>>, <<"COMPLETED">>,
            <<Completed("completed", "COMPLETED", "completed")>>)

JAcknowledgeRetry(e) ==
  /\ AcknowledgeRetry(e)
  /\ Journals(<<Note("retry.resolved"), Note("retry.operator_acknowledged")>>)
  /\ UNCHANGED <<history, signals>>

JRetryDueStage(e) ==
  /\ RetryDueStage(e)
  /\ Enters(<<Note("retry.resolved")>>, <<Target[e.stage]>>,
            <<Note("retry.automatic_requested")>>)
  /\ UNCHANGED signals

JProduce == Produce /\ Starts(DiscussionPath, <<>>, <<>>)

\* record_failure puts FAILED into the history without a stage.entered event.
JProduceFails(p) ==
  /\ ProduceFails(p)
  /\ Starts(IF p = status THEN <<>> ELSE SubSeq(DiscussionPath, 1, 2),
            <<Completed("failed", "FAILED", "stage_failed")>>,
            IF p = "FAILED" THEN <<>> ELSE <<"FAILED">>)

JWorkerDiscussion ==
  WorkerDiscussion /\ Enters(<<>>, DiscussionPath, <<>>) /\ UNCHANGED signals

\* The status is recorded as a stage only when the decision changed it.
JDecideTranscript(approved) ==
  /\ DecideTranscript(approved)
  /\ Enters(<<>>, IF status' # status THEN <<status'>> ELSE <<>>, <<>>)
  /\ UNCHANGED signals

JReopenTranscript ==
  ReopenTranscript /\ Enters(<<>>, <<"TRANSCRIPT_REVIEW">>, <<>>) /\ UNCHANGED signals

JSilent ==
  /\ \/ \E errors \in [WorkerStage -> 0..MaxErrors] : RecordOrchestration(errors)
     \/ ReconcileVisuals
     \/ \E s \in MediaStages \cup {"READY"} : MediaWork(s)
     \/ PublishLive
  /\ UNCHANGED journalVars

JInit == Init /\ journal = <<>> /\ history = <<>> /\ signals = <<>>

JNext ==
  \/ JBeginRun \/ JPause \/ JResume \/ JCancel \/ JStopRun
  \/ JRetryFailedStage \/ JContinueAfterManualEdit
  \/ JApproveStage \/ JRejectStage \/ JComplete
  \/ \E errors \in [WorkerStage -> 0..MaxErrors] : JWorkerCompletes(errors)
  \/ \E e \in retries : JAcknowledgeRetry(e) \/ JRetryDueStage(e)
  \/ JProduce
  \/ \E p \in {status, "DISCUSSING"} : JProduceFails(p)
  \/ JWorkerDiscussion
  \/ \E approved \in BOOLEAN : JDecideTranscript(approved)
  \/ JReopenTranscript
  \/ JSilent

JSpec == JInit /\ [][JNext]_allVars

-----------------------------------------------------------------------------
(* replay_workflow.                                                        *)

\* Mutant: replay forgets that a manual-edit continuation reopens the run.
ReopeningByRetry == {"retry_failed_stage"}

Reopening == {"retry_failed_stage", "continue_after_manual_edit"}

NothingReplayed ==
  [seq |-> 0, state |-> None, stage |-> None, reason |-> None, history |-> <<>>,
   signals |-> <<>>]

\* One event of _replay_events.
ReplayStep(r, e) ==
  CASE e.type = "run.started" ->
         [r EXCEPT !.seq = e.seq, !.state = "running", !.stage = e.stage,
                   !.history = Append(@, e.stage)]
    [] e.type = "stage.entered" ->
         [r EXCEPT !.stage = e.stage, !.history = Append(@, e.stage)]
    [] e.type = "signal.received" /\ e.signal.type \in Reopening ->
         [r EXCEPT !.signals = Append(@, e.signal), !.state = "running",
                   !.stage = e.signal.stage, !.reason = None]
    [] e.type = "signal.received" /\ e.signal.type \notin Reopening ->
         [r EXCEPT !.signals = Append(@, e.signal)]
    [] e.type = "run.completed" ->
         [r EXCEPT !.state = e.state, !.stage = e.stage, !.reason = e.reason]
    [] OTHER -> r

\* _replay_events: the projection after each of the events, the last one returned.
Replay(events) ==
  LET after[n \in 0..Len(events)] ==
        IF n = 0 THEN NothingReplayed ELSE ReplayStep(after[n - 1], events[n])
  IN after[Len(events)]

Replayed == Replay(journal)

-----------------------------------------------------------------------------
(* Properties.                                                             *)

(* While a run is running, replaying the journal gives its sequence        *)
(* number, its state and its current stage, whatever was stopped, rejected, *)
(* cancelled, failed and reopened before.                                  *)
ActiveRunReplays ==
  Running => <<Replayed.seq, Replayed.state, Replayed.stage>> = <<run.seq, run.state, run.stage>>

(* The signals of the present run are the last signals of the journal, in  *)
(* order: no operator signal of a run goes unjournaled.                    *)
SignalsReplay == IsSuffix(signals, Replayed.signals)

(* The stage history of the first run is what the journal replays, as long *)
(* as the run did not end in a recorded stage failure.                     *)
FirstRunHistoryReplays ==
  run.seq = 1 /\ "FAILED" \notin Range(history) => Replayed.history = history

=============================================================================
