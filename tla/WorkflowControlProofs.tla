------------------------ MODULE WorkflowControlProofs ------------------------
(***************************************************************************)
(* Theorems of WorkflowControl and of WorkflowJournal, for every set of    *)
(* stages, retry budget and bound.  The inductive invariant of the first   *)
(* joins the type invariant with the shape of the retry queue (without     *)
(* which the next attempt number is not known to be a number) and with two *)
(* facts about cancellation that the checked invariants rest on: no        *)
(* restore point leads back to CANCELLED.  The second part shows that      *)
(* journaling implements WorkflowControl and, by induction over the length *)
(* of the journal, what replaying it gives.                                *)
(***************************************************************************)
EXTENDS WorkflowJournal, FiniteSetTheorems, SequenceTheorems, WellFoundedInduction, TLAPS

(* No restore point names CANCELLED.                                       *)
RestoreNotCancelled ==
  /\ control.failed_stage # "CANCELLED"
  /\ control.paused_stage # "CANCELLED"
  /\ control.cancelled_from_stage # "CANCELLED"

(* Entries above the budget are never left to the automatic retry.         *)
BudgetKept ==
  \A e \in retries :
    e.status \in {"scheduled", "automatic_retried"} => e.attempt < MaxAttempts

IInv ==
  /\ TypeOK
  /\ AttemptsCumulative
  /\ RestoreNotCancelled
  /\ CancellationSticks
  /\ ExhaustedFlagGrounded
  /\ BudgetKept

(* The highest of the numbers 1..n is n, so the next attempt is n + 1.     *)
LEMMA NextAttemptValue ==
  ASSUME NEW s, NEW top \in Nat, Attempts(s) = 1..top
  PROVE  NextAttempt(s) = top + 1
<1>1. CASE top = 0
  BY <1>1 DEF NextAttempt
<1>2. CASE top > 0
  <2>1. Attempts(s) # {}
    BY <1>2
  <2>2. /\ top \in Attempts(s)
        /\ \A m \in Attempts(s) : m <= top
    BY <1>2
  <2>3. \A n \in Attempts(s) : (\A m \in Attempts(s) : m <= n) => n = top
    BY <2>2
  <2>4. (CHOOSE n \in Attempts(s) : \A m \in Attempts(s) : m <= n) = top
    BY <2>2, <2>3
  <2>5. NextAttempt(s) = 1 + top
    BY <2>1, <2>4, Zenon DEF NextAttempt
  <2>. QED BY <2>5
<1>. QED BY <1>1, <1>2

(* Marking some entries of the queue with a resolution keeps the types and *)
(* every attempt number, and leaves no entry of theirs active.             *)
LEMMA ResolutionKeepsAttempts ==
  ASSUME TypeOK, AttemptsCumulative,
         NEW S, S \subseteq retries,
         NEW res \in Resolution,
         retries' = (retries \ S) \cup {[e EXCEPT !.status = res] : e \in S}
  PROVE  /\ retries' \in SUBSET RetryEntry
         /\ AttemptsCumulative'
<1>1. \A e \in retries : /\ [e EXCEPT !.status = res] \in RetryEntry
                         /\ [e EXCEPT !.status = res].stage = e.stage
                         /\ [e EXCEPT !.status = res].attempt = e.attempt
                         /\ e \in RetryEntry
  BY DEF TypeOK, RetryEntry
<1>2. retries' \in SUBSET RetryEntry
  BY <1>1
<1>3. \A s : Attempts(s)' = Attempts(s)
  <2>. TAKE s
  <2>1. ASSUME NEW a \in Attempts(s) PROVE a \in Attempts(s)'
    <3>1. PICK e \in retries : e.stage = s /\ e.attempt = a
      BY <2>1 DEF Attempts
    <3>2. CASE e \in S
      <4>1. [e EXCEPT !.status = res] \in retries'
        BY <3>2
      <4>. QED BY <4>1, <3>1, <1>1 DEF Attempts
    <3>3. CASE e \notin S
      BY <3>1, <3>3 DEF Attempts
    <3>. QED BY <3>2, <3>3
  <2>2. ASSUME NEW a \in Attempts(s)' PROVE a \in Attempts(s)
    <3>1. PICK e \in retries' : e.stage = s /\ e.attempt = a
      BY <2>2 DEF Attempts
    <3>2. PICK f \in retries : f.stage = s /\ f.attempt = a
      BY <3>1, <1>1
    <3>. QED BY <3>2 DEF Attempts
  <2>. QED BY <2>1, <2>2
<1>4. ASSUME NEW e \in retries', NEW f \in retries',
             e.stage = f.stage, e.attempt = f.attempt
      PROVE  e = f
  <2>1. PICK e0 \in retries : /\ e0.stage = e.stage /\ e0.attempt = e.attempt
                              /\ (e = e0 /\ e0 \notin S) \/ (e = [e0 EXCEPT !.status = res] /\ e0 \in S)
    BY <1>1
  <2>2. PICK f0 \in retries : /\ f0.stage = f.stage /\ f0.attempt = f.attempt
                              /\ (f = f0 /\ f0 \notin S) \/ (f = [f0 EXCEPT !.status = res] /\ f0 \in S)
    BY <1>1
  <2>3. e0 = f0
    BY <1>4, <2>1, <2>2 DEF AttemptsCumulative
  <2>. QED BY <2>1, <2>2, <2>3
<1>. QED BY <1>2, <1>3, <1>4 DEF AttemptsCumulative

(* Appending the entries of a failed pass continues every numbering.       *)
LEMMA RecordingKeepsAttempts ==
  ASSUME TypeOK, AttemptsCumulative,
         NEW errors \in [WorkerStage -> 0..MaxErrors],
         RecordErrors(errors)
  PROVE  /\ retries' \in SUBSET RetryEntry
         /\ AttemptsCumulative'
<1>. DEFINE failed == {s \in WorkerStage : errors[s] > 0}
<1>a. retries' = retries \cup UNION {NewEntries(s, errors[s]) : s \in failed}
  BY DEF RecordErrors
<1>b. \A s \in failed : NextAttempt(s) + errors[s] - 1 <= MaxEntries
  BY DEF RecordErrors
<1>c. \A s \in WorkerStage : errors[s] \in Nat
  BY ConstantsAssumption
<1>d. MaxEntries \in Nat /\ MaxAttempts \in Nat
  BY ConstantsAssumption
<1>e. \A s \in failed : s \in WorkerStage /\ errors[s] \in Nat /\ errors[s] > 0
  BY <1>c
<1>. HIDE DEF failed
<1>1. \A s \in WorkerStage : \E top \in 0..MaxEntries :
        Attempts(s) = 1..top /\ NextAttempt(s) = top + 1
  BY NextAttemptValue, <1>d DEF AttemptsCumulative
<1>2. \A s \in failed : \A e \in NewEntries(s, errors[s]) :
        /\ e \in RetryEntry
        /\ e.stage = s
        /\ e.attempt >= NextAttempt(s)
        /\ e.attempt <= NextAttempt(s) + errors[s] - 1
        /\ e = NewEntry(s, e.attempt)
  <2>. TAKE s \in failed
  <2>. TAKE e \in NewEntries(s, errors[s])
  <2>1. PICK n \in NextAttempt(s)..(NextAttempt(s) + errors[s] - 1) : e = NewEntry(s, n)
    BY DEF NewEntries
  <2>2. NextAttempt(s) \in Nat /\ s \in WorkerStage /\ errors[s] \in Nat
    BY <1>1, <1>e, <1>d
  <2>3. n \in Nat /\ n >= NextAttempt(s) /\ n <= NextAttempt(s) + errors[s] - 1
    BY <2>1, <2>2
  <2>4. e.stage = s /\ e.attempt = n /\ e \in RetryEntry
    BY <2>1, <2>2, <2>3 DEF NewEntry, RetryEntry, Active
  <2>. QED BY <2>1, <2>3, <2>4
<1>3. retries' \in SUBSET RetryEntry
  BY <1>a, <1>2 DEF TypeOK
<1>4. ASSUME NEW s \in WorkerStage
      PROVE  \E top \in 0..MaxEntries : Attempts(s)' = 1..top
  <2>1. PICK top \in 0..MaxEntries : Attempts(s) = 1..top /\ NextAttempt(s) = top + 1
    BY <1>1
  <2>2. CASE s \notin failed
    <3>1. Attempts(s)' = Attempts(s)
      BY <2>2, <1>a, <1>2 DEF Attempts
    <3>. QED BY <3>1, <2>1
  <2>3. CASE s \in failed
    <3>1. top + errors[s] \in 0..MaxEntries
      BY <2>1, <2>3, <1>b, <1>d, <1>e
    <3>2. ASSUME NEW a \in Attempts(s)' PROVE a \in 1..(top + errors[s])
      <4>1. PICK e \in retries' : e.stage = s /\ e.attempt = a
        BY <3>2 DEF Attempts
      <4>2. CASE e \in retries
        <5>1. a \in 1..top
          BY <4>1, <4>2, <2>1 DEF Attempts
        <5>. QED BY <5>1, <2>3, <1>e, <1>d
      <4>3. CASE e \notin retries
        <5>1. PICK r \in failed : e \in NewEntries(r, errors[r])
          BY <4>3, <1>a
        <5>2. r = s /\ e.attempt >= top + 1 /\ e.attempt <= top + 1 + errors[s] - 1
                    /\ e.attempt \in Nat
          BY <5>1, <4>1, <1>2, <2>1 DEF RetryEntry
        <5>. QED BY <5>2, <4>1, <2>3, <1>e, <1>d
      <4>. QED BY <4>2, <4>3
    <3>3. ASSUME NEW a \in 1..(top + errors[s]) PROVE a \in Attempts(s)'
      <4>1. CASE a <= top
        <5>1. a \in Attempts(s)
          BY <4>1, <2>1, <2>3, <1>e, <1>d
        <5>. QED BY <5>1, <1>a DEF Attempts
      <4>2. CASE ~(a <= top)
        <5>1. a \in NextAttempt(s)..(NextAttempt(s) + errors[s] - 1)
          BY <4>2, <2>1, <2>3, <1>e, <1>d
        <5>2. NewEntry(s, a) \in NewEntries(s, errors[s])
          BY <5>1 DEF NewEntries
        <5>3. NewEntry(s, a) \in retries'
          BY <5>2, <2>3, <1>a
        <5>4. NewEntry(s, a).stage = s /\ NewEntry(s, a).attempt = a
          BY DEF NewEntry
        <5>. QED BY <5>3, <5>4 DEF Attempts
      <4>. QED BY <4>1, <4>2
    <3>4. Attempts(s)' = 1..(top + errors[s])
      BY <3>2, <3>3
    <3>. QED BY <3>1, <3>4
  <2>. QED BY <2>2, <2>3
<1>5. ASSUME NEW e \in retries', NEW f \in retries',
             e.stage = f.stage, e.attempt = f.attempt
      PROVE  e = f
  <2>1. ASSUME NEW x \in retries, NEW r \in failed, NEW y \in NewEntries(r, errors[r]),
               x.stage = y.stage, x.attempt = y.attempt
        PROVE  FALSE
    <3>1. PICK top \in 0..MaxEntries : Attempts(r) = 1..top /\ NextAttempt(r) = top + 1
      BY <1>1, <1>e
    <3>2. x.attempt \in 1..top
      BY <2>1, <1>2, <3>1 DEF Attempts
    <3>. QED BY <2>1, <1>2, <3>1, <3>2
  <2>2. CASE e \in retries /\ f \in retries
    BY <2>2, <1>5 DEF AttemptsCumulative
  <2>3. CASE e \in retries /\ f \notin retries
    <3>1. PICK r \in failed : f \in NewEntries(r, errors[r])
      BY <2>3, <1>a
    <3>. QED BY <2>1, <2>3, <3>1, <1>5
  <2>4. CASE e \notin retries /\ f \in retries
    <3>1. PICK r \in failed : e \in NewEntries(r, errors[r])
      BY <2>4, <1>a
    <3>. QED BY <2>1, <2>4, <3>1, <1>5
  <2>5. CASE e \notin retries /\ f \notin retries
    <3>1. /\ \E r \in failed : e \in NewEntries(r, errors[r])
          /\ \E r \in failed : f \in NewEntries(r, errors[r])
      BY <2>5, <1>a
    <3>2. e = NewEntry(e.stage, e.attempt) /\ f = NewEntry(f.stage, f.attempt)
      BY <3>1, <1>2
    <3>. QED BY <3>2, <1>5
  <2>. QED BY <2>2, <2>3, <2>4, <2>5
<1>. QED BY <1>3, <1>4, <1>5 DEF AttemptsCumulative

-----------------------------------------------------------------------------
(* An action that touches neither the queue nor the exhausted flag keeps   *)
(* every invariant about them.                                             *)
LEMMA QueueUntouched ==
  ASSUME IInv, retries' = retries,
         control'.retry_exhausted_stage = control.retry_exhausted_stage
  PROVE  AttemptsCumulative' /\ ExhaustedFlagGrounded' /\ BudgetKept'
BY DEF IInv, AttemptsCumulative, Attempts, ExhaustedFlagGrounded, BudgetKept

(* An action that resolves entries of one target status, and afterwards    *)
(* has the exhausted flag either cleared or naming another target, keeps   *)
(* them too; the automatic resolution is for scheduled entries only.       *)
LEMMA ResolutionStep ==
  ASSUME IInv,
         NEW S, S \subseteq retries,
         NEW res \in Resolution,
         NEW t,
         \A e \in S : Target[e.stage] = t,
         res = "automatic_retried" => \A e \in S : e.status = "scheduled",
         retries' = (retries \ S) \cup {[e EXCEPT !.status = res] : e \in S},
         control'.retry_exhausted_stage # None =>
           /\ control'.retry_exhausted_stage = control.retry_exhausted_stage
           /\ S = {} \/ control.retry_exhausted_stage # t
  PROVE  /\ retries' \in SUBSET RetryEntry
         /\ AttemptsCumulative' /\ ExhaustedFlagGrounded' /\ BudgetKept'
<1>1. retries' \in SUBSET RetryEntry /\ AttemptsCumulative'
  BY ResolutionKeepsAttempts DEF IInv
<1>2. ExhaustedFlagGrounded'
  <2>1. SUFFICES ASSUME control'.retry_exhausted_stage # None
                 PROVE  \E e \in retries' : /\ e.status = "exhausted"
                                            /\ Target[e.stage] = control'.retry_exhausted_stage
    BY DEF ExhaustedFlagGrounded
  <2>2. PICK e \in retries : /\ e.status = "exhausted"
                             /\ Target[e.stage] = control.retry_exhausted_stage
    BY <2>1 DEF IInv, ExhaustedFlagGrounded
  <2>3. e \notin S
    BY <2>1, <2>2
  <2>. QED BY <2>1, <2>2, <2>3
<1>3. BudgetKept'
  <2>1. SUFFICES ASSUME NEW e \in retries', e.status \in {"scheduled", "automatic_retried"}
                 PROVE  e.attempt < MaxAttempts
    BY DEF BudgetKept
  <2>2. CASE e \in retries
    BY <2>1, <2>2 DEF IInv, BudgetKept
  <2>3. CASE e \notin retries
    <3>1. PICK f \in S : e = [f EXCEPT !.status = res]
      BY <2>3
    <3>2. f \in RetryEntry
      BY DEF IInv, TypeOK
    <3>3. e.status = res /\ e.attempt = f.attempt
      BY <3>1, <3>2 DEF RetryEntry
    <3>4. f.status = "scheduled"
      BY <2>1, <3>3 DEF Resolution
    <3>. QED BY <3>3, <3>4 DEF IInv, BudgetKept
  <2>. QED BY <2>2, <2>3
<1>. QED BY <1>1, <1>2, <1>3

(* The restore points an operator recovery goes back to are statuses, and  *)
(* none of them is CANCELLED.                                              *)
LEMMA RestoredStatus ==
  ASSUME TypeOK, RestoreNotCancelled
  PROVE  /\ RetryStage \in Status \ {"CANCELLED"}
         /\ ContinueStage \in Status
         /\ status # "CANCELLED" => ContinueStage # "CANCELLED"
<1>. USE DEF Status, Working, Terminal, RestorePoint, None
<1>1. RetryStage \in Status \ {"CANCELLED"}
  BY DEF TypeOK, RestoreNotCancelled, RetryStage, Or
<1>2. CASE status = "FAILED"
  <2>1. ContinueStage = Or(control.failed_stage, Or(control.paused_stage, "READY"))
    BY <1>2 DEF ContinueStage
  <2>. QED BY <1>1, <2>1 DEF TypeOK, RestoreNotCancelled, Or
<1>3. CASE status # "FAILED" /\ control.paused
  <2>1. ContinueStage = Or(control.paused_stage, status)
    BY <1>3 DEF ContinueStage
  <2>. QED BY <1>1, <2>1 DEF TypeOK, RestoreNotCancelled, Or
<1>4. CASE status # "FAILED" /\ ~control.paused
  <2>1. ContinueStage = status
    BY <1>4 DEF ContinueStage
  <2>. QED BY <1>1, <2>1 DEF TypeOK
<1>. QED BY <1>2, <1>3, <1>4

(* The types, and the two facts about cancellation, over one step: what is *)
(* left of the invariant once the queue is dealt with.                     *)
StatusInv == TypeOK /\ RestoreNotCancelled /\ CancellationSticks

-----------------------------------------------------------------------------
(* Operator actions.                                                       *)

(* The operator actions keep the invariant.                                *)
LEMMA OperatorStep ==
  ASSUME IInv, Operator
  PROVE  IInv'
<1>. USE DEF Status, Working, Terminal, RestorePoint, None, RunState, Reason
<1>1. CASE BeginRun
  <2>1. StatusInv'
    BY <1>1 DEF IInv, StatusInv, TypeOK, RestoreNotCancelled, CancellationSticks, Running,
                BeginRun, CanBegin, evidence
  <2>. QED BY <1>1, <2>1, QueueUntouched DEF BeginRun, IInv, StatusInv
<1>2. CASE Pause
  <2>0. control'.cancelled = control.cancelled
    BY <1>2 DEF Pause, IInv, TypeOK
  <2>1. StatusInv'
    <3>1. TypeOK'
      BY <1>2 DEF IInv, TypeOK, Pause, evidence
    <3>2. RestoreNotCancelled'
      BY <1>2 DEF IInv, TypeOK, RestoreNotCancelled, Pause
    <3>3. CancellationSticks'
      BY <1>2, <2>0 DEF IInv, CancellationSticks, Running, Pause
    <3>. QED BY <3>1, <3>2, <3>3 DEF StatusInv
  <2>2. control'.retry_exhausted_stage = control.retry_exhausted_stage
    BY <1>2 DEF Pause, IInv, TypeOK
  <2>. QED BY <1>2, <2>1, <2>2, QueueUntouched DEF Pause, IInv, StatusInv
<1>3. CASE Resume
  <2>0. control'.cancelled = control.cancelled
    BY <1>3 DEF Resume, IInv, TypeOK
  <2>1. StatusInv'
    <3>1. TypeOK'
      <4>1. control' \in [paused : BOOLEAN, cancelled : BOOLEAN,
                          paused_stage : RestorePoint, failed_stage : RestorePoint,
                          cancelled_from_stage : RestorePoint,
                          retry_exhausted_stage : RestorePoint]
        BY <1>3 DEF IInv, TypeOK, Resume
      <4>. QED BY <1>3, <4>1 DEF IInv, TypeOK, Resume, evidence
    <3>2. RestoreNotCancelled'
      BY <1>3 DEF IInv, TypeOK, RestoreNotCancelled, Resume
    <3>3. CancellationSticks'
      BY <1>3, <2>0 DEF IInv, CancellationSticks, Running, Resume
    <3>. QED BY <3>1, <3>2, <3>3 DEF StatusInv
  <2>2. control'.retry_exhausted_stage = control.retry_exhausted_stage
    BY <1>3 DEF Resume, IInv, TypeOK
  <2>. QED BY <1>3, <2>1, <2>2, QueueUntouched DEF Resume, IInv, StatusInv
<1>4. CASE Cancel
  <2>1. StatusInv'
    BY <1>4 DEF IInv, StatusInv, TypeOK, RestoreNotCancelled, CancellationSticks, Running,
                Cancel, EndRun, HasRun, evidence
  <2>2. control'.retry_exhausted_stage = control.retry_exhausted_stage
    BY <1>4 DEF Cancel, IInv, TypeOK
  <2>. QED BY <1>4, <2>1, <2>2, QueueUntouched DEF Cancel, IInv, StatusInv
<1>5. CASE StopRun
  <2>1. StatusInv'
    BY <1>5 DEF IInv, StatusInv, TypeOK, RestoreNotCancelled, CancellationSticks, Running,
                StopRun, EndRun, HasRun, evidence
  <2>2. control'.retry_exhausted_stage = control.retry_exhausted_stage
    BY <1>5 DEF StopRun, IInv, TypeOK
  <2>. QED BY <1>5, <2>1, <2>2, QueueUntouched DEF StopRun, IInv, StatusInv
<1>6. CASE RejectStage
  <2>1. StatusInv'
    BY <1>6 DEF IInv, StatusInv, TypeOK, RestoreNotCancelled, CancellationSticks, Running,
                RejectStage, EndRun, HasRun, evidence
  <2>2. control'.retry_exhausted_stage = control.retry_exhausted_stage
    BY <1>6 DEF RejectStage, IInv, TypeOK
  <2>. QED BY <1>6, <2>1, <2>2, QueueUntouched DEF RejectStage, IInv, StatusInv
<1>7. CASE Complete
  <2>1. StatusInv'
    <3>1. TypeOK'
      <4>1. run' \in [state : RunState, stage : RestorePoint, reason : Reason, seq : Nat]
        BY <1>7 DEF IInv, TypeOK, Complete, EndRun, HasRun
      <4>. QED BY <1>7, <4>1 DEF IInv, TypeOK, Complete, evidence
    <3>2. RestoreNotCancelled'
      BY <1>7 DEF IInv, TypeOK, RestoreNotCancelled, Complete
    <3>3. run'.state # "running"
      BY <1>7 DEF IInv, TypeOK, Complete, EndRun, HasRun
    <3>4. CancellationSticks'
      BY <1>7, <3>3 DEF CancellationSticks, Running, Complete
    <3>. QED BY <3>1, <3>2, <3>4 DEF StatusInv
  <2>. QED BY <1>7, <2>1, QueueUntouched DEF Complete, IInv, StatusInv
<1>8. CASE RetryFailedStage
  <2>. DEFINE S == ActiveFor(RetryStage)
  <2>1. S \subseteq retries /\ \A e \in S : Target[e.stage] = RetryStage
    BY DEF ActiveFor
  <2>2. control'.retry_exhausted_stage = PopExhausted(control.retry_exhausted_stage, RetryStage, S # {})
    BY <1>8 DEF RetryFailedStage, IInv, TypeOK
  <2>3. retries' = (retries \ S) \cup {[e EXCEPT !.status = "operator_retried"] : e \in S}
    BY <1>8 DEF RetryFailedStage, ResolveStage
  <2>4. control'.retry_exhausted_stage # None =>
           /\ control'.retry_exhausted_stage = control.retry_exhausted_stage
           /\ S = {} \/ control.retry_exhausted_stage # RetryStage
    BY <2>2 DEF PopExhausted
  <2>5. "operator_retried" \in Resolution
    BY DEF Resolution
  <2>. HIDE DEF S
  <2>6. /\ retries' \in SUBSET RetryEntry
        /\ AttemptsCumulative' /\ ExhaustedFlagGrounded' /\ BudgetKept'
    BY <2>1, <2>3, <2>4, <2>5, ResolutionStep
  <2>7. RetryStage \in Status \ {"CANCELLED"}
    BY RestoredStatus DEF IInv
  <2>8. StatusInv'
    <3>1. /\ status' = RetryStage /\ ~control'.cancelled
          /\ run' = ReopenRun(RetryStage)
          /\ transcript' = transcript /\ media' = media
      BY <1>8 DEF RetryFailedStage, IInv, TypeOK, evidence
    <3>2. /\ control'.failed_stage = control.failed_stage
          /\ control'.paused_stage = control.paused_stage
          /\ control'.cancelled_from_stage = control.cancelled_from_stage
      BY <1>8 DEF RetryFailedStage, IInv, TypeOK
    <3>3. control' \in [paused : BOOLEAN, cancelled : BOOLEAN,
                        paused_stage : RestorePoint, failed_stage : RestorePoint,
                        cancelled_from_stage : RestorePoint,
                        retry_exhausted_stage : RestorePoint]
      <4>1. control'.retry_exhausted_stage \in RestorePoint
        BY <2>2 DEF IInv, TypeOK, PopExhausted
      <4>2. control' = [control EXCEPT !.paused = FALSE, !.cancelled = FALSE,
                          !.retry_exhausted_stage = control'.retry_exhausted_stage]
        BY <1>8 DEF RetryFailedStage, IInv, TypeOK
      <4>. QED BY <4>1, <4>2 DEF IInv, TypeOK
    <3>4. TypeOK'
      BY <2>6, <2>7, <3>1, <3>3 DEF IInv, TypeOK, ReopenRun, EndRun, HasRun
    <3>5. RestoreNotCancelled' /\ CancellationSticks'
      BY <2>7, <3>1, <3>2 DEF IInv, RestoreNotCancelled, CancellationSticks
    <3>. QED BY <3>4, <3>5 DEF StatusInv
  <2>. QED BY <2>6, <2>8 DEF IInv, StatusInv
<1>9. CASE ContinueAfterManualEdit
  <2>. DEFINE S == ActiveFor(ContinueStage)
  <2>1. S \subseteq retries /\ \A e \in S : Target[e.stage] = ContinueStage
    BY DEF ActiveFor
  <2>2. control'.retry_exhausted_stage = None
    BY <1>9 DEF ContinueAfterManualEdit, IInv, TypeOK
  <2>3. retries' = (retries \ S) \cup {[e EXCEPT !.status = "manual_edit_resolved"] : e \in S}
    BY <1>9 DEF ContinueAfterManualEdit, ResolveStage
  <2>5. "manual_edit_resolved" \in Resolution
    BY DEF Resolution
  <2>. HIDE DEF S
  <2>6. /\ retries' \in SUBSET RetryEntry
        /\ AttemptsCumulative' /\ ExhaustedFlagGrounded' /\ BudgetKept'
    BY <2>1, <2>2, <2>3, <2>5, ResolutionStep
  <2>7. ContinueStage \in Status \ {"CANCELLED"}
    BY <1>9, RestoredStatus DEF IInv, ContinueAfterManualEdit
  <2>8. StatusInv'
    <3>1. /\ status' = ContinueStage /\ ~control'.cancelled
          /\ run' = ReopenRun(ContinueStage)
          /\ transcript' = transcript /\ media' = media
      BY <1>9 DEF ContinueAfterManualEdit, IInv, TypeOK, evidence
    <3>2. /\ control'.failed_stage = control.failed_stage
          /\ control'.paused_stage = control.paused_stage
          /\ control'.cancelled_from_stage = control.cancelled_from_stage
      BY <1>9 DEF ContinueAfterManualEdit, IInv, TypeOK
    <3>3. control' \in [paused : BOOLEAN, cancelled : BOOLEAN,
                        paused_stage : RestorePoint, failed_stage : RestorePoint,
                        cancelled_from_stage : RestorePoint,
                        retry_exhausted_stage : RestorePoint]
      BY <1>9 DEF ContinueAfterManualEdit, IInv, TypeOK
    <3>4. TypeOK'
      BY <2>6, <2>7, <3>1, <3>3 DEF IInv, TypeOK, ReopenRun, EndRun, HasRun
    <3>5. RestoreNotCancelled' /\ CancellationSticks'
      BY <2>7, <3>1, <3>2 DEF IInv, RestoreNotCancelled, CancellationSticks
    <3>. QED BY <3>4, <3>5 DEF StatusInv
  <2>. QED BY <2>6, <2>8 DEF IInv, StatusInv
<1>10. ASSUME NEW e \in retries, AcknowledgeRetry(e)
       PROVE  IInv'
  <2>2. control'.retry_exhausted_stage = PopExhausted(control.retry_exhausted_stage, Target[e.stage], TRUE)
    BY <1>10 DEF AcknowledgeRetry, IInv, TypeOK
  <2>. DEFINE S == {e}
             t == Target[e.stage]
  <2>1. S \subseteq retries /\ \A f \in S : Target[f.stage] = t
    OBVIOUS
  <2>3. retries' = (retries \ S) \cup {[f EXCEPT !.status = "operator_acknowledged"] : f \in S}
    BY <1>10 DEF AcknowledgeRetry, ResolveEntry
  <2>4. control'.retry_exhausted_stage # None =>
           /\ control'.retry_exhausted_stage = control.retry_exhausted_stage
           /\ control.retry_exhausted_stage # t
    BY <2>2 DEF PopExhausted
  <2>5. "operator_acknowledged" \in Resolution
    BY DEF Resolution
  <2>. HIDE DEF S, t
  <2>6. /\ retries' \in SUBSET RetryEntry
        /\ AttemptsCumulative' /\ ExhaustedFlagGrounded' /\ BudgetKept'
    BY <2>1, <2>3, <2>4, <2>5, ResolutionStep
  <2>8. StatusInv'
    BY <1>10, <2>2, <2>6
       DEF IInv, StatusInv, TypeOK, RestoreNotCancelled, CancellationSticks, Running,
           AcknowledgeRetry, evidence, PopExhausted
  <2>. QED BY <2>6, <2>8 DEF IInv, StatusInv
<1>. QED BY <1>1, <1>2, <1>3, <1>4, <1>5, <1>6, <1>7, <1>8, <1>9, <1>10 DEF Operator

-----------------------------------------------------------------------------
(* Actions of the coordinator.                                             *)

Less == {p \in Nat \X Nat : p[1] < p[2]}

(* A set of worker stages that is not empty has a last one: the least of   *)
(* their distances from NumStages is the distance of it.                   *)
LEMMA LastOfIsMember ==
  ASSUME NEW S \in SUBSET WorkerStage, S # {}
  PROVE  LastOf(S) \in S
<1>. DEFINE distances == {NumStages - s : s \in S}
<1>1. /\ NumStages \in Nat
      /\ \A s \in S : s \in Nat /\ s <= NumStages
  BY ConstantsAssumption DEF WorkerStage
<1>2. distances \subseteq Nat /\ distances # {}
  BY <1>1
<1>3. PICK d \in distances : \A x \in distances : ~(<<x, d>> \in Less)
  <2>1. IsWellFoundedOn(Less, Nat)
    BY NatLessThanWellFounded DEF OpToRel, Less
  <2>. QED BY <1>2, <2>1, WFMin
<1>4. \A x \in distances : d <= x
  <2>. TAKE x \in distances
  <2>1. x \in Nat /\ d \in Nat
    BY <1>2
  <2>2. ~(<<x, d>> \in Less)
    BY <1>3
  <2>. HIDE DEF distances
  <2>. QED BY <2>1, <2>2 DEF Less
<1>5. PICK s \in S : d = NumStages - s
  OBVIOUS
<1>6. \A r \in S : r <= s
  <2>. TAKE r \in S
  <2>1. d <= NumStages - r
    BY <1>4
  <2>. QED BY <2>1, <1>1, <1>5
<1>. QED BY <1>6, Zenon DEF LastOf

(* record_worker_orchestration: the flag it sets is grounded in the last   *)
(* entry it appends for that stage.                                        *)
LEMMA RecordingStep ==
  ASSUME IInv, NEW errors \in [WorkerStage -> 0..MaxErrors], RecordErrors(errors)
  PROVE  /\ retries' \in SUBSET RetryEntry
         /\ AttemptsCumulative' /\ ExhaustedFlagGrounded' /\ BudgetKept'
         /\ RestoreNotCancelled'
         /\ control' \in [paused : BOOLEAN, cancelled : BOOLEAN,
                          paused_stage : RestorePoint, failed_stage : RestorePoint,
                          cancelled_from_stage : RestorePoint,
                          retry_exhausted_stage : RestorePoint]
         /\ control'.cancelled = control.cancelled
<1>. DEFINE failed == {s \in WorkerStage : errors[s] > 0}
            exhausted == {s \in failed : NextAttempt(s) + errors[s] - 1 >= MaxAttempts}
            flag == IF exhausted = {} THEN control.retry_exhausted_stage
                    ELSE Target[LastOf(exhausted)]
            restore == IF failed = {} THEN control.failed_stage ELSE Target[LastOf(failed)]
<1>1. /\ retries' = retries \cup UNION {NewEntries(s, errors[s]) : s \in failed}
      /\ control' = [control EXCEPT !.failed_stage = restore, !.retry_exhausted_stage = flag]
  BY DEF RecordErrors
<1>2. failed \subseteq WorkerStage /\ exhausted \subseteq failed
  OBVIOUS
<1>3. /\ \A s \in failed : errors[s] \in Nat /\ errors[s] > 0
      /\ \A s \in exhausted : NextAttempt(s) + errors[s] - 1 >= MaxAttempts
  BY ConstantsAssumption
<1>. HIDE DEF failed, exhausted
<1>4. failed # {} => LastOf(failed) \in WorkerStage
  BY <1>2, LastOfIsMember
<1>5. exhausted # {} => LastOf(exhausted) \in exhausted
  BY <1>2, LastOfIsMember
<1>6. \A s \in WorkerStage : Target[s] \in Working \ Terminal
  BY ConstantsAssumption DEF Working, Terminal
<1>7. retries' \in SUBSET RetryEntry /\ AttemptsCumulative'
  BY RecordingKeepsAttempts DEF IInv
<1>8. \A s \in WorkerStage : NextAttempt(s) \in Nat
  <2>. TAKE s \in WorkerStage
  <2>1. PICK top \in 0..MaxEntries : Attempts(s) = 1..top
    BY DEF IInv, AttemptsCumulative
  <2>. QED BY <2>1, NextAttemptValue, ConstantsAssumption
<1>9. restore \in RestorePoint /\ restore # "CANCELLED"
  BY <1>4, <1>6 DEF IInv, TypeOK, RestoreNotCancelled, RestorePoint, Status, Terminal
<1>10. flag \in RestorePoint
  BY <1>2, <1>5, <1>6 DEF IInv, TypeOK, RestorePoint, Status
<1>11. /\ control'.retry_exhausted_stage = flag
       /\ control'.failed_stage = restore
       /\ control'.paused_stage = control.paused_stage
       /\ control'.cancelled_from_stage = control.cancelled_from_stage
       /\ control'.cancelled = control.cancelled
  BY <1>1 DEF IInv, TypeOK
<1>12. ExhaustedFlagGrounded'
  <2>1. CASE exhausted = {}
    <3>1. control'.retry_exhausted_stage = control.retry_exhausted_stage
      BY <1>11, <2>1
    <3>. QED BY <1>1, <3>1 DEF IInv, ExhaustedFlagGrounded
  <2>2. CASE exhausted # {}
    <3>. DEFINE s == LastOf(exhausted)
                n == NextAttempt(s) + errors[s] - 1
    <3>1. s \in exhausted /\ s \in failed /\ s \in WorkerStage
      BY <2>2, <1>2, <1>5
    <3>. HIDE DEF s
    <3>2. n \in NextAttempt(s)..n /\ n >= MaxAttempts
      BY <3>1, <1>3, <1>8
    <3>3. NewEntry(s, n) \in retries'
      BY <3>1, <3>2, <1>1 DEF NewEntries
    <3>4. NewEntry(s, n).status = "exhausted" /\ NewEntry(s, n).stage = s
      BY <3>2 DEF NewEntry
    <3>5. control'.retry_exhausted_stage = Target[s]
      BY <1>11, <2>2 DEF s
    <3>. QED BY <3>3, <3>4, <3>5 DEF ExhaustedFlagGrounded
  <2>. QED BY <2>1, <2>2
<1>13. BudgetKept'
  <2>. SUFFICES ASSUME NEW e \in retries', e.status \in {"scheduled", "automatic_retried"}
                PROVE  e.attempt < MaxAttempts
    BY DEF BudgetKept
  <2>1. CASE e \in retries
    BY <2>1 DEF IInv, BudgetKept
  <2>2. CASE e \notin retries
    <3>1. PICK s \in failed : e \in NewEntries(s, errors[s])
      BY <2>2, <1>1
    <3>2. PICK n \in NextAttempt(s)..(NextAttempt(s) + errors[s] - 1) : e = NewEntry(s, n)
      BY <3>1 DEF NewEntries
    <3>3. n \in Int /\ MaxAttempts \in Nat
      BY <3>2, <1>2, <1>3, <1>8, ConstantsAssumption
    <3>4. ~(n >= MaxAttempts) /\ e.attempt = n
      BY <3>2 DEF NewEntry
    <3>. QED BY <3>3, <3>4
  <2>. QED BY <2>1, <2>2
<1>14. control' \in [paused : BOOLEAN, cancelled : BOOLEAN,
                     paused_stage : RestorePoint, failed_stage : RestorePoint,
                     cancelled_from_stage : RestorePoint,
                     retry_exhausted_stage : RestorePoint]
  <2>. HIDE DEF restore, flag
  <2>. QED BY <1>1, <1>9, <1>10 DEF IInv, TypeOK
<1>15. RestoreNotCancelled'
  BY <1>9, <1>11 DEF IInv, RestoreNotCancelled
<1>. QED BY <1>7, <1>11, <1>12, <1>13, <1>14, <1>15

(* The actions of the coordinator keep the invariant.                      *)
LEMMA WorkerStep ==
  ASSUME IInv, Worker
  PROVE  IInv'
<1>. USE DEF Status, Working, Terminal, RestorePoint, None, RunState, Reason
<1>1. ASSUME NEW e \in retries, RetryDueStage(e)
      PROVE  IInv'
  <2>1. Target[e.stage] \in Working
    BY ConstantsAssumption DEF IInv, TypeOK, RetryEntry
  <2>2. control'.retry_exhausted_stage = PopExhausted(control.retry_exhausted_stage, Target[e.stage], TRUE)
    BY <1>1 DEF RetryDueStage, IInv, TypeOK
  <2>. DEFINE S == {e}
             t == Target[e.stage]
  <2>0. S \subseteq retries /\ \A f \in S : Target[f.stage] = t
    OBVIOUS
  <2>3. retries' = (retries \ S) \cup {[f EXCEPT !.status = "automatic_retried"] : f \in S}
    BY <1>1 DEF RetryDueStage, ResolveEntry
  <2>4. control'.retry_exhausted_stage # None =>
           /\ control'.retry_exhausted_stage = control.retry_exhausted_stage
           /\ control.retry_exhausted_stage # t
    BY <2>2 DEF PopExhausted
  <2>5. "automatic_retried" \in Resolution
    BY DEF Resolution
  <2>6. \A f \in S : f.status = "scheduled"
    BY <1>1 DEF RetryDueStage
  <2>8. t \in Status \ Terminal
    BY <2>1, ConstantsAssumption
  <2>. HIDE DEF S, t
  <2>7. /\ retries' \in SUBSET RetryEntry
        /\ AttemptsCumulative' /\ ExhaustedFlagGrounded' /\ BudgetKept'
    BY <2>0, <2>3, <2>4, <2>5, <2>6, ResolutionStep
  <2>9. StatusInv'
    <3>1. /\ status' = t /\ run' = ReopenRun(t)
          /\ transcript' = transcript /\ media' = media
      BY <1>1 DEF RetryDueStage, evidence, t
    <3>2. control' = [control EXCEPT !.retry_exhausted_stage =
                       PopExhausted(control.retry_exhausted_stage, t, TRUE)]
      BY <1>1 DEF RetryDueStage, t
    <3>3. /\ control'.failed_stage = control.failed_stage
          /\ control'.paused_stage = control.paused_stage
          /\ control'.cancelled_from_stage = control.cancelled_from_stage
          /\ control'.cancelled = control.cancelled
          /\ control' \in [paused : BOOLEAN, cancelled : BOOLEAN,
                        paused_stage : RestorePoint, failed_stage : RestorePoint,
                        cancelled_from_stage : RestorePoint,
                        retry_exhausted_stage : RestorePoint]
      BY <3>2 DEF IInv, TypeOK, PopExhausted
    <3>4. TypeOK'
      BY <2>7, <2>8, <3>1, <3>3 DEF IInv, TypeOK, ReopenRun, EndRun, HasRun
    <3>5. ~control'.cancelled
      BY <1>1, <3>3 DEF RetryDueStage
    <3>6. RestoreNotCancelled' /\ CancellationSticks'
      BY <2>8, <3>1, <3>3, <3>5 DEF IInv, RestoreNotCancelled, CancellationSticks
    <3>. QED BY <3>4, <3>6 DEF StatusInv
  <2>. QED BY <2>7, <2>9 DEF IInv, StatusInv
<1>2. ASSUME NEW errors \in [WorkerStage -> 0..MaxErrors],
             RecordOrchestration(errors) \/ WorkerCompletes(errors)
      PROVE  IInv'
  <2>1. RecordErrors(errors)
    BY <1>2 DEF RecordOrchestration, WorkerCompletes
  <2>2. /\ status' \in {status, "COMPLETED"}
        /\ run' \in {run, EndRun("completed", "COMPLETED", "completed")}
        /\ transcript' = transcript /\ media' = media
        /\ Running
    <3>1. CASE RecordOrchestration(errors)
      BY <3>1 DEF RecordOrchestration, evidence
    <3>2. CASE WorkerCompletes(errors)
      BY <3>2 DEF WorkerCompletes, evidence
    <3>. QED BY <1>2, <3>1, <3>2
  <2>3. /\ retries' \in SUBSET RetryEntry
        /\ AttemptsCumulative' /\ ExhaustedFlagGrounded' /\ BudgetKept'
        /\ RestoreNotCancelled'
        /\ control' \in [paused : BOOLEAN, cancelled : BOOLEAN,
                         paused_stage : RestorePoint, failed_stage : RestorePoint,
                         cancelled_from_stage : RestorePoint,
                         retry_exhausted_stage : RestorePoint]
        /\ control'.cancelled = control.cancelled
    BY <2>1, RecordingStep
  <2>4. TypeOK'
    BY <2>2, <2>3 DEF IInv, TypeOK, EndRun, HasRun
  <2>5. ~control.cancelled
    BY <2>2 DEF IInv, CancellationSticks
  <2>6. status # "CANCELLED"
    BY <2>5 DEF IInv, CancellationSticks
  <2>7. ~control'.cancelled /\ status' # "CANCELLED"
    BY <2>2, <2>3, <2>5, <2>6
  <2>8. CancellationSticks'
    BY <2>7 DEF CancellationSticks
  <2>. QED BY <2>3, <2>4, <2>8 DEF IInv
<1>3. CASE WorkerDiscussion
  <2>1. StatusInv'
    BY <1>3 DEF IInv, StatusInv, TypeOK, RestoreNotCancelled, CancellationSticks, Running,
                WorkerDiscussion, EnterStage, HasRun, evidence
  <2>. QED BY <1>3, <2>1, QueueUntouched DEF WorkerDiscussion, IInv, StatusInv
<1>4. CASE ReconcileVisuals
  <2>1. StatusInv'
    BY <1>4 DEF IInv, StatusInv, TypeOK, RestoreNotCancelled, CancellationSticks, Running,
                ReconcileVisuals, evidence
  <2>. QED BY <1>4, <2>1, QueueUntouched DEF ReconcileVisuals, IInv, StatusInv
<1>. QED BY <1>1, <1>2, <1>3, <1>4 DEF Worker

-----------------------------------------------------------------------------
(* Discussion runs, approvals, media work and publishing.                  *)

(* The remaining handlers keep the invariant.                              *)
LEMMA OtherStep ==
  ASSUME IInv, Other
  PROVE  IInv'
<1>. USE DEF Status, Working, Terminal, RestorePoint, None, RunState, Reason
<1>1. CASE Produce
  <2>1. StatusInv'
    BY <1>1 DEF IInv, StatusInv, TypeOK, RestoreNotCancelled, CancellationSticks, Running,
                Produce, CanBegin
  <2>. QED BY <1>1, <2>1, QueueUntouched DEF Produce, IInv, StatusInv
<1>2. ASSUME NEW p \in {status, "DISCUSSING"}, ProduceFails(p)
      PROVE  IInv'
  <2>1. p \in Status \ {"CANCELLED"}
    BY <1>2 DEF ProduceFails, CanBegin, IInv, TypeOK
  <2>2. /\ control'.retry_exhausted_stage = control.retry_exhausted_stage
        /\ control'.paused_stage = control.paused_stage
        /\ control'.cancelled_from_stage = control.cancelled_from_stage
        /\ control'.failed_stage = p
        /\ control' \in [paused : BOOLEAN, cancelled : BOOLEAN,
                        paused_stage : RestorePoint, failed_stage : RestorePoint,
                        cancelled_from_stage : RestorePoint,
                        retry_exhausted_stage : RestorePoint]
    BY <1>2, <2>1 DEF ProduceFails, IInv, TypeOK
  <2>3. TypeOK'
    BY <1>2, <2>2 DEF ProduceFails, IInv, TypeOK, evidence
  <2>4. RestoreNotCancelled'
    BY <2>1, <2>2 DEF IInv, RestoreNotCancelled
  <2>5. CancellationSticks'
    BY <1>2 DEF ProduceFails, CancellationSticks, Running
  <2>6. retries' = retries
    BY <1>2 DEF ProduceFails
  <2>. QED BY <2>2, <2>3, <2>4, <2>5, <2>6, QueueUntouched DEF IInv
<1>3. ASSUME NEW approved \in BOOLEAN, DecideTranscript(approved)
      PROVE  IInv'
  <2>1. /\ status' \in {"READY", "TRANSCRIPT_REVIEW"}
        /\ transcript' \in {"approved", "in_review"}
        /\ run' = run \/ run' = EnterStage(status')
        /\ control' = control /\ retries' = retries /\ media' = media
    BY <1>3 DEF DecideTranscript
  <2>2. StatusInv'
    BY <2>1 DEF IInv, StatusInv, TypeOK, RestoreNotCancelled, CancellationSticks, Running,
                EnterStage, HasRun
  <2>. QED BY <2>1, <2>2, QueueUntouched DEF IInv, StatusInv
<1>4. CASE ReopenTranscript
  <2>1. StatusInv'
    BY <1>4 DEF IInv, StatusInv, TypeOK, RestoreNotCancelled, CancellationSticks, Running,
                ReopenTranscript, EnterStage, HasRun
  <2>. QED BY <1>4, <2>1, QueueUntouched DEF ReopenTranscript, IInv, StatusInv
<1>5. ASSUME NEW s \in MediaStages \cup {"READY"}, MediaWork(s)
      PROVE  IInv'
  <2>1. s \in Working \ Terminal
    BY ConstantsAssumption
  <2>2. StatusInv'
    BY <1>5, <2>1 DEF IInv, StatusInv, TypeOK, RestoreNotCancelled, CancellationSticks, Running,
                MediaWork, MediaState
  <2>. QED BY <1>5, <2>2, QueueUntouched DEF MediaWork, IInv, StatusInv
<1>6. CASE PublishLive
  <2>1. StatusInv'
    BY <1>6 DEF IInv, StatusInv, TypeOK, RestoreNotCancelled, CancellationSticks, Running,
                PublishLive, evidence
  <2>. QED BY <1>6, <2>1, QueueUntouched DEF PublishLive, IInv, StatusInv
<1>. QED BY <1>1, <1>2, <1>3, <1>4, <1>5, <1>6 DEF Other

-----------------------------------------------------------------------------
(* The inductive invariant, and the invariants it implies.                 *)

(* A new episode satisfies the invariant.                                  *)
LEMMA Initially == Init => IInv
<1>. SUFFICES ASSUME Init PROVE IInv
  OBVIOUS
<1>. USE DEF Init, NoRun
<1>1. TypeOK
  BY DEF TypeOK, Status, Working, RestorePoint, None, RunState, Reason, MediaState
<1>2. AttemptsCumulative
  <2>1. \A s \in WorkerStage : Attempts(s) = 1..0
    BY DEF Attempts
  <2>2. 0 \in 0..MaxEntries
    BY ConstantsAssumption
  <2>. QED BY <2>1, <2>2 DEF AttemptsCumulative
<1>3. RestoreNotCancelled /\ CancellationSticks
  BY DEF RestoreNotCancelled, CancellationSticks, Running, None
<1>4. ExhaustedFlagGrounded /\ BudgetKept
  BY DEF ExhaustedFlagGrounded, BudgetKept
<1>. QED BY <1>1, <1>2, <1>3, <1>4 DEF IInv

(* Every step keeps it.                                                    *)
LEMMA Step == IInv /\ [Next]_vars => IInv'
<1>1. ASSUME IInv, UNCHANGED vars
      PROVE  IInv'
  BY <1>1 DEF vars, evidence, IInv, TypeOK, AttemptsCumulative, Attempts, RestoreNotCancelled,
              CancellationSticks, Running, ExhaustedFlagGrounded, BudgetKept
<1>. QED BY <1>1, OperatorStep, WorkerStep, OtherStep DEF Next

(* The inductive invariant holds in every behaviour.                       *)
THEOREM Invariance == Spec => []IInv
BY Initially, Step, PTL DEF Spec

(* The stored state is always of its types: no handler restores a status,  *)
(* a flag or a queue entry that is not one.                                *)
THEOREM TypeCorrect == Spec => []TypeOK
<1>1. IInv => TypeOK
  BY DEF IInv
<1>. QED BY <1>1, Invariance, PTL

(* Attempt numbers are cumulative over every recovery of the operator.     *)
THEOREM AttemptsStayCumulative == Spec => []AttemptsCumulative
<1>1. IInv => AttemptsCumulative
  BY DEF IInv
<1>. QED BY <1>1, Invariance, PTL

(* A cancelled episode is marked and has no active run.                    *)
THEOREM CancellationStays == Spec => []CancellationSticks
<1>1. IInv => CancellationSticks
  BY DEF IInv
<1>. QED BY <1>1, Invariance, PTL

(* The exhausted flag is never set without an unresolved exhausted entry.  *)
THEOREM ExhaustedFlagStaysGrounded == Spec => []ExhaustedFlagGrounded
<1>1. IInv => ExhaustedFlagGrounded
  BY DEF IInv
<1>. QED BY <1>1, Invariance, PTL

(* The entries the coordinator retried by itself have different attempts   *)
(* below MaxAttempts, so there are fewer than MaxAttempts of them.         *)
LEMMA BudgetFromAttempts == IInv => AutomaticRetryBudget
<1>. SUFFICES ASSUME IInv, NEW s \in WorkerStage
              PROVE  Cardinality({e \in retries : e.stage = s /\ e.status = "automatic_retried"})
                       < MaxAttempts
  BY DEF AutomaticRetryBudget
<1>. DEFINE R == {e \in retries : e.stage = s /\ e.status = "automatic_retried"}
            attempt == [e \in R |-> e.attempt]
<1>1. MaxAttempts \in Nat \ {0}
  BY ConstantsAssumption
<1>2. PICK top \in 0..MaxEntries : Attempts(s) = 1..top
  BY DEF IInv, AttemptsCumulative
<1>3. \A e \in R : e.attempt \in 1..(MaxAttempts - 1)
  <2>. TAKE e \in R
  <2>1. e.attempt \in 1..top
    BY <1>2 DEF Attempts
  <2>2. e.attempt < MaxAttempts
    BY DEF IInv, BudgetKept
  <2>. QED BY <2>1, <2>2, <1>1
<1>4. attempt \in Injection(R, 1..(MaxAttempts - 1))
  <2>1. attempt \in [R -> 1..(MaxAttempts - 1)]
    BY <1>3
  <2>2. \A e, f \in R : attempt[e] = attempt[f] => e = f
    BY DEF IInv, AttemptsCumulative
  <2>. QED BY <2>1, <2>2 DEF Injection, IsInjective
<1>5. /\ IsFiniteSet(1..(MaxAttempts - 1))
      /\ Cardinality(1..(MaxAttempts - 1)) = MaxAttempts - 1
  BY <1>1, FS_Interval
<1>6. IsFiniteSet(R) /\ Cardinality(R) <= MaxAttempts - 1
  <2>. HIDE DEF attempt, R
  <2>. QED BY <1>4, <1>5, FS_Injection
<1>7. Cardinality(R) \in Nat
  BY <1>6, FS_CardinalityType
<1>. QED BY <1>1, <1>6, <1>7

(* The coordinator never exceeds the automatic retry budget of a stage.    *)
THEOREM RetryBudgetHolds == Spec => []AutomaticRetryBudget
BY BudgetFromAttempts, Invariance, PTL

(* The run and the status agree after every operator action that writes    *)
(* the run: each handler ends or enters the run at the status it stores.   *)
LEMMA OperatorStepInStep ==
  ASSUME IInv, Operator, run' # run
  PROVE  run'.stage = status'
<1>. USE DEF EndRun, HasRun
<1>1. TypeOK
  BY DEF IInv
<1>2. CASE BeginRun
  BY <1>2 DEF BeginRun
<1>3. CASE Pause \/ Resume \/ \E e \in retries : AcknowledgeRetry(e)
  BY <1>3 DEF Pause, Resume, AcknowledgeRetry
<1>4. CASE Cancel
  BY <1>1, <1>4 DEF Cancel, TypeOK
<1>5. CASE StopRun
  BY <1>1, <1>5 DEF StopRun, TypeOK
<1>6. CASE RetryFailedStage
  <2>1. status' = RetryStage /\ run' = ReopenRun(RetryStage)
    BY <1>6 DEF RetryFailedStage
  <2>. QED BY <1>1, <2>1 DEF ReopenRun, TypeOK
<1>7. CASE ContinueAfterManualEdit
  <2>1. status' = ContinueStage /\ run' = ReopenRun(ContinueStage)
    BY <1>7 DEF ContinueAfterManualEdit
  <2>. QED BY <1>1, <2>1 DEF ReopenRun, TypeOK
<1>8. CASE RejectStage
  BY <1>1, <1>8 DEF RejectStage, TypeOK
<1>9. CASE Complete
  BY <1>1, <1>9 DEF Complete, TypeOK
<1>. QED BY <1>2, <1>3, <1>4, <1>5, <1>6, <1>7, <1>8, <1>9 DEF Operator

(* No operator action leaves the run at another stage than the status.     *)
THEOREM RunStaysInStep == Spec => OperatorKeepsRunInStep
<1>1. IInv /\ [Next]_vars => [Operator /\ run' # run => run'.stage = status']_vars
  BY OperatorStepInStep
<1>. QED BY <1>1, Invariance, PTL DEF Spec, OperatorKeepsRunInStep

(* A step that reaches COMPLETED is a completion through the gates, a live *)
(* publish, or a recovery to a restore point of COMPLETED: every other     *)
(* handler stores a status that is written in it, or leaves it alone.      *)
LEMMA CompletionStep ==
  ASSUME IInv, Next, status # "COMPLETED", status' = "COMPLETED"
  PROVE  \/ GatesPass
         \/ PublishLive
         \/ "COMPLETED" \in {control.failed_stage, control.paused_stage,
                             control.cancelled_from_stage}
<1>1. CASE BeginRun \/ Pause \/ Resume \/ Cancel \/ StopRun \/ RejectStage
           \/ \E e \in retries : AcknowledgeRetry(e)
  BY <1>1 DEF BeginRun, Pause, Resume, Cancel, StopRun, RejectStage, AcknowledgeRetry
<1>2. CASE RetryFailedStage
  <2>1. RetryStage = "COMPLETED"
    BY <1>2 DEF RetryFailedStage
  <2>. QED BY <2>1 DEF RetryStage, Or
<1>3. CASE ContinueAfterManualEdit
  <2>1. ContinueStage = "COMPLETED"
    BY <1>3 DEF ContinueAfterManualEdit
  <2>2. CASE status = "FAILED"
    BY <2>1, <2>2 DEF ContinueStage, Or
  <2>3. CASE status # "FAILED" /\ control.paused
    BY <2>1, <2>3 DEF ContinueStage, Or
  <2>4. CASE status # "FAILED" /\ ~control.paused
    BY <2>1, <2>4 DEF ContinueStage
  <2>. QED BY <2>2, <2>3, <2>4 DEF IInv, TypeOK
<1>4. CASE Complete \/ \E errors \in [WorkerStage -> 0..MaxErrors] : WorkerCompletes(errors)
  BY <1>4 DEF Complete, WorkerCompletes
<1>5. ASSUME NEW e \in retries, RetryDueStage(e) PROVE FALSE
  <2>1. e.stage \in WorkerStage
    BY DEF IInv, TypeOK, RetryEntry
  <2>2. Target[e.stage] \in Working /\ status' = Target[e.stage]
    BY <1>5, <2>1, ConstantsAssumption DEF ConstantsAssumption, RetryDueStage
  <2>. QED BY <2>2, ConstantsAssumption DEF ConstantsAssumption, Working, Terminal
<1>6. CASE \E errors \in [WorkerStage -> 0..MaxErrors] : RecordOrchestration(errors)
  BY <1>6 DEF RecordOrchestration
<1>7. CASE WorkerDiscussion \/ ReconcileVisuals \/ Produce \/ ReopenTranscript
  BY <1>7 DEF WorkerDiscussion, ReconcileVisuals, Produce, ReopenTranscript
<1>8. CASE \E p \in {status, "DISCUSSING"} : ProduceFails(p)
  BY <1>8 DEF ProduceFails
<1>9. CASE \E approved \in BOOLEAN : DecideTranscript(approved)
  BY <1>9 DEF DecideTranscript
<1>10. CASE \E s \in MediaStages \cup {"READY"} : MediaWork(s)
  BY <1>10, ConstantsAssumption DEF ConstantsAssumption, MediaWork, Terminal
<1>. QED
  BY <1>1, <1>2, <1>3, <1>4, <1>5, <1>6, <1>7, <1>8, <1>9, <1>10 DEF Next, Operator, Worker, Other

(* For every set of stages and budget: the gates are passed over by a live *)
(* publish and by the recovery of an episode that was completed, only.     *)
THEOREM CompletionsAccounted == Spec => CompletionAccounted
<1>1. IInv /\ [Next]_vars =>
        [status # "COMPLETED" /\ status' = "COMPLETED" =>
           \/ GatesPass
           \/ PublishLive
           \/ "COMPLETED" \in {control.failed_stage, control.paused_stage,
                               control.cancelled_from_stage}]_vars
  BY CompletionStep
<1>. QED BY <1>1, Invariance, PTL DEF Spec, CompletionAccounted

-----------------------------------------------------------------------------
(* The journal.                                                            *)

\* A set of numbers that has 0 and with every number the next one.
LEMMA Induction ==
  ASSUME NEW T, 0 \in T, \A n \in Nat : n \in T => n + 1 \in T
  PROVE  \A n \in Nat : n \in T
<1> SUFFICES ASSUME Nat \ T # {} PROVE FALSE
  OBVIOUS
<1>1. IsWellFoundedOn(Less, Nat)
  BY NatLessThanWellFounded DEF OpToRel, Less
<1>2. PICK n \in Nat \ T : \A m \in Nat \ T : ~(<<m, n>> \in Less)
  BY <1>1, WFMin
<1>3. n # 0 /\ n - 1 \in Nat /\ n - 1 < n /\ n = (n - 1) + 1
  BY <1>2
<1>4. n - 1 \in T
  BY <1>2, <1>3 DEF Less
<1> QED
  BY <1>2, <1>3, <1>4

\* f is the projection after each of the first m events.
After(events, f, m) ==
  f = [n \in 0..m |-> IF n = 0 THEN NothingReplayed ELSE ReplayStep(f[n - 1], events[n])]

LEMMA AfterExists ==
  ASSUME NEW events, NEW m \in Nat
  PROVE  \E f : After(events, f, m)
<1> DEFINE T == {k \in Nat : \E f : After(events, f, k)}
<1>1. 0 \in T
  <2> DEFINE f == [n \in 0..0 |-> NothingReplayed]
  <2>1. After(events, f, 0)
    <3>1. ASSUME NEW n \in 0..0 PROVE n = 0 /\ f[n] = NothingReplayed
      OBVIOUS
    <3>2. f = [n \in 0..0 |-> IF n = 0 THEN NothingReplayed ELSE ReplayStep(f[n - 1], events[n])]
      BY <3>1
    <3> QED
      BY <3>2 DEF After
  <2> QED
    BY <2>1
<1>2. ASSUME NEW k \in Nat, k \in T PROVE k + 1 \in T
  <2>1. PICK f : After(events, f, k)
    BY <1>2
  <2> DEFINE g == [n \in 0..(k + 1) |-> IF n <= k THEN f[n] ELSE ReplayStep(f[k], events[k + 1])]
  <2>2. ASSUME NEW n \in 0..(k + 1)
        PROVE  g[n] = IF n = 0 THEN NothingReplayed ELSE ReplayStep(g[n - 1], events[n])
    <3>1. CASE n = 0
      <4>1. f[0] = NothingReplayed
        BY <2>1, 0 \in 0..k DEF After
      <4> QED
        BY <3>1, <4>1
    <3>2. CASE n # 0 /\ n <= k
      <4>1. n \in 0..k /\ n - 1 \in 0..(k + 1) /\ n - 1 <= k
        BY <3>2
      <4>2. f[n] = ReplayStep(f[n - 1], events[n])
        BY <2>1, <3>2, <4>1 DEF After
      <4>3. g[n] = f[n] /\ g[n - 1] = f[n - 1]
        BY <3>2, <4>1
      <4> QED
        BY <3>2, <4>2, <4>3
    <3>3. CASE n = k + 1
      <4>1. n - 1 = k /\ k \in 0..(k + 1) /\ ~(n <= k) /\ n # 0
        BY <3>3
      <4>2. g[n] = ReplayStep(f[k], events[n]) /\ g[n - 1] = f[k]
        BY <3>3, <4>1
      <4> QED
        BY <4>1, <4>2
    <3> QED
      BY <3>1, <3>2, <3>3
  <2>3. After(events, g, k + 1)
    <3>1. g = [n \in 0..(k + 1) |->
                 IF n = 0 THEN NothingReplayed ELSE ReplayStep(g[n - 1], events[n])]
      BY <2>2
    <3> QED
      BY <3>1 DEF After
  <2> QED
    BY <2>3
<1> HIDE DEF T
<1>3. m \in T
  BY <1>1, <1>2, Induction
<1> QED
  BY <1>3 DEF T

LEMMA AfterUnique ==
  ASSUME NEW events, NEW m \in Nat, NEW f, NEW g, After(events, f, m), After(events, g, m)
  PROVE  \A n \in 0..m : f[n] = g[n]
<1> DEFINE T == {n \in Nat : n <= m => f[n] = g[n]}
<1>1. 0 \in T
  BY 0 \in 0..m DEF After
<1>2. ASSUME NEW n \in Nat, n \in T PROVE n + 1 \in T
  <2>1. SUFFICES ASSUME n + 1 <= m PROVE f[n + 1] = g[n + 1]
    OBVIOUS
  <2>2. n + 1 \in 0..m /\ n + 1 # 0 /\ (n + 1) - 1 = n
    BY <2>1
  <2>3. f[n] = g[n]
    BY <1>2, <2>1
  <2>4. f[n + 1] = ReplayStep(f[n], events[n + 1]) /\ g[n + 1] = ReplayStep(g[n], events[n + 1])
    BY <2>2 DEF After
  <2> QED
    BY <2>3, <2>4
<1> HIDE DEF T
<1>3. \A n \in Nat : n \in T
  BY <1>1, <1>2, Induction
<1> QED
  BY <1>3 DEF T

LEMMA ReplayIs ==
  ASSUME NEW events, Len(events) \in Nat, NEW f, After(events, f, Len(events))
  PROVE  Replay(events) = f[Len(events)]
<1> DEFINE g == CHOOSE h : After(events, h, Len(events))
<1>1. After(events, g, Len(events))
  OBVIOUS
<1>2. Replay(events) = g[Len(events)]
  BY DEF Replay, After
<1> QED
  BY <1>1, <1>2, AfterUnique

LEMMA ReplayEmpty == Replay(<<>>) = NothingReplayed
<1>1. PICK f : After(<<>>, f, 0)
  BY AfterExists
<1>2. f[0] = NothingReplayed
  BY <1>1, 0 \in 0..0 DEF After
<1>3. Len(<<>>) = 0
  OBVIOUS
<1> QED
  BY <1>1, <1>2, <1>3, ReplayIs

LEMMA ReplayAppend ==
  ASSUME NEW E, NEW events \in Seq(E), NEW e \in E
  PROVE  Replay(Append(events, e)) = ReplayStep(Replay(events), e)
<1> DEFINE more == Append(events, e)
           k == Len(events)
<1>1. /\ k \in Nat /\ Len(more) = k + 1 /\ more[k + 1] = e
      /\ \A n \in 1..k : more[n] = events[n]
  OBVIOUS
<1>2. PICK f : After(more, f, k + 1)
  BY <1>1, AfterExists
<1> DEFINE g == [n \in 0..k |-> f[n]]
<1> HIDE DEF more, k, g
<1>3. Replay(more) = f[k + 1]
  BY <1>1, <1>2, ReplayIs
<1>4. f[k + 1] = ReplayStep(f[k], e)
  <2>1. k + 1 \in 0..(k + 1) /\ k + 1 # 0 /\ (k + 1) - 1 = k
    BY <1>1
  <2> QED
    BY <1>1, <1>2, <2>1 DEF After
<1>5. After(events, g, k)
  <2>1. ASSUME NEW n \in 0..k
        PROVE  g[n] = IF n = 0 THEN NothingReplayed ELSE ReplayStep(g[n - 1], events[n])
    <3>1. n \in 0..(k + 1) /\ g[n] = f[n]
      BY <1>1 DEF g
    <3>2. f[n] = IF n = 0 THEN NothingReplayed ELSE ReplayStep(f[n - 1], more[n])
      BY <1>2, <3>1 DEF After
    <3>3. CASE n = 0
      BY <3>1, <3>2, <3>3
    <3>4. CASE n # 0
      <4>1. n - 1 \in 0..k /\ n \in 1..k
        BY <1>1, <3>4
      <4> QED
        BY <1>1, <3>1, <3>2, <3>4, <4>1 DEF g
    <3> QED
      BY <3>3, <3>4
  <2>2. g = [n \in 0..k |-> IF n = 0 THEN NothingReplayed ELSE ReplayStep(g[n - 1], events[n])]
    BY <2>1 DEF g
  <2> QED
    BY <2>2 DEF After
<1>6. Replay(events) = g[k]
  BY <1>1, <1>5, ReplayIs DEF k
<1>7. g[k] = f[k]
  BY <1>1 DEF g
<1> QED
  BY <1>3, <1>4, <1>6, <1>7 DEF more

-----------------------------------------------------------------------------
(* What the events do to the projection.                                   *)

JStage == Status \cup {"PREPARING_DISCUSSION", "TRANSCRIPT_QC"}
Noted == {"run.stopped", "retry.resolved", "retry.operator_acknowledged",
          "retry.automatic_requested"}
ASignal == [type : {"pause", "resume", "cancel", "stop_run", "retry_failed_stage",
                    "continue_after_manual_edit", "reject_stage", "approve_stage", "complete"},
            stage : Status]

Event ==
  {Started(s, n) : s \in JStage, n \in Nat} \cup {Entered(s) : s \in JStage}
    \cup {Received(sig) : sig \in ASignal} \cup {Note(type) : type \in Noted}
    \cup {Completed(state, stage, reason) : state \in RunState, stage \in Status, reason \in Reason}

Projection ==
  [seq : Nat, state : RunState, stage : JStage \cup {None}, reason : Reason,
   history : Seq(JStage), signals : Seq(ASignal)]

LEMMA OneMore ==
  ASSUME NEW events \in Seq(Event), NEW e \in Event
  PROVE  events \o <<e>> \in Seq(Event) /\ Replay(events \o <<e>>) = ReplayStep(Replay(events), e)
<1>1. events \o <<e>> = Append(events, e)
  BY AppendIsConcat
<1>2. Append(events, e) \in Seq(Event)
  OBVIOUS
<1> QED
  BY <1>1, <1>2, ReplayAppend

LEMMA StartedReplays ==
  ASSUME NEW r \in Projection, NEW s \in JStage, NEW n \in Nat
  PROVE  LET next == ReplayStep(r, Started(s, n))
         IN /\ Started(s, n) \in Event /\ next \in Projection
            /\ next.seq = n /\ next.state = "running" /\ next.stage = s
            /\ next.history = r.history \o <<s>> /\ next.signals = r.signals
<1> DEFINE next == ReplayStep(r, Started(s, n))
<1>1. Append(r.history, s) = r.history \o <<s>> /\ Append(r.history, s) \in Seq(JStage)
  BY AppendIsConcat DEF Projection
<1>2. Started(s, n).type = "run.started" /\ Started(s, n).seq = n /\ Started(s, n).stage = s
  BY DEF Started
<1>3. next = [r EXCEPT !.seq = n, !.state = "running", !.stage = s, !.history = Append(@, s)]
  BY <1>2 DEF ReplayStep
<1>4. Started(s, n) \in Event
  BY DEF Event
<1> HIDE DEF next
<1>5. next \in Projection
  BY <1>1, <1>3 DEF Projection, RunState
<1>6. /\ next.seq = n /\ next.state = "running" /\ next.stage = s
      /\ next.history = r.history \o <<s>> /\ next.signals = r.signals
  BY <1>1, <1>3 DEF Projection
<1> QED
  BY <1>4, <1>5, <1>6 DEF next

LEMMA EnteredReplays ==
  ASSUME NEW r \in Projection, NEW s \in JStage
  PROVE  /\ Entered(s) \in Event /\ ReplayStep(r, Entered(s)) \in Projection
         /\ ReplayStep(r, Entered(s)) = [r EXCEPT !.stage = s, !.history = r.history \o <<s>>]
<1>1. Append(r.history, s) = r.history \o <<s>> /\ Append(r.history, s) \in Seq(JStage)
  BY AppendIsConcat DEF Projection
<1>2. Entered(s).type = "stage.entered" /\ Entered(s).stage = s
  BY DEF Entered
<1>3. ReplayStep(r, Entered(s)) = [r EXCEPT !.stage = s, !.history = Append(@, s)]
  BY <1>2 DEF ReplayStep
<1>4. Entered(s) \in Event
  BY DEF Event
<1> QED
  BY <1>1, <1>3, <1>4 DEF Projection

LEMMA ReceivedReplays ==
  ASSUME NEW r \in Projection, NEW sig \in ASignal
  PROVE  LET next == ReplayStep(r, Received(sig))
         IN /\ Received(sig) \in Event /\ next \in Projection
            /\ next.seq = r.seq /\ next.history = r.history /\ next.signals = r.signals \o <<sig>>
            /\ sig.type \in Reopening => next.state = "running" /\ next.stage = sig.stage
            /\ sig.type \notin Reopening => next.state = r.state /\ next.stage = r.stage
<1> DEFINE next == ReplayStep(r, Received(sig))
<1>1. Append(r.signals, sig) = r.signals \o <<sig>> /\ Append(r.signals, sig) \in Seq(ASignal)
  BY AppendIsConcat DEF Projection
<1>2. Received(sig).type = "signal.received" /\ Received(sig).signal = sig
  BY DEF Received
<1>3. Received(sig) \in Event
  BY DEF Event
<1>4. sig.stage \in JStage
  BY DEF ASignal, JStage
<1>5. CASE sig.type \in Reopening
  <2>1. next = [r EXCEPT !.signals = Append(@, sig), !.state = "running",
                         !.stage = sig.stage, !.reason = None]
    BY <1>2, <1>5 DEF ReplayStep
  <2> HIDE DEF next
  <2>2. next \in Projection
    BY <1>1, <1>4, <2>1 DEF Projection, RunState, Reason
  <2>3. /\ next.seq = r.seq /\ next.history = r.history /\ next.signals = r.signals \o <<sig>>
        /\ next.state = "running" /\ next.stage = sig.stage
    BY <1>1, <2>1 DEF Projection
  <2> QED
    BY <1>3, <1>5, <2>2, <2>3 DEF next
<1>6. CASE sig.type \notin Reopening
  <2>1. next = [r EXCEPT !.signals = Append(@, sig)]
    BY <1>2, <1>6 DEF ReplayStep
  <2> HIDE DEF next
  <2>2. next \in Projection
    BY <1>1, <2>1 DEF Projection
  <2>3. /\ next.seq = r.seq /\ next.history = r.history /\ next.signals = r.signals \o <<sig>>
        /\ next.state = r.state /\ next.stage = r.stage
    BY <1>1, <2>1 DEF Projection
  <2> QED
    BY <1>3, <1>6, <2>2, <2>3 DEF next
<1> QED
  BY <1>5, <1>6

LEMMA CompletedReplays ==
  ASSUME NEW r \in Projection, NEW state \in RunState, NEW stage \in Status, NEW reason \in Reason
  PROVE  LET next == ReplayStep(r, Completed(state, stage, reason))
         IN /\ Completed(state, stage, reason) \in Event
            /\ next \in Projection /\ next.seq = r.seq /\ next.history = r.history
            /\ next.signals = r.signals
<1> DEFINE e == Completed(state, stage, reason)
           next == ReplayStep(r, e)
<1>1. e.type = "run.completed" /\ e.state = state /\ e.stage = stage /\ e.reason = reason
  BY DEF Completed
<1>2. e \in Event
  BY DEF Event
<1> HIDE DEF e
<1>3. next = [r EXCEPT !.state = state, !.stage = stage, !.reason = reason]
  BY <1>1 DEF ReplayStep
<1> HIDE DEF next
<1>4. next \in Projection
  BY <1>3 DEF Projection, JStage
<1>5. next.seq = r.seq /\ next.history = r.history /\ next.signals = r.signals
  BY <1>3 DEF Projection
<1> QED
  BY <1>2, <1>4, <1>5 DEF e, next

LEMMA NoteReplays ==
  ASSUME NEW r \in Projection, NEW type \in Noted
  PROVE  Note(type) \in Event /\ ReplayStep(r, Note(type)) = r
<1>1. Note(type).type = type
  BY DEF Note
<1>2. ReplayStep(r, Note(type)) = r
  BY <1>1 DEF ReplayStep, Noted
<1> QED
  BY <1>2 DEF Event

\* The projection r after it entered the stages of path.
Through(r, path) == [r EXCEPT !.stage = IF path = <<>> THEN r.stage ELSE Last(path),
                              !.history = r.history \o path]

Passes(events, path) ==
  /\ EnteredAll(path) \in Seq(Event) /\ events \o EnteredAll(path) \in Seq(Event)
  /\ Replay(events \o EnteredAll(path)) \in Projection
  /\ Replay(events \o EnteredAll(path)) = Through(Replay(events), path)

\* The stages entered one after another.
LEMMA StagesReplay ==
  ASSUME NEW events \in Seq(Event), Replay(events) \in Projection
  PROVE  \A path \in Seq(JStage) : Passes(events, path)
<1> DEFINE r == Replay(events)
           T == {n \in Nat : \A p \in Seq(JStage) : Len(p) = n => Passes(events, p)}
<1>1. 0 \in T
  <2>1. SUFFICES ASSUME NEW p \in Seq(JStage), Len(p) = 0 PROVE Passes(events, p)
    OBVIOUS
  <2>2. p = <<>>
    BY <2>1
  <2>3. EnteredAll(p) = <<>>
    BY <2>2 DEF EnteredAll
  <2>4. events \o EnteredAll(p) = events
    BY <2>3, ConcatEmptySeq
  <2>5. r \in Projection /\ r.history \o p = r.history
    BY <2>2, ConcatEmptySeq DEF Projection
  <2> HIDE DEF r
  <2>6. Through(r, p) = r
    BY <2>2, <2>5 DEF Through, Projection
  <2>7. <<>> \in Seq(Event)
    OBVIOUS
  <2> QED
    BY <2>3, <2>4, <2>5, <2>6, <2>7 DEF r, Passes
<1>2. ASSUME NEW n \in Nat, n \in T PROVE n + 1 \in T
  <2>1. SUFFICES ASSUME NEW p \in Seq(JStage), Len(p) = n + 1 PROVE Passes(events, p)
    OBVIOUS
  <2>2. PICK q \in Seq(JStage), s \in JStage : p = Append(q, s)
    <3>1. p # <<>>
      BY <2>1
    <3> QED
      BY <3>1, SequenceEmptyOrAppend
  <2>3. Len(q) = n /\ p = q \o <<s>> /\ p # <<>> /\ Last(p) = s
    <3>1. Len(p) = Len(q) + 1 /\ Len(q) \in Nat /\ p[Len(q) + 1] = s
      BY <2>2
    <3> QED
      BY <2>1, <2>2, <3>1, AppendIsConcat DEF Last
  <2>4. Passes(events, q)
    BY <1>2, <2>3
  <2>5. EnteredAll(p) = Append(EnteredAll(q), Entered(s))
    <3>1. EnteredAll(q) \in Seq(Event) /\ Len(EnteredAll(q)) = Len(q) /\ Len(q) \in Nat
      BY <2>4 DEF EnteredAll, Passes
    <3>2. \A i \in 1..Len(q) : EnteredAll(q)[i] = Entered(q[i])
      BY DEF EnteredAll
    <3>3. DOMAIN p = 1..(Len(q) + 1) /\ p[Len(q) + 1] = s /\ \A i \in 1..Len(q) : p[i] = q[i]
      BY <2>2
    <3>4. EnteredAll(p) = [i \in 1..(Len(q) + 1) |-> Entered(p[i])]
      BY <3>3 DEF EnteredAll
    <3> DEFINE t == EnteredAll(q)
               x == Entered(s)
               u == EnteredAll(p)
    <3>5. /\ x \in Event /\ t \in Seq(Event) /\ Len(t) = Len(q)
          /\ \A i \in 1..(Len(q) + 1) : u[i] = IF i = Len(q) + 1 THEN x ELSE t[i]
      <4>1. x \in Event
        BY <2>2 DEF Event
      <4>2. ASSUME NEW i \in 1..(Len(q) + 1) PROVE u[i] = IF i = Len(q) + 1 THEN x ELSE t[i]
        <5>1. u[i] = Entered(p[i])
          BY <3>4
        <5>2. i \in 1..Len(q) \/ i = Len(q) + 1
          BY <3>1
        <5> HIDE DEF u
        <5> QED
          BY <3>1, <3>2, <3>3, <5>1, <5>2
      <4> HIDE DEF x, u
      <4> QED
        BY <3>1, <4>1, <4>2
    <3>6. u \in Seq(Event) /\ Len(u) = Len(q) + 1
      <4>1. \A i \in 1..(Len(q) + 1) : Entered(p[i]) \in Event
        BY <2>2, <3>3 DEF Event
      <4> QED
        BY <3>1, <3>4, <4>1
    <3> HIDE DEF t, x, u
    <3>7. /\ Append(t, x) \in Seq(Event) /\ Len(Append(t, x)) = Len(q) + 1
          /\ \A i \in 1..(Len(q) + 1) : Append(t, x)[i] = IF i = Len(q) + 1 THEN x ELSE t[i]
      BY <3>1, <3>5
    <3>8. u = Append(t, x)
      BY <3>5, <3>6, <3>7, SeqEqual
    <3> QED
      BY <3>8 DEF t, x, u
  <2>6. Entered(s) \in Event
    BY DEF Event
  <2>7. EnteredAll(p) = EnteredAll(q) \o <<Entered(s)>> /\ EnteredAll(p) \in Seq(Event)
    <3>1. EnteredAll(q) \in Seq(Event)
      BY <2>4 DEF Passes
    <3>2. Append(EnteredAll(q), Entered(s)) = EnteredAll(q) \o <<Entered(s)>>
      BY <2>6, <3>1, AppendIsConcat
    <3> QED
      BY <2>5, <2>6, <3>1, <3>2
  <2>8. events \o EnteredAll(p) = (events \o EnteredAll(q)) \o <<Entered(s)>>
    <3>1. EnteredAll(q) \in Seq(Event) /\ <<Entered(s)>> \in Seq(Event)
      BY <2>4, <2>6 DEF Passes
    <3> QED
      BY <2>7, <3>1, ConcatAssociative
  <2> DEFINE m == Replay(events \o EnteredAll(q))
  <2>9. /\ events \o EnteredAll(p) \in Seq(Event)
        /\ Replay(events \o EnteredAll(p)) = ReplayStep(m, Entered(s))
    BY <2>4, <2>6, <2>8, OneMore DEF Passes
  <2>10. /\ ReplayStep(m, Entered(s)) \in Projection
         /\ ReplayStep(m, Entered(s)) = [m EXCEPT !.stage = s, !.history = m.history \o <<s>>]
    BY <2>4, EnteredReplays DEF Passes
  <2>11. r \in Projection /\ m \in Projection /\ r.history \in Seq(JStage) /\ m = Through(r, q)
    BY <2>4 DEF Projection, Passes
  <2> HIDE DEF m, r
  <2>12. (r.history \o q) \o <<s>> = r.history \o p
    <3>1. <<s>> \in Seq(JStage)
      OBVIOUS
    <3>2. ASSUME NEW h \in Seq(JStage) PROVE (h \o q) \o <<s>> = h \o (q \o <<s>>)
      BY <2>2, <3>1, ConcatAssociative
    <3> QED
      BY <2>3, <2>11, <3>2
  <2>13. m.history = r.history \o q
    BY <2>11 DEF Projection, Through
  <2>14. [m EXCEPT !.stage = s, !.history = m.history \o <<s>>] = Through(r, p)
    BY <2>3, <2>11, <2>12, <2>13 DEF Projection, Through
  <2> QED
    BY <2>7, <2>9, <2>10, <2>14 DEF r, Passes
<1> HIDE DEF T
<1>3. \A n \in Nat : n \in T
  BY <1>1, <1>2, Induction
<1>4. ASSUME NEW p \in Seq(JStage) PROVE Passes(events, p)
  <2>1. Len(p) \in T /\ Len(p) \in Nat
    BY <1>3
  <2> QED
    BY <2>1 DEF T
<1> QED
  BY <1>4

-----------------------------------------------------------------------------
(* The invariant of journal and run.                                       *)

\* Replaying leaves a running run at its current stage, the last of its history.
InStep ==
  Running => /\ Replayed.state = "running" /\ Replayed.stage = run.stage
             /\ history # <<>> /\ Last(history) = run.stage

JTypeOK ==
  /\ journal \in Seq(Event) /\ history \in Seq(JStage) /\ signals \in Seq(ASignal)
  /\ Replayed \in Projection

JInv ==
  /\ JTypeOK
  /\ ~HasRun => journal = <<>> /\ run.seq = 0
  /\ HasRun => run.seq > 0 /\ Replayed.seq = run.seq
  /\ InStep
  /\ \E earlier \in Seq(ASignal) : Replayed.signals = earlier \o signals
  /\ FirstRunHistoryReplays

\* A step that journals what it adds to the stage history and the signals of the run.
Carries(stages, sent) ==
  /\ journal' \in Seq(Event) /\ Replayed' \in Projection
  /\ Replayed'.seq = Replayed.seq
  /\ Replayed'.history = Replayed.history \o stages /\ history' = history \o stages
  /\ Replayed'.signals = Replayed.signals \o sent /\ signals' = signals \o sent

LEMMA CarriesKeeps ==
  ASSUME JInv, HasRun, HasRun', run'.seq = run.seq,
         NEW stages \in Seq(JStage), NEW sent \in Seq(ASignal), Carries(stages, sent), InStep'
  PROVE  JInv'
<1>1. JTypeOK
  BY DEF JInv
<1>2. JTypeOK'
  BY <1>1 DEF JTypeOK, Carries
<1>3. PICK earlier \in Seq(ASignal) : Replayed.signals = earlier \o signals
  BY DEF JInv
<1>4. Replayed'.signals = earlier \o signals'
  <2>1. (earlier \o signals) \o sent = earlier \o (signals \o sent)
    BY <1>1, <1>3, ConcatAssociative DEF JTypeOK
  <2> QED
    BY <1>3, <2>1 DEF Carries
<1>5. FirstRunHistoryReplays'
  <2>1. SUFFICES ASSUME run'.seq = 1, "FAILED" \notin Range(history')
                 PROVE  Replayed'.history = history'
    BY DEF FirstRunHistoryReplays
  <2>2. Range(history') = Range(history) \cup Range(stages)
    BY <1>1, RangeConcatenation DEF JTypeOK, Carries
  <2>3. Replayed.history = history
    BY <2>1, <2>2 DEF JInv, FirstRunHistoryReplays
  <2> QED
    BY <2>3 DEF Carries
<1>6. run'.seq > 0 /\ Replayed'.seq = run'.seq
  BY DEF JInv, Carries
<1> QED
  BY <1>2, <1>3, <1>4, <1>5, <1>6 DEF JInv

\* Nothing is journaled, and the run keeps its number and stage.
LEMMA NothingJournaled ==
  ASSUME JInv, UNCHANGED journalVars, run'.seq = run.seq, HasRun' <=> HasRun,
         Running' => Running /\ run'.stage = run.stage
  PROVE  JInv'
<1>1. Replayed' = Replayed /\ journal' = journal /\ history' = history /\ signals' = signals
  BY DEF journalVars, Replayed
<1>2. InStep'
  BY <1>1 DEF JInv, InStep
<1>3. FirstRunHistoryReplays'
  BY <1>1 DEF JInv, FirstRunHistoryReplays
<1> QED
  BY <1>1, <1>2, <1>3 DEF JInv, JTypeOK

\* What may follow the stages a handler enters.
Notes == {<<>>} \cup {<<Note(type)>> : type \in Noted}
Ends == {<<Completed(state, stage, reason)>> :
           state \in RunState, stage \in Status, reason \in Reason}

LEMMA ClosingReplays ==
  ASSUME NEW events \in Seq(Event), Replay(events) \in Projection, NEW after \in Notes \cup Ends
  PROVE  /\ events \o after \in Seq(Event) /\ Replay(events \o after) \in Projection
         /\ after \in Notes => Replay(events \o after) = Replay(events)
         /\ Replay(events \o after).seq = Replay(events).seq
         /\ Replay(events \o after).history = Replay(events).history
         /\ Replay(events \o after).signals = Replay(events).signals
<1>1. CASE after = <<>>
  BY <1>1, ConcatEmptySeq
<1>2. ASSUME NEW type \in Noted, after = <<Note(type)>>
      PROVE  /\ events \o after \in Seq(Event) /\ Replay(events \o after) = Replay(events)
  BY <1>2, OneMore, NoteReplays
<1>3. ASSUME NEW state \in RunState, NEW stage \in Status, NEW reason \in Reason,
             after = <<Completed(state, stage, reason)>>
      PROVE  /\ events \o after \in Seq(Event) /\ Replay(events \o after) \in Projection
             /\ Replay(events \o after).seq = Replay(events).seq
             /\ Replay(events \o after).history = Replay(events).history
             /\ Replay(events \o after).signals = Replay(events).signals
             /\ after \notin Notes
  <2> DEFINE e == Completed(state, stage, reason)
             r == Replay(events)
  <2>1. events \o after \in Seq(Event) /\ Replay(events \o after) = ReplayStep(r, e)
    BY <1>3, OneMore, CompletedReplays
  <2>2. r \in Projection
    OBVIOUS
  <2>3. after \notin Notes
    <3>1. Len(after) = 1 /\ after[1].type = "run.completed"
      BY <1>3 DEF Completed
    <3>2. after # <<>>
      BY <1>3
    <3>3. \A type \in Noted : <<Note(type)>>[1].type # "run.completed"
      BY DEF Note, Noted
    <3> QED
      BY <3>1, <3>2, <3>3 DEF Notes
  <2>4. /\ ReplayStep(r, e) \in Projection
        /\ ReplayStep(r, e).seq = r.seq /\ ReplayStep(r, e).history = r.history
        /\ ReplayStep(r, e).signals = r.signals
    BY <1>3, <2>2, CompletedReplays
  <2> HIDE DEF e, r
  <2> QED
    BY <2>1, <2>3, <2>4 DEF r
<1> QED
  BY <1>1, <1>2, <1>3 DEF Notes, Ends

LEMMA ClosingIsEvents ==
  ASSUME NEW after \in Notes \cup Ends PROVE after \in Seq(Event)
<1>1. \A type \in Noted : Note(type) \in Event
  BY DEF Event
<1>2. \A state \in RunState, stage \in Status, reason \in Reason :
        Completed(state, stage, reason) \in Event
  BY DEF Event
<1>3. \A e \in Event : <<e>> \in Seq(Event)
  OBVIOUS
<1>4. <<>> \in Seq(Event)
  OBVIOUS
<1>5. ASSUME after \in Ends PROVE after \in Seq(Event)
  <2>1. PICK state \in RunState, stage \in Status, reason \in Reason :
          after = <<Completed(state, stage, reason)>>
    BY <1>5 DEF Ends
  <2> QED
    BY <1>2, <1>3, <2>1
<1>6. ASSUME after \in Notes, after # <<>> PROVE after \in Seq(Event)
  <2>1. PICK type \in Noted : after = <<Note(type)>>
    BY <1>6 DEF Notes
  <2> QED
    BY <1>1, <1>3, <2>1
<1> QED
  BY <1>4, <1>5, <1>6

LEMMA FreshStages ==
  ASSUME NEW h \in Seq(JStage), NEW path \in Seq(JStage)
  PROVE  LET fresh == Fresh(h, path)
         IN /\ fresh \in Seq(JStage)
            /\ fresh # <<>> => Last(fresh) = Last(path)
            /\ path # <<>> => h \o fresh # <<>> /\ Last(h \o fresh) = Last(path)
            /\ path # <<>> /\ fresh = <<>> => h # <<>> /\ Last(h) = Last(path)
<1>1. CASE h # <<>> /\ path # <<>> /\ Last(h) = Head(path)
  <2>1. Fresh(h, path) = Tail(path)
    BY <1>1 DEF Fresh
  <2>2. /\ Tail(path) \in Seq(JStage) /\ Len(Tail(path)) = Len(path) - 1
        /\ Len(path) \in Nat \ {0} /\ Len(h) \in Nat \ {0}
        /\ Head(path) = path[1] /\ \A i \in 1..Len(Tail(path)) : Tail(path)[i] = path[i + 1]
    BY <1>1
  <2>3. /\ Len(h \o Tail(path)) = Len(h) + (Len(path) - 1)
        /\ \A i \in 1..Len(h \o Tail(path)) :
              (h \o Tail(path))[i] = IF i <= Len(h) THEN h[i] ELSE Tail(path)[i - Len(h)]
    BY <2>2, ConcatProperties
  <2> DEFINE t == Tail(path)
             c == h \o t
  <2> HIDE DEF t
  <2>4. CASE Len(path) = 1
    <3>4. t \in Seq(JStage) /\ Len(t) = 0
      BY <2>2, <2>4 DEF t
    <3>1. t = <<>>
      BY <3>4
    <3>2. c = h
      BY <3>1, ConcatEmptySeq
    <3>3. Last(h) = Last(path)
      BY <1>1, <2>2, <2>4 DEF Last
    <3>5. Fresh(h, path) = <<>> /\ Fresh(h, path) \in Seq(JStage) /\ h \o Fresh(h, path) = h
      BY <2>1, <3>1, <3>2, <3>4 DEF t
    <3> HIDE DEF c
    <3> QED
      BY <1>1, <3>3, <3>5, Zenon
  <2>5. CASE Len(path) > 1
    <3>5. t \in Seq(JStage) /\ Len(t) = Len(path) - 1 /\ Len(t) > 0
      BY <2>2, <2>5 DEF t
    <3>1. Len(t) \in 1..Len(t) /\ t # <<>> /\ Len(t) + 1 = Len(path)
      BY <2>2, <3>5
    <3>4. t[Len(t)] = path[Len(path)]
      <4>1. t[Len(t)] = path[Len(t) + 1]
        BY <2>2, <3>1 DEF t
      <4> QED
        BY <3>1, <4>1
    <3>2. c[Len(c)] = t[Len(t)] /\ Len(c) > 0
      <4> HIDE DEF c
      <4>1. Len(c) = Len(h) + Len(t) /\ Len(c) \in 1..Len(c) /\ ~(Len(c) <= Len(h))
            /\ Len(c) - Len(h) = Len(t)
        BY <2>2, <2>3, <2>5 DEF t, c
      <4>2. c[Len(c)] = t[Len(c) - Len(h)]
        BY <2>3, <4>1 DEF t, c
      <4> QED
        BY <4>1, <4>2
    <3>3. c # <<>>
      BY <3>2
    <3> QED
      BY <2>1, <2>2, <3>1, <3>2, <3>3, <3>4 DEF t, Last
  <2> QED
    BY <2>2, <2>4, <2>5
<1>2. CASE ~(h # <<>> /\ path # <<>> /\ Last(h) = Head(path))
  <2>1. Fresh(h, path) = path
    BY <1>2 DEF Fresh
  <2>2. ASSUME path # <<>> PROVE h \o path # <<>> /\ Last(h \o path) = Last(path)
    <3>1. Len(h) \in Nat /\ Len(path) \in Nat \ {0}
      BY <2>2
    <3>2. /\ Len(h \o path) = Len(h) + Len(path)
          /\ (h \o path)[Len(h) + Len(path)] = path[Len(path)]
      <4>1. Len(h) + Len(path) \in 1..(Len(h) + Len(path)) /\ ~(Len(h) + Len(path) <= Len(h))
            /\ (Len(h) + Len(path)) - Len(h) = Len(path)
        BY <3>1
      <4> QED
        BY <4>1, ConcatProperties
    <3> QED
      BY <3>1, <3>2 DEF Last
  <2> QED
    BY <2>1, <2>2
<1> QED
  BY <1>1, <1>2

LEMMA FourConcatenated ==
  ASSUME NEW a \in Seq(Event), NEW b \in Seq(Event), NEW c \in Seq(Event), NEW d \in Seq(Event)
  PROVE  a \o ((b \o c) \o d) = ((a \o b) \o c) \o d
<1>1. b \o c \in Seq(Event)
  OBVIOUS
<1>2. a \o ((b \o c) \o d) = (a \o (b \o c)) \o d
  BY <1>1, ConcatAssociative
<1>3. a \o (b \o c) = (a \o b) \o c
  BY ConcatAssociative
<1> QED
  BY <1>2, <1>3

\* A handler that journals events, enters the stages of path and journals the end.
LEMMA EntersCarries ==
  ASSUME JInv, HasRun, NEW before \in Seq(Event), NEW path \in Seq(JStage),
         NEW after \in Notes \cup Ends, NEW sent \in Seq(ASignal),
         Enters(before, path, after), signals' = signals \o sent,
         NEW m \in Projection, m = Replay(journal \o before), m.seq = Replayed.seq,
         m.history = Replayed.history, m.signals = Replayed.signals \o sent
  PROVE  LET fresh == Fresh(history, path)
         IN /\ fresh \in Seq(JStage) /\ Carries(fresh, sent)
            /\ after \in Notes =>
                 /\ Replayed'.state = m.state
                 /\ Replayed'.stage = IF fresh = <<>> THEN m.stage ELSE Last(path)
            /\ path # <<>> =>
                 /\ history' # <<>> /\ Last(history') = Last(path)
                 /\ fresh = <<>> => history # <<>> /\ Last(history) = Last(path)
<1> DEFINE fresh == Fresh(history, path)
           events == (journal \o before) \o EnteredAll(fresh)
<1>1. journal \in Seq(Event) /\ history \in Seq(JStage) /\ Replayed \in Projection
  BY DEF JInv, JTypeOK
<1>2. /\ fresh \in Seq(JStage) /\ (fresh # <<>> => Last(fresh) = Last(path))
      /\ path # <<>> =>
           /\ history \o fresh # <<>> /\ Last(history \o fresh) = Last(path)
           /\ fresh = <<>> => history # <<>> /\ Last(history) = Last(path)
  BY <1>1, FreshStages
<1>3. history' = history \o fresh /\ journal' = journal \o (before \o EnteredAll(fresh) \o after)
  BY DEF Enters, Journals
<1> HIDE DEF fresh
<1>4. Passes(journal \o before, fresh)
  <2>1. journal \o before \in Seq(Event)
    BY <1>1
  <2> QED
    BY <1>2, <2>1, StagesReplay
<1>5. EnteredAll(fresh) \in Seq(Event) /\ events \in Seq(Event)
      /\ Replay(events) \in Projection /\ Replay(events) = Through(m, fresh)
  BY <1>4 DEF Passes
<1>6. journal' = events \o after
  <2>1. after \in Seq(Event) /\ before \o EnteredAll(fresh) \in Seq(Event)
    BY <1>5, ClosingIsEvents
  <2>2. journal \o ((before \o EnteredAll(fresh)) \o after)
          = ((journal \o before) \o EnteredAll(fresh)) \o after
    <3>1. /\ journal \in Seq(Event) /\ before \in Seq(Event) /\ after \in Seq(Event)
          /\ EnteredAll(fresh) \in Seq(Event)
      BY <1>1, <1>5, <2>1
    <3>2. \A a, b, c, d \in Seq(Event) : a \o ((b \o c) \o d) = ((a \o b) \o c) \o d
      BY FourConcatenated, Zenon
    <3> HIDE DEF events
    <3> QED
      BY <3>1, <3>2, SMTT(60)
  <2> QED
    BY <1>3, <2>2
<1> HIDE DEF events
<1>7. /\ events \o after \in Seq(Event) /\ Replay(events \o after) \in Projection
      /\ after \in Notes => Replay(events \o after) = Replay(events)
      /\ Replay(events \o after).seq = Replay(events).seq
      /\ Replay(events \o after).history = Replay(events).history
      /\ Replay(events \o after).signals = Replay(events).signals
  BY <1>5, ClosingReplays
<1>8. Replayed' = Replay(events \o after)
  BY <1>6 DEF Replayed
<1>9. /\ Through(m, fresh).seq = m.seq /\ Through(m, fresh).signals = m.signals
      /\ Through(m, fresh).history = m.history \o fresh /\ Through(m, fresh).state = m.state
      /\ Through(m, fresh).stage = IF fresh = <<>> THEN m.stage ELSE Last(path)
  BY <1>2 DEF Through, Projection
<1>10. Carries(fresh, sent)
  BY <1>3, <1>5, <1>6, <1>7, <1>8, <1>9 DEF Carries
<1>11. after \in Notes => /\ Replayed'.state = m.state
                          /\ Replayed'.stage = IF fresh = <<>> THEN m.stage ELSE Last(path)
  BY <1>5, <1>7, <1>8, <1>9
<1> QED
  BY <1>2, <1>3, <1>10, <1>11 DEF fresh


-----------------------------------------------------------------------------
(* The handlers, by what they journal.                                     *)

\* A signal, alone or with the note that its retries are resolved.
LEMMA SignalReplays ==
  ASSUME JInv, NEW sig \in ASignal, NEW after \in {<<>>, <<Note("retry.resolved")>>}
  PROVE  LET before == <<Received(sig)>> \o after
             m == Replay(journal \o before)
         IN /\ before \in Seq(Event) /\ m \in Projection
            /\ m.seq = Replayed.seq /\ m.history = Replayed.history
            /\ m.signals = Replayed.signals \o <<sig>>
            /\ sig.type \in Reopening => m.state = "running" /\ m.stage = sig.stage
            /\ sig.type \notin Reopening => m.state = Replayed.state /\ m.stage = Replayed.stage
<1> DEFINE x == <<Received(sig)>>
           next == ReplayStep(Replayed, Received(sig))
<1>1. journal \in Seq(Event) /\ Replayed \in Projection
  BY DEF JInv, JTypeOK
<1>2. Received(sig) \in Event /\ x \in Seq(Event)
  BY DEF Event
<1>3. journal \o x \in Seq(Event) /\ Replay(journal \o x) = next
  BY <1>1, <1>2, OneMore DEF Replayed
<1>4. after \in Seq(Event) /\ after \in Notes
  BY ClosingIsEvents DEF Notes, Noted
<1>5. x \o after \in Seq(Event) /\ journal \o (x \o after) = (journal \o x) \o after
  BY <1>1, <1>2, <1>4, ConcatAssociative
<1>6. next \in Projection
  BY <1>1, ReceivedReplays
<1>7. Replay((journal \o x) \o after) = next
  BY <1>3, <1>4, <1>6, ClosingReplays
<1>8. /\ next.seq = Replayed.seq /\ next.history = Replayed.history
      /\ next.signals = Replayed.signals \o <<sig>>
      /\ sig.type \in Reopening => next.state = "running" /\ next.stage = sig.stage
      /\ sig.type \notin Reopening => next.state = Replayed.state /\ next.stage = Replayed.stage
  BY <1>1, ReceivedReplays
<1> HIDE DEF next
<1> QED
  BY <1>5, <1>6, <1>7, <1>8

\* pause, resume, approve, cancel, stop and reject: a signal and perhaps the end of the run.
LEMMA SignalOnlyKeeps ==
  ASSUME JInv, HasRun, HasRun', run'.seq = run.seq,
         NEW sig \in ASignal, sig.type \notin Reopening, NEW after \in Notes \cup Ends,
         SignalOnly(sig, after),
         Running' => Running /\ run'.stage = run.stage /\ after = <<>>
  PROVE  JInv'
<1> DEFINE x == <<Received(sig)>> \o <<>>
           m == Replay(journal \o x)
<1>1. journal \in Seq(Event) /\ history \in Seq(JStage) /\ signals \in Seq(ASignal)
      /\ Replayed \in Projection
  BY DEF JInv, JTypeOK
<1>2. /\ x \in Seq(Event) /\ m \in Projection /\ m.seq = Replayed.seq
      /\ m.history = Replayed.history /\ m.signals = Replayed.signals \o <<sig>>
      /\ m.state = Replayed.state /\ m.stage = Replayed.stage
  BY SignalReplays
<1>3. x = <<Received(sig)>>
  <2>1. <<Received(sig)>> \in Seq(Event)
    BY DEF Event
  <2> QED
    BY <2>1, ConcatEmptySeq
<1>4. journal' = (journal \o x) \o after
  <2>1. after \in Seq(Event)
    BY ClosingIsEvents
  <2>2. journal' = journal \o (<<Received(sig)>> \o after)
    BY DEF SignalOnly, Journals
  <2> HIDE DEF x
  <2> QED
    BY <1>1, <1>2, <1>3, <2>1, <2>2, ConcatAssociative
<1>5. /\ journal \o x \in Seq(Event)
      /\ signals' = signals \o <<sig>> /\ history' = history
  <2>1. signals' = Append(signals, sig) /\ history' = history
    BY DEF SignalOnly, Signals
  <2>2. Append(signals, sig) = signals \o <<sig>>
    BY <1>1, AppendIsConcat
  <2> QED
    BY <1>1, <1>2, <2>1, <2>2
<1> HIDE DEF x
<1>6. /\ journal' \in Seq(Event) /\ Replayed' \in Projection
      /\ after \in Notes => Replayed' = m
      /\ Replayed'.seq = m.seq /\ Replayed'.history = m.history /\ Replayed'.signals = m.signals
  BY <1>2, <1>4, <1>5, ClosingReplays DEF Replayed
<1> HIDE DEF m
<1>7. Carries(<<>>, <<sig>>)
  <2>1. Replayed.history \o <<>> = Replayed.history /\ history \o <<>> = history
    BY <1>1, ConcatEmptySeq DEF Projection
  <2> QED
    BY <1>2, <1>5, <1>6, <2>1 DEF Carries
<1>8. InStep'
  BY <1>2, <1>5, <1>6 DEF JInv, InStep, Notes
<1>9. <<>> \in Seq(JStage) /\ <<sig>> \in Seq(ASignal)
  OBVIOUS
<1> QED
  BY <1>7, <1>8, <1>9, CarriesKeeps

\* retry_failed_stage and continue_after_manual_edit.
LEMMA ReopenKeeps ==
  ASSUME JInv, HasRun, HasRun', run'.seq = run.seq,
         NEW sig \in ASignal, sig.type \in Reopening, NEW resolvedSome,
         SignalAndReopen(sig, resolvedSome), run'.stage = sig.stage
  PROVE  JInv'
<1> DEFINE after == IF resolvedSome THEN <<Note("retry.resolved")>> ELSE <<>>
           before == <<Received(sig)>> \o after
           m == Replay(journal \o before)
           path == <<sig.stage>>
           fresh == Fresh(history, path)
<1>1. after \in {<<>>, <<Note("retry.resolved")>>}
  OBVIOUS
<1>2. signals \in Seq(ASignal) /\ path \in Seq(JStage) /\ <<>> \in Notes \cup Ends
      /\ <<sig>> \in Seq(ASignal) /\ path # <<>> /\ Last(path) = sig.stage
  BY DEF JInv, JTypeOK, ASignal, JStage, Notes, Last
<1>3. Enters(before, path, <<>>) /\ signals' = signals \o <<sig>>
  BY <1>2, AppendIsConcat DEF SignalAndReopen, Signals
<1> HIDE DEF after
<1>4. /\ before \in Seq(Event) /\ m \in Projection
      /\ m.seq = Replayed.seq /\ m.history = Replayed.history
      /\ m.signals = Replayed.signals \o <<sig>> /\ m.state = "running" /\ m.stage = sig.stage
  BY <1>1, SignalReplays
<1> HIDE DEF before, path
<1>5. /\ fresh \in Seq(JStage) /\ Carries(fresh, <<sig>>)
      /\ <<>> \in Notes => /\ Replayed'.state = m.state
                           /\ Replayed'.stage = IF fresh = <<>> THEN m.stage ELSE Last(path)
      /\ path # <<>> => history' # <<>> /\ Last(history') = Last(path)
  BY <1>2, <1>3, <1>4, EntersCarries
<1> HIDE DEF m, fresh
<1>6. InStep'
  BY <1>2, <1>4, <1>5 DEF InStep, Notes
<1> QED
  BY <1>2, <1>5, <1>6, CarriesKeeps

\* A handler that enters the stages of path, perhaps with notes around them.
LEMMA PathKeeps ==
  ASSUME JInv, HasRun, HasRun', run'.seq = run.seq,
         NEW before \in Notes, NEW path \in Seq(JStage), NEW after \in Notes,
         Enters(before, path, after), signals' = signals,
         Running' => Running /\ run'.stage = IF path = <<>> THEN run.stage ELSE Last(path)
  PROVE  JInv'
<1> DEFINE m == Replay(journal \o before)
           fresh == Fresh(history, path)
<1>1. journal \in Seq(Event) /\ signals \in Seq(ASignal) /\ Replayed \in Projection
      /\ history \in Seq(JStage) /\ Replayed = Replay(journal)
  BY DEF JInv, JTypeOK, Replayed
<1>2. before \in Seq(Event) /\ m = Replayed
  BY <1>1, ClosingIsEvents, ClosingReplays
<1>3. signals' = signals \o <<>> /\ Replayed.signals = Replayed.signals \o <<>>
      /\ <<>> \in Seq(ASignal)
  BY <1>1, ConcatEmptySeq DEF Projection
<1>4. /\ fresh \in Seq(JStage) /\ Carries(fresh, <<>>)
      /\ after \in Notes => /\ Replayed'.state = m.state
                            /\ Replayed'.stage = IF fresh = <<>> THEN m.stage ELSE Last(path)
      /\ path # <<>> =>
           /\ history' # <<>> /\ Last(history') = Last(path)
           /\ fresh = <<>> => history # <<>> /\ Last(history) = Last(path)
  BY <1>1, <1>2, <1>3, EntersCarries
<1>5. path = <<>> => fresh = <<>> /\ history' = history
  <2>1. SUFFICES ASSUME path = <<>> PROVE fresh = <<>> /\ history' = history
    OBVIOUS
  <2>2. fresh = <<>>
    BY <2>1 DEF Fresh
  <2> QED
    BY <1>1, <1>4, <2>2, ConcatEmptySeq DEF Carries
<1> HIDE DEF m, fresh
<1>6. InStep'
  BY <1>2, <1>4, <1>5 DEF JInv, InStep
<1> QED
  BY <1>3, <1>4, <1>6, CarriesKeeps

\* complete, by the operator or the worker.
LEMMA CompletionKeeps ==
  ASSUME JInv, HasRun, HasRun', run'.seq = run.seq, ~Running',
         NEW sig \in ASignal, Signals(sig), NEW after \in Ends,
         Enters(<<Received(sig)>>, <<"COMPLETED">>, after)
  PROVE  JInv'
<1> DEFINE before == <<Received(sig)>> \o <<>>
           m == Replay(journal \o before)
           path == <<"COMPLETED">>
           fresh == Fresh(history, path)
<1>1. signals \in Seq(ASignal) /\ path \in Seq(JStage) /\ <<sig>> \in Seq(ASignal)
      /\ Replayed \in Projection
  BY DEF JInv, JTypeOK, JStage, Status, Terminal
<1>2. signals' = signals \o <<sig>>
  BY <1>1, AppendIsConcat DEF Signals
<1>3. before = <<Received(sig)>>
  <2>1. <<Received(sig)>> \in Seq(Event)
    BY DEF Event
  <2> QED
    BY <2>1, ConcatEmptySeq
<1>4. /\ before \in Seq(Event) /\ m \in Projection
      /\ m.seq = Replayed.seq /\ m.history = Replayed.history
      /\ m.signals = Replayed.signals \o <<sig>>
  BY SignalReplays
<1> HIDE DEF before, path
<1>5. fresh \in Seq(JStage) /\ Carries(fresh, <<sig>>)
  BY <1>1, <1>2, <1>3, <1>4, EntersCarries DEF path
<1> HIDE DEF m, fresh
<1>6. InStep'
  BY DEF InStep
<1> QED
  BY <1>1, <1>5, <1>6, CarriesKeeps

LEMMA PairConcatenated == ASSUME NEW x, NEW y PROVE <<x>> \o <<y>> = <<x, y>>
<1> DEFINE S == {x, y}
<1>1. <<x>> \in Seq(S) /\ y \in S
  OBVIOUS
<1>2. Append(<<x>>, y) = <<x>> \o <<y>>
  BY <1>1, AppendIsConcat
<1> DEFINE a == Append(<<x>>, y)
           b == <<x, y>>
<1>3. a \in Seq(S) /\ Len(a) = 2 /\ a[1] = x /\ a[2] = y
  BY <1>1
<1>4. b \in Seq(S) /\ Len(b) = 2 /\ b[1] = x /\ b[2] = y
  OBVIOUS
<1> HIDE DEF a, b
<1>5. a = b
  BY <1>3, <1>4, SeqEqual
<1> QED
  BY <1>2, <1>5 DEF a, b

\* acknowledge_stage_retry: two notes.
LEMMA AcknowledgementKeeps ==
  ASSUME JInv, NEW e, JAcknowledgeRetry(e)
  PROVE  JInv'
<1> DEFINE a == <<Note("retry.resolved")>>
           b == <<Note("retry.operator_acknowledged")>>
<1>1. run' = run /\ history' = history /\ signals' = signals
  BY DEF JAcknowledgeRetry, AcknowledgeRetry
<1>2. CASE ~HasRun
  <2>1. UNCHANGED journalVars
    BY <1>1, <1>2 DEF JAcknowledgeRetry, Journals, journalVars
  <2> QED
    BY <1>1, <2>1, NothingJournaled DEF HasRun, Running
<1>3. CASE HasRun
  <2>1. journal \in Seq(Event) /\ Replayed \in Projection /\ history \in Seq(JStage)
        /\ signals \in Seq(ASignal) /\ Replayed = Replay(journal)
    BY DEF JInv, JTypeOK, Replayed
  <2>2. a \in Notes /\ b \in Notes /\ a \in Seq(Event) /\ b \in Seq(Event)
    BY ClosingIsEvents DEF Notes, Noted
  <2>3. journal' = journal \o (a \o b)
    <3>1. a \o b = <<Note("retry.resolved"), Note("retry.operator_acknowledged")>>
      BY PairConcatenated
    <3>2. journal' = journal \o <<Note("retry.resolved"), Note("retry.operator_acknowledged")>>
      BY <1>3 DEF JAcknowledgeRetry, Journals
    <3> QED
      BY <3>1, <3>2
  <2> HIDE DEF a, b
  <2>4. journal' = (journal \o a) \o b
    BY <2>1, <2>2, <2>3, ConcatAssociative
  <2>5. journal \o a \in Seq(Event) /\ Replay(journal \o a) = Replayed
    BY <2>1, <2>2, ClosingReplays
  <2>6. journal' \in Seq(Event) /\ Replay(journal') = Replayed
    BY <2>1, <2>2, <2>4, <2>5, ClosingReplays
  <2>7. Replayed' = Replayed
    BY <2>6 DEF Replayed
  <2>8. Carries(<<>>, <<>>)
    BY <1>1, <2>1, <2>6, <2>7, ConcatEmptySeq DEF Carries, Projection
  <2>9. InStep'
    BY <1>1, <2>7 DEF JInv, InStep, Running
  <2>10. <<>> \in Seq(JStage) /\ <<>> \in Seq(ASignal)
    OBVIOUS
  <2> QED
    BY <1>1, <1>3, <2>8, <2>9, <2>10, CarriesKeeps DEF HasRun
<1> QED
  BY <1>2, <1>3

\* start, and the discussion request that starts a run of its own.
LEMMA StartKeeps ==
  ASSUME JInv, status \in Status, HasRun', run.seq \in Nat, run'.seq = run.seq + 1,
         NEW path \in Seq(JStage), NEW after \in Notes \cup Ends, NEW unjournaled \in Seq(JStage),
         Starts(path, after, unjournaled),
         Running' => /\ after = <<>> /\ unjournaled = <<>>
                     /\ run'.stage = IF path = <<>> THEN status ELSE Last(path),
         unjournaled = <<>> \/ unjournaled = <<"FAILED">>
  PROVE  JInv'
<1> DEFINE fresh == Fresh(<<status>>, path)
           start == Started(status, run.seq + 1)
           r == Replay(journal \o <<start>>)
           events == (journal \o <<start>>) \o EnteredAll(fresh)
<1>1. journal \in Seq(Event) /\ Replayed \in Projection /\ status \in JStage
      /\ <<status>> \in Seq(JStage) /\ Replayed = Replay(journal)
  BY DEF JInv, JTypeOK, JStage, Replayed
<1>2. /\ journal \o <<start>> \in Seq(Event) /\ r \in Projection
      /\ r.seq = run.seq + 1 /\ r.state = "running" /\ r.stage = status
      /\ r.history = Replayed.history \o <<status>> /\ r.signals = Replayed.signals
  <2> DEFINE next == ReplayStep(Replayed, start)
  <2>1. /\ start \in Event /\ next \in Projection
        /\ next.seq = run.seq + 1 /\ next.state = "running" /\ next.stage = status
        /\ next.history = Replayed.history \o <<status>> /\ next.signals = Replayed.signals
    <3>1. run.seq + 1 \in Nat /\ status \in JStage /\ Replayed \in Projection
      BY <1>1
    <3> QED
      BY <3>1, StartedReplays DEF start
  <2>2. journal \o <<start>> \in Seq(Event) /\ r = next
    BY <1>1, <2>1, OneMore
  <2> HIDE DEF next, r
  <2> QED
    BY <2>1, <2>2
<1>3. /\ fresh \in Seq(JStage) /\ (fresh # <<>> => Last(fresh) = Last(path))
      /\ path # <<>> =>
           /\ <<status>> \o fresh # <<>> /\ Last(<<status>> \o fresh) = Last(path)
           /\ fresh = <<>> => Last(<<status>>) = Last(path)
  BY <1>1, FreshStages
<1>4. path = <<>> => fresh = <<>>
  BY DEF Fresh
<1>5. /\ journal' = events \o after /\ signals' = <<>>
      /\ history' = (<<status>> \o fresh) \o unjournaled
  BY DEF Starts
<1> HIDE DEF start, fresh
<1>6. Passes(journal \o <<start>>, fresh)
  BY <1>2, <1>3, StagesReplay
<1>7. events \in Seq(Event) /\ Replay(events) \in Projection /\ Replay(events) = Through(r, fresh)
  BY <1>6 DEF Passes
<1> HIDE DEF events, r
<1>8. /\ Replay(events).seq = r.seq /\ Replay(events).signals = r.signals
      /\ Replay(events).history = r.history \o fresh /\ Replay(events).state = r.state
      /\ Replay(events).stage = IF fresh = <<>> THEN r.stage ELSE Last(fresh)
  BY <1>2, <1>7 DEF Through, Projection
<1>9. /\ journal' \in Seq(Event) /\ Replayed' \in Projection
      /\ after \in Notes => Replayed' = Replay(events)
      /\ Replayed'.seq = Replay(events).seq /\ Replayed'.history = Replay(events).history
      /\ Replayed'.signals = Replay(events).signals
  BY <1>5, <1>7, ClosingReplays DEF Replayed
<1>10. JTypeOK'
  <2>1. history' \in Seq(JStage)
    BY <1>1, <1>3, <1>5
  <2> QED
    BY <1>5, <1>9, <2>1 DEF JTypeOK
<1>11. unjournaled = <<>> => history' = <<status>> \o fresh
  BY <1>1, <1>3, <1>5, ConcatEmptySeq
<1>12. InStep'
  <2>1. SUFFICES ASSUME Running'
                 PROVE  /\ Replayed'.state = "running" /\ Replayed'.stage = run'.stage
                        /\ history' # <<>> /\ Last(history') = run'.stage
    BY DEF InStep
  <2>2. history' = <<status>> \o fresh /\ Replayed' = Replay(events)
    BY <1>9, <1>11, <2>1 DEF Notes
  <2>3. Last(<<status>>) = status
    BY DEF Last
  <2>4. CASE path = <<>>
    <3>1. fresh = <<>> /\ run'.stage = status /\ history' = <<status>>
      BY <1>1, <1>4, <2>1, <2>2, <2>4, ConcatEmptySeq
    <3> QED
      BY <1>2, <1>8, <2>2, <2>3, <3>1
  <2>5. CASE path # <<>>
    BY <1>2, <1>3, <1>8, <2>1, <2>2, <2>3, <2>5
  <2> QED
    BY <2>4, <2>5
<1>13. FirstRunHistoryReplays'
  <2>1. SUFFICES ASSUME run'.seq = 1, "FAILED" \notin Range(history')
                 PROVE  Replayed'.history = history'
    BY DEF FirstRunHistoryReplays
  <2>2. unjournaled = <<>>
    <3>1. SUFFICES ASSUME unjournaled # <<>> PROVE FALSE
      OBVIOUS
    <3>2. unjournaled = <<"FAILED">>
      BY <3>1
    <3>3. "FAILED" \in Range(unjournaled)
      BY <3>2 DEF Range
    <3>4. Range(history') = Range(<<status>> \o fresh) \cup Range(unjournaled)
      <4>1. <<status>> \o fresh \in Seq(JStage)
        BY <1>1, <1>3
      <4>2. ASSUME NEW u \in Seq(JStage)
            PROVE  Range(u \o unjournaled) = Range(u) \cup Range(unjournaled)
        BY RangeConcatenation
      <4> DEFINE u == <<status>> \o fresh
      <4>3. u \in Seq(JStage) /\ history' = u \o unjournaled
        BY <1>5, <4>1
      <4> HIDE DEF u
      <4>4. Range(history') = Range(u) \cup Range(unjournaled)
        BY <4>2, <4>3
      <4> QED
        BY <4>4 DEF u
    <3> QED
      BY <2>1, <3>3, <3>4
  <2>3. ~HasRun
    BY <2>1 DEF JInv
  <2>4. Replayed.history = <<>>
    BY <1>1, <2>3, ReplayEmpty DEF JInv, NothingReplayed
  <2>5. r.history = <<status>>
    BY <1>1, <1>2, <2>4, ConcatEmptySeq
  <2> QED
    BY <1>8, <1>9, <1>11, <2>2, <2>5
<1>14. \E earlier \in Seq(ASignal) : Replayed'.signals = earlier \o signals'
  <2>1. Replayed'.signals \in Seq(ASignal)
    BY <1>9 DEF Projection
  <2>2. Replayed'.signals = Replayed'.signals \o signals'
    BY <1>5, <2>1, ConcatEmptySeq
  <2> QED
    BY <2>1, <2>2
<1>15. run'.seq > 0 /\ Replayed'.seq = run'.seq
  BY <1>2, <1>8, <1>9
<1> QED
  BY <1>10, <1>12, <1>13, <1>14, <1>15 DEF JInv

-----------------------------------------------------------------------------
(* Every step of the journal keeps the invariant.                          *)

LEMMA RunEnds ==
  ASSUME TypeOK, NEW state, state # None, NEW stage, NEW reason,
         run' = EndRun(state, stage, reason)
  PROVE  /\ run'.seq = run.seq /\ (HasRun' <=> HasRun)
         /\ HasRun => run'.state = state /\ run'.stage = stage
         /\ ~HasRun => run' = run
BY DEF TypeOK, EndRun, HasRun

LEMMA StageEnters ==
  ASSUME TypeOK, NEW stage, run' = EnterStage(stage)
  PROVE  /\ run'.seq = run.seq /\ (HasRun' <=> HasRun) /\ (Running' <=> Running)
         /\ HasRun => run'.stage = stage
         /\ ~HasRun => run' = run
BY DEF TypeOK, EnterStage, HasRun, Running

LEMMA WithoutRun ==
  ASSUME JInv, ~HasRun, run' = run,
         \/ \E sig, after : SignalOnly(sig, after)
         \/ \E sig, some : SignalAndReopen(sig, some)
         \/ /\ \E before, path, after : Enters(before, path, after)
            /\ signals' = signals \/ \E sig : Signals(sig)
         \/ UNCHANGED journalVars
  PROVE  JInv'
<1>1. journal' = journal /\ history' = history /\ signals' = signals
  BY DEF SignalOnly, SignalAndReopen, Signals, Enters, Journals, journalVars
<1> QED
  BY <1>1, NothingJournaled DEF journalVars, HasRun, Running

LEMMA AreSignals ==
  ASSUME NEW type \in {"pause", "resume", "cancel", "stop_run", "retry_failed_stage",
                       "continue_after_manual_edit", "reject_stage", "approve_stage", "complete"},
         NEW stage \in Status
  PROVE  /\ Signal(type, stage) \in ASignal /\ Signal(type, stage).type = type
         /\ Signal(type, stage).stage = stage
BY DEF Signal, ASignal

LEMMA AreEnds ==
  /\ <<>> \in Notes
  /\ \A type \in Noted : <<Note(type)>> \in Notes
  /\ <<Completed("cancelled", "CANCELLED", "cancelled")>> \in Ends
  /\ <<Completed("failed", "FAILED", "stage_rejected")>> \in Ends
  /\ <<Completed("failed", "FAILED", "stage_failed")>> \in Ends
  /\ <<Completed("completed", "COMPLETED", "completed")>> \in Ends
<1>1. {"CANCELLED", "FAILED", "COMPLETED"} \subseteq Status
  BY DEF Status, Terminal
<1> QED
  BY <1>1 DEF Notes, Ends, RunState, Reason

LEMMA SignalHandlers ==
  ASSUME IInv, JInv,
         JPause \/ JResume \/ JCancel \/ JStopRun \/ JRejectStage \/ JApproveStage
  PROVE  JInv'
<1>1. TypeOK /\ status \in Status
  BY DEF IInv, TypeOK
<1>2. ASSUME NEW type \in {"pause", "resume", "approve_stage"},
             run' = run, SignalOnly(Signal(type, status), <<>>)
      PROVE  JInv'
  <2>1. CASE ~HasRun
    BY <1>2, <2>1, WithoutRun
  <2>2. CASE HasRun
    <3>1. Signal(type, status) \in ASignal /\ Signal(type, status).type \notin Reopening
      BY <1>1, <1>2, AreSignals DEF Reopening
    <3>2. <<>> \in Notes \cup Ends
      BY AreEnds
    <3>3. HasRun' /\ run'.seq = run.seq /\ (Running' => Running /\ run'.stage = run.stage)
      BY <1>2, <2>2 DEF HasRun, Running
    <3> QED
      BY <1>2, <2>2, <3>1, <3>2, <3>3, SignalOnlyKeeps
  <2> QED
    BY <2>1, <2>2
<1>3. ASSUME NEW type \in {"cancel", "stop_run", "reject_stage"}, NEW after \in Notes \cup Ends,
             NEW state \in {"cancelled", "stopped", "failed"}, NEW stage, NEW reason,
             run' = EndRun(state, stage, reason), SignalOnly(Signal(type, status), after)
      PROVE  JInv'
  <2>1. /\ run'.seq = run.seq /\ (HasRun' <=> HasRun)
        /\ HasRun => run'.state = state
        /\ ~HasRun => run' = run
    BY <1>1, <1>3, RunEnds DEF None
  <2>2. CASE ~HasRun
    BY <1>3, <2>1, <2>2, WithoutRun
  <2>3. CASE HasRun
    <3>1. Signal(type, status) \in ASignal /\ Signal(type, status).type \notin Reopening
      BY <1>1, <1>3, AreSignals DEF Reopening
    <3>2. ~Running'
      BY <1>3, <2>1, <2>3 DEF Running
    <3> QED
      BY <1>3, <2>1, <2>3, <3>1, <3>2, SignalOnlyKeeps
  <2> QED
    BY <2>2, <2>3
<1>4. CASE JPause
  BY <1>2, <1>4 DEF JPause, Pause
<1>5. CASE JResume
  BY <1>2, <1>5 DEF JResume, Resume
<1>6. CASE JApproveStage
  BY <1>2, <1>6 DEF JApproveStage, vars
<1>7. CASE JCancel
  <2>1. /\ run' = EndRun("cancelled", "CANCELLED", "cancelled")
        /\ SignalOnly(Signal("cancel", status), <<Completed("cancelled", "CANCELLED", "cancelled")>>)
    BY <1>7 DEF JCancel, Cancel
  <2> QED
    BY <1>3, <2>1, AreEnds
<1>8. CASE JStopRun
  <2>1. /\ run' = EndRun("stopped", status, "stopped_by_operator")
        /\ SignalOnly(Signal("stop_run", status), <<Note("run.stopped")>>)
    BY <1>8 DEF JStopRun, StopRun
  <2>2. <<Note("run.stopped")>> \in Notes
    BY AreEnds DEF Noted
  <2> QED
    BY <1>3, <2>1, <2>2
<1>9. CASE JRejectStage
  <2>1. /\ run' = EndRun("failed", "FAILED", "stage_rejected")
        /\ SignalOnly(Signal("reject_stage", status), <<Completed("failed", "FAILED", "stage_rejected")>>)
    BY <1>9 DEF JRejectStage, RejectStage
  <2> QED
    BY <1>3, <2>1, AreEnds
<1> QED
  BY <1>4, <1>5, <1>6, <1>7, <1>8, <1>9

LEMMA RecoveryHandlers ==
  ASSUME IInv, JInv, JRetryFailedStage \/ JContinueAfterManualEdit
  PROVE  JInv'
<1>1. TypeOK /\ RetryStage \in Status /\ ContinueStage \in Status
  BY RestoredStatus DEF IInv
<1>2. ASSUME NEW type \in Reopening, status' \in Status, run' = ReopenRun(status'), NEW some,
             SignalAndReopen(Signal(type, status'), some)
      PROVE  JInv'
  <2>1. /\ run'.seq = run.seq /\ (HasRun' <=> HasRun)
        /\ HasRun => run'.stage = status'
        /\ ~HasRun => run' = run
    BY <1>1, <1>2, RunEnds DEF None, ReopenRun
  <2>2. CASE ~HasRun
    BY <1>2, <2>1, <2>2, WithoutRun
  <2>3. CASE HasRun
    <3>1. /\ Signal(type, status') \in ASignal /\ Signal(type, status').type \in Reopening
          /\ Signal(type, status').stage = status'
      BY <1>2, AreSignals DEF Reopening
    <3> QED
      BY <1>2, <2>1, <2>3, <3>1, ReopenKeeps
  <2> QED
    BY <2>2, <2>3
<1>3. CASE JRetryFailedStage
  <2>1. /\ status' = RetryStage /\ run' = ReopenRun(RetryStage)
        /\ SignalAndReopen(Signal("retry_failed_stage", status'), ActiveFor(status') # {})
    BY <1>3 DEF JRetryFailedStage, RetryFailedStage
  <2>2. "retry_failed_stage" \in Reopening
    BY DEF Reopening
  <2> QED
    BY <1>1, <1>2, <2>1, <2>2
<1>4. CASE JContinueAfterManualEdit
  <2>1. /\ status' = ContinueStage /\ run' = ReopenRun(ContinueStage)
        /\ SignalAndReopen(Signal("continue_after_manual_edit", status'), ActiveFor(status') # {})
    BY <1>4 DEF JContinueAfterManualEdit, ContinueAfterManualEdit
  <2>2. "continue_after_manual_edit" \in Reopening
    BY DEF Reopening
  <2> QED
    BY <1>1, <1>2, <2>1, <2>2
<1> QED
  BY <1>3, <1>4

LEMMA DiscussionPathStages ==
  /\ DiscussionPath \in Seq(JStage) /\ DiscussionPath # <<>>
  /\ Last(DiscussionPath) = "TRANSCRIPT_REVIEW"
  /\ SubSeq(DiscussionPath, 1, 2) \in Seq(JStage)
<1>1. {"PREPARING_DISCUSSION", "DISCUSSING", "TRANSCRIPT_QC", "TRANSCRIPT_REVIEW"} \subseteq JStage
  BY DEF JStage, Status, Working
<1>2. DiscussionPath \in Seq(JStage) /\ Len(DiscussionPath) = 4
      /\ DiscussionPath[4] = "TRANSCRIPT_REVIEW"
  BY <1>1 DEF DiscussionPath
<1> HIDE DEF DiscussionPath
<1>3. DiscussionPath # <<>> /\ Last(DiscussionPath) = "TRANSCRIPT_REVIEW"
  BY <1>2 DEF Last
<1>4. SubSeq(DiscussionPath, 1, 2) \in Seq(JStage)
  BY <1>2
<1> QED
  BY <1>2, <1>3, <1>4

LEMMA CompletionHandlers ==
  ASSUME IInv, JInv,
         JComplete \/ \E errors \in [WorkerStage -> 0..MaxErrors] : JWorkerCompletes(errors)
  PROVE  JInv'
<1> DEFINE sig == Signal("complete", "COMPLETED")
           after == <<Completed("completed", "COMPLETED", "completed")>>
<1>1. /\ run' = EndRun("completed", "COMPLETED", "completed")
      /\ Signals(sig) /\ Enters(<<Received(sig)>>, <<"COMPLETED">>, after)
  BY DEF JComplete, Complete, JWorkerCompletes, WorkerCompletes
<1>2. "COMPLETED" \in Status
  BY DEF Status, Terminal
<1>3. sig \in ASignal /\ after \in Ends
  BY <1>2, AreSignals, AreEnds
<1> HIDE DEF sig, after
<1>4. TypeOK
  BY DEF IInv
<1>5. /\ run'.seq = run.seq /\ (HasRun' <=> HasRun)
      /\ HasRun => run'.state = "completed"
      /\ ~HasRun => run' = run
  BY <1>1, <1>4, RunEnds DEF None
<1>6. CASE ~HasRun
  BY <1>1, <1>5, <1>6, WithoutRun
<1>7. CASE HasRun
  <2>1. ~Running'
    BY <1>5, <1>7 DEF Running
  <2> QED
    BY <1>1, <1>3, <1>5, <1>7, <2>1, CompletionKeeps
<1> QED
  BY <1>6, <1>7

\* Handlers that enter a stage without a signal.
LEMMA StageHandlers ==
  ASSUME IInv, JInv,
         \/ \E e \in retries : JRetryDueStage(e)
         \/ JWorkerDiscussion \/ JReopenTranscript
         \/ \E approved \in BOOLEAN : JDecideTranscript(approved)
  PROVE  JInv'
<1>1. TypeOK
  BY DEF IInv
<1>2. <<>> \in Notes
  BY AreEnds
<1>3. ASSUME NEW before \in Notes, NEW path \in Seq(JStage), NEW after \in Notes,
             path # <<>>, run' = EnterStage(Last(path)),
             Enters(before, path, after), signals' = signals
      PROVE  JInv'
  <2>1. /\ run'.seq = run.seq /\ (HasRun' <=> HasRun) /\ (Running' <=> Running)
        /\ HasRun => run'.stage = Last(path)
        /\ ~HasRun => run' = run
    BY <1>1, <1>3, StageEnters
  <2>2. CASE ~HasRun
    BY <1>3, <2>1, <2>2, WithoutRun
  <2>3. CASE HasRun
    BY <1>3, <2>1, <2>3, PathKeeps
  <2> QED
    BY <2>2, <2>3
<1>4. ASSUME NEW e \in retries, JRetryDueStage(e) PROVE JInv'
  <2> DEFINE t == Target[e.stage]
             before == <<Note("retry.resolved")>>
             after == <<Note("retry.automatic_requested")>>
             path == <<t>>
  <2>1. t \in Status
    <3>1. e.stage \in WorkerStage
      BY <1>1 DEF TypeOK, RetryEntry
    <3> QED
      BY <3>1, ConstantsAssumption DEF ConstantsAssumption, Status
  <2>2. /\ Running /\ run' = ReopenRun(t) /\ signals' = signals
        /\ Enters(before, path, after)
    BY <1>4 DEF JRetryDueStage, RetryDueStage
  <2>3. before \in Notes /\ after \in Notes
    BY AreEnds DEF Noted
  <2>4. path \in Seq(JStage) /\ path # <<>> /\ Last(path) = t
    BY <2>1 DEF JStage, Last
  <2> HIDE DEF t, before, after, path
  <2>5. HasRun
    BY <2>2 DEF Running, HasRun, None
  <2>6. run'.seq = run.seq /\ HasRun' /\ run'.stage = t
    BY <1>1, <2>2, <2>5, RunEnds DEF ReopenRun, None
  <2> QED
    BY <2>2, <2>3, <2>4, <2>5, <2>6, PathKeeps
<1>5. CASE JWorkerDiscussion
  <2>1. /\ run' = EnterStage("TRANSCRIPT_REVIEW") /\ signals' = signals
        /\ Enters(<<>>, DiscussionPath, <<>>)
    BY <1>5 DEF JWorkerDiscussion, WorkerDiscussion
  <2>2. DiscussionPath \in Seq(JStage) /\ DiscussionPath # <<>>
        /\ Last(DiscussionPath) = "TRANSCRIPT_REVIEW"
    BY DiscussionPathStages
  <2> QED
    BY <1>2, <1>3, <2>1, <2>2
<1>6. ASSUME NEW s \in Status PROVE <<s>> \in Seq(JStage) /\ <<s>> # <<>> /\ Last(<<s>>) = s
  BY <1>6 DEF JStage, Last
<1>7. CASE JReopenTranscript
  <2>1. /\ run' = EnterStage("TRANSCRIPT_REVIEW") /\ signals' = signals
        /\ Enters(<<>>, <<"TRANSCRIPT_REVIEW">>, <<>>)
    BY <1>7 DEF JReopenTranscript, ReopenTranscript
  <2>2. "TRANSCRIPT_REVIEW" \in Status
    BY DEF Status, Working
  <2> QED
    BY <1>2, <1>3, <1>6, <2>1, <2>2
<1>8. ASSUME NEW approved \in BOOLEAN, JDecideTranscript(approved) PROVE JInv'
  <2>1. /\ run' = IF status' # status THEN EnterStage(status') ELSE run
        /\ Enters(<<>>, IF status' # status THEN <<status'>> ELSE <<>>, <<>>)
        /\ signals' = signals
        /\ status' = IF approved THEN "READY" ELSE "TRANSCRIPT_REVIEW"
    BY <1>8 DEF JDecideTranscript, DecideTranscript
  <2>2. status' \in Status
    BY <2>1 DEF Status, Working
  <2>3. CASE status' # status
    <3>1. /\ run' = EnterStage(status') /\ Enters(<<>>, <<status'>>, <<>>)
      BY <2>1, <2>3
    <3> QED
      BY <1>2, <1>3, <1>6, <2>1, <2>2, <3>1
  <2>4. CASE status' = status
    <3>1. run' = run /\ Enters(<<>>, <<>>, <<>>)
      BY <2>1, <2>4
    <3>2. CASE ~HasRun
      BY <2>1, <3>1, <3>2, WithoutRun
    <3>3. CASE HasRun
      <4>1. HasRun' /\ run'.seq = run.seq /\ (Running' => Running) /\ run'.stage = run.stage
            /\ <<>> \in Seq(JStage)
        BY <3>1, <3>3 DEF HasRun, Running
      <4> QED
        BY <1>2, <2>1, <3>1, <3>3, <4>1, PathKeeps
    <3> QED
      BY <3>2, <3>3
  <2> QED
    BY <2>3, <2>4
<1> QED
  BY <1>4, <1>5, <1>7, <1>8

LEMMA StartHandlers ==
  ASSUME IInv, JInv,
         JBeginRun \/ JProduce \/ \E p \in {status, "DISCUSSING"} : JProduceFails(p)
  PROVE  JInv'
<1>1. TypeOK /\ status \in Status /\ run.seq \in Nat
  BY DEF IInv, TypeOK
<1>2. <<>> \in Notes \cup Ends /\ <<>> \in Seq(JStage)
  BY AreEnds
<1>3. CASE JBeginRun
  <2>1. run' = [state |-> "running", stage |-> status, reason |-> None, seq |-> run.seq + 1]
    BY <1>3 DEF JBeginRun, BeginRun
  <2>2. HasRun' /\ run'.seq = run.seq + 1 /\ run'.stage = status
    BY <2>1 DEF HasRun, None
  <2>3. Starts(<<>>, <<>>, <<>>)
    BY <1>3 DEF JBeginRun
  <2> QED
    BY <1>1, <1>2, <2>2, <2>3, StartKeeps
<1>4. CASE JProduce
  <2>1. run' = [state |-> "running", stage |-> "TRANSCRIPT_REVIEW", reason |-> None,
                seq |-> run.seq + 1]
    BY <1>4 DEF JProduce, Produce
  <2>2. HasRun' /\ run'.seq = run.seq + 1 /\ run'.stage = "TRANSCRIPT_REVIEW"
    BY <2>1 DEF HasRun, None
  <2>3. Starts(DiscussionPath, <<>>, <<>>)
    BY <1>4 DEF JProduce
  <2>4. DiscussionPath \in Seq(JStage) /\ DiscussionPath # <<>>
        /\ Last(DiscussionPath) = "TRANSCRIPT_REVIEW"
    BY DiscussionPathStages
  <2> QED
    BY <1>1, <1>2, <2>2, <2>3, <2>4, StartKeeps
<1>5. ASSUME NEW p \in {status, "DISCUSSING"}, JProduceFails(p) PROVE JInv'
  <2> DEFINE path == IF p = status THEN <<>> ELSE SubSeq(DiscussionPath, 1, 2)
             after == <<Completed("failed", "FAILED", "stage_failed")>>
             unjournaled == IF p = "FAILED" THEN <<>> ELSE <<"FAILED">>
  <2>1. run' = [state |-> "failed", stage |-> "FAILED", reason |-> "stage_failed",
                seq |-> run.seq + 1]
    BY <1>5 DEF JProduceFails, ProduceFails
  <2>2. HasRun' /\ run'.seq = run.seq + 1 /\ ~Running'
    BY <2>1 DEF HasRun, Running, None
  <2>3. Starts(path, after, unjournaled)
    BY <1>5 DEF JProduceFails
  <2>4. path \in Seq(JStage)
    BY <1>2, DiscussionPathStages
  <2>5. after \in Notes \cup Ends
    BY AreEnds
  <2>6. unjournaled \in Seq(JStage) /\ (unjournaled = <<>> \/ unjournaled = <<"FAILED">>)
    <3>1. "FAILED" \in JStage
      BY DEF JStage, Status
    <3>2. <<>> \in Seq(JStage) /\ <<"FAILED">> \in Seq(JStage)
      BY <3>1
    <3> QED
      BY <3>2
  <2> HIDE DEF path, after, unjournaled
  <2> QED
    BY <1>1, <2>2, <2>3, <2>4, <2>5, <2>6, StartKeeps
<1> QED
  BY <1>3, <1>4, <1>5

\* Handlers that journal nothing and leave the run alone.
LEMMA SilentHandlers ==
  ASSUME JInv, JSilent \/ UNCHANGED allVars
  PROVE  JInv'
<1>1. run' = run /\ UNCHANGED journalVars
  BY DEF JSilent, RecordOrchestration, ReconcileVisuals, MediaWork, PublishLive, allVars, vars
<1> QED
  BY <1>1, NothingJournaled DEF HasRun, Running

LEMMA JInitially == JInit => JInv
<1> SUFFICES ASSUME JInit PROVE JInv
  OBVIOUS
<1>1. run = NoRun /\ journal = <<>> /\ history = <<>> /\ signals = <<>>
  BY DEF JInit, Init
<1>2. Replayed = NothingReplayed
  BY <1>1, ReplayEmpty DEF Replayed
<1>3. NothingReplayed \in Projection
  BY DEF NothingReplayed, Projection, RunState, Reason, None
<1>4. ~HasRun /\ ~Running /\ run.seq = 0
  BY <1>1 DEF HasRun, Running, NoRun, None
<1>5. JTypeOK
  BY <1>1, <1>2, <1>3 DEF JTypeOK
<1>6. \E earlier \in Seq(ASignal) : Replayed.signals = earlier \o signals
  <2>1. Replayed.signals = <<>> /\ <<>> \in Seq(ASignal)
    BY <1>2 DEF NothingReplayed
  <2>2. <<>> = <<>> \o signals
    BY <1>1, <2>1, ConcatEmptySeq
  <2> QED
    BY <2>1, <2>2
<1>7. FirstRunHistoryReplays
  BY <1>4 DEF FirstRunHistoryReplays
<1> QED
  BY <1>1, <1>4, <1>5, <1>6, <1>7 DEF JInv, InStep

LEMMA JStep == IInv /\ JInv /\ [JNext]_allVars => JInv'
BY SignalHandlers, RecoveryHandlers, CompletionHandlers, StageHandlers, StartHandlers,
   SilentHandlers, AcknowledgementKeeps DEF JNext

\* Every step of the journal is a step of WorkflowControl, or leaves its variables alone.
LEMMA JournalingIsControl == [JNext]_allVars => [Next]_vars
BY DEF JNext, JBeginRun, JPause, JResume, JCancel, JStopRun, JRetryFailedStage,
       JContinueAfterManualEdit, JApproveStage, JRejectStage, JComplete, JWorkerCompletes,
       JAcknowledgeRetry, JRetryDueStage, JProduce, JProduceFails, JWorkerDiscussion,
       JDecideTranscript, JReopenTranscript, JSilent, Next, Operator, Worker, Other, allVars

(* The journaling handlers implement WorkflowControl: what they append      *)
(* never makes one of them do more or less to the episode.                  *)
THEOREM JournalImplementsControl == JSpec => Spec
<1>1. JInit => Init
  BY DEF JInit
<1> QED
  BY <1>1, JournalingIsControl, PTL DEF JSpec, Spec

(* The invariant of journal, history and run holds in every behaviour.     *)
THEOREM JournalInvariant == JSpec => []JInv
BY JInitially, JStep, JournalImplementsControl, Invariance, PTL DEF JSpec

(* While a run is running, its journal replays to its number, state and     *)
(* stage, for every journal, set of stages and number of runs.              *)
THEOREM RunningRunReplays == JSpec => []ActiveRunReplays
<1>1. JInv => ActiveRunReplays
  BY DEF JInv, InStep, ActiveRunReplays, Running, HasRun, None
<1> QED
  BY <1>1, JournalInvariant, PTL

(* The stage history of the first run is the replayed one, whatever its     *)
(* length, unless a stage failure was recorded in it.                       *)
THEOREM FirstHistoryReplays == JSpec => []FirstRunHistoryReplays
<1>1. JInv => FirstRunHistoryReplays
  BY DEF JInv
<1> QED
  BY <1>1, JournalInvariant, PTL

LEMMA AppendedIsSuffix ==
  ASSUME NEW S, NEW u \in Seq(S), NEW s \in Seq(S)
  PROVE  IsSuffix(s, u \o s)
<1> DEFINE t == u \o s
           a == Reverse(s)
           b == Reverse(t)
           k == Len(s)
<1>1. /\ t \in Seq(S) /\ Len(u) \in Nat /\ k \in Nat /\ Len(t) = Len(u) + k
      /\ \A i \in 1..Len(t) : t[i] = IF i <= Len(u) THEN u[i] ELSE s[i - Len(u)]
  BY ConcatProperties
<1> HIDE DEF t
<1>2. a \in Seq(S) /\ Len(a) = k /\ \A i \in 1..k : a[i] = s[(k - i) + 1]
  BY DEF Reverse
<1>3. /\ b \in Seq(S) /\ Len(b) = Len(u) + k
      /\ \A i \in 1..(Len(u) + k) : b[i] = t[((Len(u) + k) - i) + 1]
  BY <1>1 DEF Reverse
<1> HIDE DEF a, b, k
<1>4. ASSUME NEW i \in 1..k PROVE a[i] = b[i]
  <2> DEFINE j == ((Len(u) + k) - i) + 1
  <2>1. /\ i \in 1..(Len(u) + k) /\ j \in 1..Len(t) /\ ~(j <= Len(u))
        /\ j - Len(u) = (k - i) + 1
    BY <1>1
  <2>2. b[i] = t[j]
    BY <1>3, <2>1
  <2> HIDE DEF j
  <2>3. t[j] = s[j - Len(u)]
    BY <1>1, <2>1
  <2> QED
    BY <1>2, <2>1, <2>2, <2>3
<1>5. SubSeq(a, 1, k) = SubSeq(b, 1, k)
  <2> DEFINE x == SubSeq(a, 1, k)
             y == SubSeq(b, 1, k)
  <2>1. x \in Seq(S) /\ Len(x) = k /\ \A i \in 1..k : x[i] = a[i]
    BY <1>1, <1>2
  <2>2. y \in Seq(S) /\ Len(y) = k /\ \A i \in 1..k : y[i] = b[i]
    BY <1>1, <1>3
  <2> HIDE DEF x, y
  <2>3. x = y
    BY <1>4, <2>1, <2>2, SeqEqual
  <2> QED
    BY <2>3 DEF x, y
<1>6. Len(a) <= Len(b) /\ SubSeq(a, 1, Len(a)) = SubSeq(b, 1, Len(a))
  BY <1>1, <1>2, <1>3, <1>5
<1> QED
  BY <1>6 DEF IsSuffix, IsPrefix, a, b, t

(* The signals of the present run are the last of the replayed ones: no     *)
(* operator signal of a run goes unjournaled, however many there are.       *)
THEOREM RunSignalsReplay == JSpec => []SignalsReplay
<1>1. JInv => SignalsReplay
  <2>1. SUFFICES ASSUME JInv PROVE SignalsReplay
    OBVIOUS
  <2>2. signals \in Seq(ASignal)
    BY <2>1 DEF JInv, JTypeOK
  <2>3. PICK earlier \in Seq(ASignal) : Replayed.signals = earlier \o signals
    BY <2>1 DEF JInv
  <2> QED
    BY <2>2, <2>3, AppendedIsSuffix DEF SignalsReplay
<1> QED
  BY <1>1, JournalInvariant, PTL

(* A cancelled episode is marked and has no active run, with the journal    *)
(* handlers as with the bare ones.                                          *)
THEOREM JournaledCancellationStays == JSpec => []CancellationSticks
BY JournalImplementsControl, CancellationStays, PTL

=============================================================================
