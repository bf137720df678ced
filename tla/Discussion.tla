----------------------------- MODULE Discussion -----------------------------
(***************************************************************************)
(* DiscussionEngine.run: the panel discussion of one episode, turn by      *)
(* turn.  The controller decides who speaks next and what kind of turn it  *)
(* is, computes how many turns must still follow, and divides the time     *)
(* that is left among them; a model then speaks for at most its share.     *)
(*                                                                         *)
(* Time is counted in spoken words: the program estimates a duration as    *)
(* words divided by a rate (rounded to hundredths of a second, which is    *)
(* left out), and cuts a turn to the whole words its limit holds.          *)
(***************************************************************************)
EXTENDS Integers, Sequences, FiniteSets

CONSTANTS
  Host,     \* the host of the episode
  N,        \* how many panelists are enabled
  Second,   \* the words of one second: no turn is cut below it
  Brief,    \* the format settings of an episode that are considered
  MaxRuns   \* bound: how often the discussion is started

ASSUME PanelAssumption == N \in Nat \ {0} /\ Host \notin 1..N
ASSUME SecondAssumption == Second \in Nat \ {0}
\* maximum: words of the whole discussion; monologue: of one turn; bridge: of
\* the hand-off from the primer, 0 when the opening is disabled; high: the
\* discussion intensity asks for cross examination.
ASSUME BriefAssumption ==
  Brief \subseteq [maximum : Nat \ {0}, monologue : Nat \ {0},
                   bridge : {0} \cup {n \in Nat : n >= Second}, high : BOOLEAN]
ASSUME MaxRunsAssumption == MaxRuns \in Nat

VARIABLES
  brief,    \* the settings of this episode
  status,   \* episode.status
  turns,    \* session.turns: who spoke and the type of the turn
  used,     \* session.estimated_duration_seconds, in words
  engine,   \* who runs the engine: "none", "api" or "worker"
  runs      \* how often it was started (bounded)

vars == <<brief, status, turns, used, engine, runs>>

Panelist == 1..N
Speaker == Panelist \cup {Host}

OpeningType == IF brief.bridge > 0 THEN "post_primer_bridge" ELSE "host_opening"
TurnTypes == {"post_primer_bridge", "host_opening", "opening_position", "question",
              "rebuttal", "clarification", "closing_statement", "host_synthesis"}

Positions(types) == {i \in DOMAIN turns : turns[i].type \in types}
Count(types) == Cardinality(Positions(types))
Spoken(type) == Count({type})

\* clarification is the type of exactly the turns of the cross examination.
Rebuttals == Count({"rebuttal", "clarification"})
\* Mutant: every answer of the main discussion counts as cross examination.
CrossExaminationsOfAny == Rebuttals
CrossExaminations == Spoken("clarification")
RequiredCrossExaminations == IF brief.high THEN 2 ELSE 0
\* Mutant: who took a position is taken to have closed.
ClosingSpeakersOpened ==
  {turns[i].by : i \in Positions({"opening_position", "closing_statement"})}
ClosingSpeakers == {turns[i].by : i \in Positions({"closing_statement"})}

(***************************************************************************)
(* _next_turn_decision: the first obligation of the discussion that is not *)
(* met yet, then the speakers the controller may pick and the type of the  *)
(* turn.  The score that picks one of several panelists is left open.      *)
(***************************************************************************)
Stage ==
  IF turns = <<>> THEN "opening"
  ELSE IF Spoken("opening_position") < N THEN "positions"
  ELSE IF Spoken("question") = 0 THEN "main question"
  ELSE IF Rebuttals < N THEN "main discussion"
  ELSE IF Spoken("question") = 1 THEN "focused challenge"
  ELSE IF CrossExaminations < RequiredCrossExaminations THEN "cross examination"
  ELSE IF Panelist \ ClosingSpeakers # {} THEN "closing statements"
  ELSE IF Spoken("host_synthesis") = 0 THEN "host synthesis"
  ELSE "over"

NextSpeakers(stage) ==
  CASE stage \in {"opening", "main question", "focused challenge", "host synthesis"} -> {Host}
    [] stage = "positions" -> {Spoken("opening_position") + 1}
    [] stage \in {"main discussion", "cross examination"} -> Panelist
    [] stage = "closing statements" -> Panelist \ ClosingSpeakers
    [] stage = "over" -> {}

NextType(stage) ==
  CASE stage = "opening" -> OpeningType
    [] stage = "positions" -> "opening_position"
    [] stage \in {"main question", "focused challenge"} -> "question"
    [] stage = "main discussion" -> "rebuttal"
    [] stage = "cross examination" -> "clarification"
    [] stage = "closing statements" -> "closing_statement"
    [] stage \in {"host synthesis", "over"} -> "host_synthesis"

AtLeast0(x) == IF x < 0 THEN 0 ELSE x

\* _minimum_remaining_cast_turns_after_selection: the turns that must follow
\* the one the controller picked.  It is told the speaker only where the plan
\* fixes one, and counts anybody but the host as one more of each kind.
Reserved(stage) ==
  LET more     == IF NextSpeakers(stage) = {Host} THEN 0 ELSE 1
      opened   == Spoken("opening_position") + more
      asked    == Spoken("question") + (1 - more)
      rebutted == Rebuttals + more
      closed   == Spoken("closing_statement") + more
      crossed  == CrossExaminations + (IF stage = "cross examination" THEN 1 ELSE 0)
      Cross    == RequiredCrossExaminations
  IN CASE stage \in {"opening", "positions"} ->
            AtLeast0(N - opened) + 1 + N + 1 + Cross + N + 1
       [] stage = "main question" -> N + 1 + Cross + N + 1
       [] stage = "main discussion" ->
            AtLeast0(N - rebutted) + (IF asked < 2 THEN 1 ELSE 0)
              + AtLeast0(Cross - crossed) + N + 1
       [] stage = "focused challenge" -> Cross + N + 1
       [] stage = "cross examination" -> AtLeast0(Cross - crossed) + N + 1
       [] stage = "closing statements" ->
            IF Spoken("closing_statement") < N
            THEN AtLeast0(N - closed) + 1 ELSE AtLeast0(1 - Spoken("host_synthesis"))
       [] stage \in {"host synthesis", "over"} -> 0

-----------------------------------------------------------------------------
(* The time a turn may take.                                               *)

Least(a, b) == IF a <= b THEN a ELSE b
Greatest(a, b) == IF a <= b THEN b ELSE a

Remaining == AtLeast0(brief.maximum - used)

\* Mutant: the time is divided without a share for the turn itself.
AllowanceOffByOne(stage) ==
  Least(brief.monologue, Remaining \div Greatest(Reserved(stage), 1))

\* _turn_duration_allowance; the bridge has its own, which ignores the turns
\* still to come.
Allowance(stage) ==
  IF NextType(stage) = "post_primer_bridge"
  THEN Least(brief.monologue, Least(Remaining, brief.bridge))
  ELSE Least(brief.monologue, Remaining \div (Reserved(stage) + 1))

\* _apply_duration_controls: what is longer is cut, but never below a second.
Limit(stage) == Greatest(Second, Least(Allowance(stage), brief.monologue))

-----------------------------------------------------------------------------
Init ==
  /\ brief \in Brief
  /\ status = "ready" /\ engine = "none"
  /\ turns = <<>> /\ used = 0 /\ runs = 0

\* run: a new session replaces the one there was.
NewSession(who) ==
  /\ runs < MaxRuns /\ engine = "none"
  /\ status' = "discussing" /\ engine' = who
  /\ turns' = <<>> /\ used' = 0 /\ runs' = runs + 1
  /\ UNCHANGED brief

\* A request to produce is refused while the recorded run is active.
Produce == status \in {"ready", "failed"} /\ NewSession("api")

\* Mutant: only an episode whose discussion never began is taken up.
WorkerCanStartReady == status = "ready" /\ turns = <<>>

\* _discussion_worker_can_start
WorkerCanStart ==
  \/ status = "ready" /\ turns = <<>>
  \/ status = "discussing" /\ turns = <<>>

WorkerStarts == WorkerCanStart /\ NewSession("worker")

Over == Remaining = 0 \/ Stage = "over"

\* One round of the loop: the model's turn, cut to its limit, is appended.
Speak ==
  /\ engine # "none" /\ ~Over
  /\ LET stage == Stage
     IN \E by \in NextSpeakers(stage), words \in 0..Limit(stage) :
          /\ turns' = Append(turns, [by |-> by, type |-> NextType(stage)])
          /\ used' = used + words
  /\ UNCHANGED <<brief, status, engine, runs>>

\* The loop ends; both transcripts and the pending review are made.
Conclude ==
  /\ engine # "none" /\ Over
  /\ status' = "transcript_review" /\ engine' = "none"
  /\ UNCHANGED <<brief, turns, used, runs>>

\* A model call fails.  The request records the failure of the stage; the
\* worker only counts an error, and its copy keeps the half-made session.
Fail ==
  /\ engine # "none"
  /\ status' = IF engine = "api" THEN "failed" ELSE status
  /\ engine' = "none"
  /\ UNCHANGED <<brief, turns, used, runs>>

\* retry_failed_stage, by an operator or by the automatic retry: the episode
\* goes back to the stage that failed.
Retry ==
  /\ status = "failed"
  /\ status' = "discussing"
  /\ UNCHANGED <<brief, turns, used, engine, runs>>

Next == Produce \/ WorkerStarts \/ Speak \/ Conclude \/ Fail \/ Retry

Spec == Init /\ [][Next]_vars

\* The loop goes on while its model answers (weak fairness of Speak \/ Conclude,
\* stated by what these steps do), and the worker looks at the episode again on
\* every pass.
LoopGoesOn == []<>(engine = "none") \/ []<><<turns' # turns>>_turns

FairSpec == Spec /\ LoopGoesOn /\ WF_vars(WorkerStarts)

-----------------------------------------------------------------------------
TypeOK ==
  /\ brief \in Brief
  /\ status \in {"ready", "discussing", "transcript_review", "failed"}
  /\ engine \in {"none", "api", "worker"}
  /\ turns \in Seq([by : Speaker, type : TurnTypes])
  /\ used \in Nat /\ runs \in 0..MaxRuns

\* The turns of a whole discussion: the host opens, everybody takes a
\* position, the host asks, everybody answers, the host asks again, the cross
\* examination, everybody closes, and the host sums up.
FullLength == 1 + N + 1 + N + 1 + RequiredCrossExaminations + N + 1

(***************************************************************************)
(* The controller "reserves duration for every remaining required turn"    *)
(* (docs/discussion-engine.md): the count of turns still to come, which is *)
(* computed apart from the plan, agrees with the plan at every turn.       *)
(***************************************************************************)
ReservationExact ==
  Stage # "over" => Len(turns) + 1 + Reserved(Stage) = FullLength

\* There is a second for every turn besides the bridge.
Roomy == brief.maximum >= Greatest(brief.bridge, Second) + (FullLength - 1) * Second

(***************************************************************************)
(* What the turns use never takes the time the episode needs to conclude:  *)
(* in a roomy episode every turn still to come keeps at least its second,  *)
(* however long the models speak, so the discussion stays within its       *)
(* maximum and only ends after the host's synthesis.                       *)
(***************************************************************************)
TimeToConclude ==
  Roomy =>
    /\ turns # <<>> => used + (FullLength - Len(turns)) * Second <= brief.maximum
    /\ status = "transcript_review" => Len(turns) = FullLength

(***************************************************************************)
(* A discussion the host summed up has heard everybody, however tight its  *)
(* time was: each panelist took a position and closed, once.               *)
(***************************************************************************)
EverybodyHeard ==
  Spoken("host_synthesis") > 0 =>
    \A p \in Panelist, type \in {"opening_position", "closing_statement"} :
      Cardinality({i \in Positions({type}) : turns[i].by = p}) = 1

(***************************************************************************)
(* The loop over the turns ends, even when a model says nothing, and the   *)
(* worker takes up a discussion again that has no turn yet.  A discussion  *)
(* that broke off after some turns is left where it is.                    *)
(***************************************************************************)
BrokenOff == status = "discussing" /\ engine = "none" /\ turns # <<>>

DiscussionEnds ==
  status = "discussing" ~>
    \/ status \in {"transcript_review", "failed"} \/ BrokenOff
    \/ engine = "none" /\ runs = MaxRuns

=============================================================================
