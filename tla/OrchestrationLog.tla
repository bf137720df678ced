-------------------------- MODULE OrchestrationLog --------------------------
(***************************************************************************)
(* worker_orchestration_log of one episode: how the evidence of worker     *)
(* passes is numbered, retained and saved.  At the end of a pass its       *)
(* record is added to the pass' copy of the episode if the run is running, *)
(* with a retry entry if one of its stages failed for the episode; the     *)
(* worker saves that only if the log has become longer, and the save is    *)
(* given up when the row is newer than the copy.  API requests load the    *)
(* row and save the whole of it later.  EpisodeStore models these saves    *)
(* with their clock; here a copy is stale when the row was saved by        *)
(* somebody else since it was loaded.                                      *)
(*                                                                         *)
(* What an entry says beyond its number and whether a stage failed is left *)
(* out, as are Temporal dispatches.  A retry entry is named by the entry   *)
(* of the log it was made with (source_summary_id); that operators resolve *)
(* it later is in WorkflowControl.                                         *)
(***************************************************************************)
EXTENDS Integers, Sequences

CONSTANTS
  LogRetention, \* worker_orchestration_log_retention_limit (100)
  Runner,       \* what runs passes: the polling workers, API requests that advance
  Client        \* other API requests on the episode, each sent any number of times

ASSUME LogAssumption == LogRetention \in Nat \ {0} /\ Runner \cap Client = {}

Actor == Runner \cup Client

VARIABLES
  stored,  \* the episode row
  doing,   \* where each actor is
  held,    \* the episode it works on; of a runner, cached and mutated in place
  stale,   \* somebody else saved the episode since then
  failing, \* a stage of the runner's pass failed for the episode
  closing  \* the runner's pass has completed the episode, as it believes

logVars == <<stored, doing, held, stale, failing, closing>>

Entry == [seq : Nat, failed : BOOLEAN]

RunState == {"none", "running", "ended"}

\* state: of the run, ended in any way; count: run["worker_orchestration_attempt_count"],
\* 0 when missing; retries: the stage retry queue.
Episode == [state : RunState, count : Nat, log : Seq(Entry), retries : SUBSET Nat]

Phase == {"idle", "loaded", "saving", "recording"}

LogTypeOK ==
  /\ stored \in Episode /\ Len(stored.log) <= LogRetention
  /\ doing \in [Actor -> Phase]
  /\ held \in [Actor -> Episode]
  /\ stale \in [Actor -> BOOLEAN]
  /\ failing \in [Runner -> BOOLEAN] /\ closing \in [Runner -> BOOLEAN]

Blank == [state |-> "none", count |-> 0, log |-> <<>>, retries |-> {}]

LogInit ==
  /\ stored = Blank
  /\ doing = [a \in Actor |-> "idle"]
  /\ held = [a \in Actor |-> Blank]
  /\ stale = [a \in Actor |-> FALSE]
  /\ failing = [p \in Runner |-> FALSE] /\ closing = [p \in Runner |-> FALSE]

-----------------------------------------------------------------------------
(* Copies.                                                                 *)

\* What handlers and stages do to the run: begin_run makes a new record, the log and
\* the queue stay; those that end a run or open it again leave the count alone.
Begun(e) == [e EXCEPT !.state = "running", !.count = 0]
Ended(e) == [e EXCEPT !.state = "ended"]
Reopened(e) == [e EXCEPT !.state = "running"]

Changed(e, f) ==
  \/ f = e
  \/ e.state # "running" /\ f = Begun(e)
  \/ e.state = "running" /\ f = Ended(e)
  \/ e.state = "ended" /\ f = Reopened(e)

Holds(a, e) == held' = [held EXCEPT ![a] = e]

Loads(a) == Holds(a, stored) /\ stale' = [stale EXCEPT ![a] = FALSE]

\* The whole aggregate is written, whatever the row holds by now.
Saves(a, e) ==
  /\ stored' = e
  /\ stale' = [b \in Actor |-> b # a /\ (stale[b] \/ doing[b] # "idle")]

Moves(a, to) == doing' = [doing EXCEPT ![a] = to]

\* An actor that is through holds nothing any more.
Leaves(a) == Moves(a, "idle") /\ Holds(a, Blank)

-----------------------------------------------------------------------------
(* Passes.                                                                 *)

\* refresh at the start of a pass.  The pass before it may have been killed anywhere.
Start(p) ==
  /\ Loads(p)
  /\ Moves(p, "loaded")
  /\ failing' = [failing EXCEPT ![p] = FALSE]
  /\ closing' = [closing EXCEPT ![p] = FALSE]
  /\ UNCHANGED stored

\* A stage fails for the episode; its error goes into the summary of the pass.
Fail(p) ==
  /\ doing[p] = "loaded"
  /\ failing' = [failing EXCEPT ![p] = TRUE]
  /\ UNCHANGED <<stored, doing, held, stale, closing>>

\* Mutant: only the newer version is remembered, the stale copy stays.
AdoptsVersionOnly(p) == UNCHANGED held /\ stale' = [stale EXCEPT ![p] = FALSE]

\* A newer row replaces the copy, and the work of the stage is dropped.
Adopts(p) == Loads(p)

\* A stage with a change, up to the check of the row's version.  The completion stage
\* notes the episode as completed whatever becomes of its save.
StageEnds(p) ==
  /\ doing[p] = "loaded"
  /\ \E e \in {held[p], Begun(held[p]), Ended(held[p]), Reopened(held[p])} :
       /\ Changed(held[p], e)
       /\ \/ stale[p] /\ Adopts(p) /\ UNCHANGED doing
          \/ ~stale[p] /\ Holds(p, e) /\ Moves(p, "saving") /\ UNCHANGED stale
       /\ closing' = [closing EXCEPT ![p] = @ \/ (held[p].state = "running" /\ e.state = "ended")]
  /\ UNCHANGED <<stored, failing>>

\* Mutant: a new run numbers its attempts from 1 again.
NextSequenceOfRun(e) == e.count + 1

NextSequence(e) == (IF e.count = 0 THEN Len(e.log) ELSE e.count) + 1

Retained(entries) ==
  IF Len(entries) <= LogRetention THEN entries
  ELSE SubSeq(entries, Len(entries) - LogRetention + 1, Len(entries))

\* record_worker_orchestration.
Recorded(e, failed) ==
  [e EXCEPT
     !.log = Retained(Append(e.log, [seq |-> NextSequence(e), failed |-> failed])),
     !.count = NextSequence(e),
     !.retries = IF failed THEN @ \cup {NextSequence(e)} ELSE @]

OnRecord(p) == held[p].state = "running" \/ (closing[p] /\ held[p].state # "none")

\* The end of a pass, up to the check of the row's version; its summary is used up.
Record(p) ==
  /\ doing[p] = "loaded"
  /\ LET recorded == Recorded(held[p], failing[p]) IN
     IF OnRecord(p) /\ Len(recorded.log) # Len(held[p].log) /\ ~stale[p]
     THEN Holds(p, recorded) /\ Moves(p, "recording")
     ELSE Leaves(p)
  /\ failing' = [failing EXCEPT ![p] = FALSE]
  /\ closing' = [closing EXCEPT ![p] = FALSE]
  /\ UNCHANGED <<stored, stale>>

\* The save after a check that found no newer row.
Store(p) ==
  /\ doing[p] \in {"saving", "recording"}
  /\ Saves(p, held[p])
  /\ IF doing[p] = "saving" THEN Moves(p, "loaded") /\ UNCHANGED held ELSE Leaves(p)
  /\ UNCHANGED <<failing, closing>>

-----------------------------------------------------------------------------
(* Other requests.                                                         *)

Fetch(c) ==
  /\ doing[c] = "idle"
  /\ Loads(c)
  /\ Moves(c, "loaded")
  /\ UNCHANGED <<stored, failing, closing>>

Save(c) ==
  /\ doing[c] = "loaded"
  /\ \E e \in {held[c], Begun(held[c]), Ended(held[c]), Reopened(held[c])} :
       Changed(held[c], e) /\ Saves(c, e)
  /\ Leaves(c)
  /\ UNCHANGED <<failing, closing>>

LogNext ==
  \/ \E p \in Runner : Start(p) \/ Fail(p) \/ StageEnds(p) \/ Record(p) \/ Store(p)
  \/ \E c \in Client : Fetch(c) \/ Save(c)

LogSpec == LogInit /\ [][LogNext]_logVars

-----------------------------------------------------------------------------
(* Properties.                                                             *)

(* Attempt numbers on record grow without a repetition, over all the runs  *)
(* of the episode and whichever saves were given up or overwritten: a      *)
(* number names one pass.                                                  *)
AttemptsNumbered == \A i, j \in DOMAIN stored.log : i < j => stored.log[i].seq < stored.log[j].seq

(* A queued retry is lost only when a copy is saved that had been loaded   *)
(* before another save: by a request, which never looks, or by a pass      *)
(* between the check of the version and the save.  The drop of a pass'     *)
(* record loses no earlier one.                                            *)
RetriesOutlastSaves ==
  [][\/ stored.retries \subseteq stored'.retries
     \/ \E p \in Runner : stale[p] /\ Store(p)
     \/ \E c \in Client : stale[c] /\ Save(c)]_logVars

=============================================================================
