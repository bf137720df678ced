------------------------------- MODULE Primer -------------------------------
(***************************************************************************)
(* The topic primer of one episode (PrimerProductionService): the          *)
(* narration script, its spoken form and the review of it, the narrator's  *)
(* recording, the visual plan with its trims, checks, revisions and        *)
(* approval, and the render made of them.                                  *)
(*                                                                         *)
(* The requests that wait for a model or for the narrator may keep the     *)
(* episode and the narrator profile they loaded while others save; they    *)
(* save their whole copy in the end, also when they were refused.  The     *)
(* other requests load and save in one step.  Durations are counted in     *)
(* half seconds; texts, frames and the choices of models are left open.    *)
(* A production with rebuild_visual_plan is the other requests in a row.   *)
(***************************************************************************)
EXTENDS Integers, Sequences, SequencesExt, FiniteSetsExt

CONSTANTS
  Script,         \* editorial scripts that may be written
  Version,        \* spoken forms of a script that may be written
  Profile,        \* states of the narrator profile that are considered
  ExcludePeople,  \* the episode's people-free policy
  Target,         \* configured duration of the primer,
  Shot,           \* of an added visual,
  Margin,         \* of what a prepared excerpt is longer than its beat,
  Tolerance,      \* of what a recording may differ without a retiming
  Length,         \* durations a recording may have
  Trim,           \* durations an editor trims an excerpt to
  Beats,          \* visuals of a prepared plan
  Offered,        \* what a search for media may offer for one of them:
                  \*   an excerpt that shows nobody or was not verified, a still
  Media,          \* media an editor chooses
  Judgement,      \* what a still picture may be judged to show
  MaxBeats,       \* bounds: visuals of a plan,
  Kept,           \*   revisions that are kept (30 in the code),
  MaxVoices,      \*   recordings,
  MaxRequests     \*   steps of requests and changes of the profile

ASSUME TextAssumption == Script \subseteq Nat \ {0} /\ Version \subseteq Nat \ {0}
ASSUME ProfileAssumption ==
  Profile \subseteq [spoken : BOOLEAN, review : BOOLEAN, words : Nat, voice : Nat]
ASSUME DurationAssumption ==
  /\ ExcludePeople \in BOOLEAN
  /\ {Target, Shot, Margin, Beats, MaxBeats, Kept} \subseteq Nat \ {0}
  /\ Beats <= Target
  /\ {Tolerance, MaxVoices, MaxRequests} \subseteq Nat
  /\ Offered \subseteq {"seen", "unseen", "still"} /\ Offered \ {"still"} # {}
  /\ Media \subseteq {"none", "still", "video"} /\ Judgement \subseteq {"free", "people"}
  /\ Length \subseteq Nat \ {0} /\ Trim \subseteq Nat \ {0}

VARIABLES
  row,      \* the stored episode
  profile,  \* the stored narrator profile
  late,     \* what a request that is still at work has loaded
  released, \* every spoken text that was ever approved, with its policy
  voices,   \* recordings and steps so far (bounded)
  requests

vars == <<row, profile, late, released, voices, requests>>

NoText == [script |-> 0, version |-> 0]
Policy(p) == [spoken |-> p.spoken, review |-> p.review, words |-> p.words]
NoPolicy == [spoken |-> FALSE, review |-> FALSE, words |-> 0]

\* media: of the source, "none" while unassigned.  range: length of the selected
\* excerpt, 0 while there is none.  manual: the editor's trim.  free: the excerpt
\* was verified people-free.
Beat == [media : {"none", "still", "video"}, dur : Nat, range : Nat,
         manual : {"none", "pending", "verified"}, free : BOOLEAN]

\* A measurement: the recording, its length, its script, review_required.
NoTiming == [voice |-> 0, dur |-> 0, script |-> 0, review |-> FALSE]

\* emptied and remeasured are no fields of the code: all visuals were removed
\* since the plan was prepared; a new measurement took back a demand for review.
NoPlan == [beats |-> <<>>, target |-> Target, status |-> "none", script |-> 0,
           timing |-> NoTiming, emptied |-> FALSE, remeasured |-> FALSE]

Plan == [beats : Seq(Beat), target : Nat, status : {"none", "review_required", "blocked", "approved"},
         script : Nat, timing : [voice : Nat, dur : Nat, script : Nat, review : BOOLEAN],
         emptied : BOOLEAN, remeasured : BOOLEAN]

NoVoice == [id |-> 0, text |-> NoText, voice |-> 0, policy |-> NoPolicy, dur |-> 0]
NoRender == [text |-> NoText, script |-> 0, beats |-> <<>>, remeasured |-> FALSE]

NewEpisode ==
  [script |-> 0, polished |-> TRUE,
   spoken |-> [status |-> "none", text |-> NoText, policy |-> NoPolicy],
   narration |-> NoVoice, plan |-> NoPlan, revisions |-> <<>>,
   still |-> "unassessed",   \* suitability of the episode's still picture
   render |-> NoRender]

NobodyLate == [busy |-> FALSE, e |-> NewEpisode, p |-> CHOOSE p \in Profile : TRUE]

-----------------------------------------------------------------------------
(* Scripts and recordings.                                                 *)

Usable(e) == e.script # 0 /\ e.polished

\* Mutant: a change of the pronunciation policy goes unnoticed.
SpokenStatusOfScript(e, p) ==
  IF ~p.spoken THEN "not_required"
  ELSE IF e.spoken.status # "none" /\ e.script # 0 /\ e.spoken.text.script # e.script
    THEN "outdated" ELSE e.spoken.status

SpokenStatus(e, p) ==
  IF ~p.spoken THEN "not_required"
  ELSE IF /\ e.spoken.status # "none"
          /\ \/ e.script # 0 /\ e.spoken.text.script # e.script
             \/ e.spoken.policy # Policy(p)
    THEN "outdated" ELSE e.spoken.status

SpokenReady(e, p) == Usable(e) /\ SpokenStatus(e, p) \in {"not_required", "approved"}

SpokenText(e, p) ==
  IF p.spoken THEN e.spoken.text ELSE [script |-> e.script, version |-> 0]

\* _reusable_narration_asset
Reusable(e, p) ==
  e.narration.id # 0 /\ e.narration.voice = p.voice /\ e.narration.text = SpokenText(e, p)

\* The recording at hand, or a new one, which may have any length.
Recordings(e, p, reuse) ==
  IF reuse /\ Reusable(e, p) THEN {e.narration}
  ELSE IF voices = MaxVoices THEN {}
  ELSE {[id |-> voices + 1, text |-> SpokenText(e, p), voice |-> p.voice,
         policy |-> Policy(p), dur |-> d] : d \in Length}

-----------------------------------------------------------------------------
(* The visual plan.                                                        *)

\* The time at which each of them has ended.
Until(durations) ==
  LET u[k \in 0..Len(durations)] == IF k = 0 THEN 0 ELSE u[k - 1] + durations[k] IN u

Total(durations) == Until(durations)[Len(durations)]
Durations(beats) == [k \in DOMAIN beats |-> beats[k].dur]
Planned(plan) == Total(Durations(plan.beats))

\* The target is kept in the beats: without any it is the configured one.
TargetOf(plan) == IF plan.beats = <<>> THEN Target ELSE plan.target

BeatFree(e, b) == IF b.media = "video" THEN b.free ELSE e.still = "free"

\* Mutant: excerpts that wait for their verification count as covered.
ReadyPending(e) ==
  LET beats == e.plan.beats
  IN /\ beats # <<>> /\ Planned(e.plan) >= TargetOf(e.plan)
     /\ \A k \in DOMAIN beats :
          /\ beats[k].media # "none"
          /\ beats[k].media = "video" => beats[k].range >= Max({1, beats[k].dur})

\* _visual_plan_coverage has no blockers.
Ready(e) ==
  LET beats == e.plan.beats
  IN /\ beats # <<>> /\ Planned(e.plan) >= TargetOf(e.plan)
     /\ \A k \in DOMAIN beats :
          /\ beats[k].media # "none" /\ beats[k].manual # "pending"
          /\ ExcludePeople => BeatFree(e, beats[k])
          /\ beats[k].media = "video" => beats[k].range >= Max({1, beats[k].dur})

\* _archive_visual_plan: the oldest revision makes room.
Archived(e) ==
  LET r == e.revisions
  IN IF e.plan.beats = <<>> \/ (r # <<>> /\ Last(r) = e.plan) THEN e
     ELSE [e EXCEPT !.revisions =
             LET all == Append(r, e.plan) IN SubSeq(all, Max({1, Len(all) - Kept + 1}), Len(all))]

ReviewStatus(e) == IF Ready(e) THEN "review_required" ELSE "blocked"
ForReview(e) == [e EXCEPT !.plan.status = ReviewStatus(e)]

\* Half of an odd number is rounded to the even side, as Python does.
Rounded(a, b) ==
  LET q == a \div b
      r == 2 * (a % b)
  IN IF r > b \/ (r = b /\ q % 2 = 1) THEN q + 1 ELSE q

\* _rescale_durations: what rounding left over goes to the last ones, in turn.
Rescaled(durations, target) ==
  LET n      == Len(durations)
      wanted == Max({n, target})
      scaled == [k \in 1..n |-> Max({1, Rounded(durations[k] * wanted, Total(durations))})]
      left   == wanted - Total(scaled)
      Part(k) == Cardinality({i \in 1..Max({left, -left}) : n - ((i - 1) % n) = k})
  IN [k \in 1..n |-> IF left > 0 THEN scaled[k] + Part(k) ELSE Max({1, scaled[k] - Part(k)})]

\* Mutant: the new recording is compared with the one before it.
DriftFromLast(plan, n) ==
  IF plan.timing.voice # 0 THEN n.dur - plan.timing.dur ELSE n.dur - plan.target

Drift(plan, n) == n.dur - plan.target

\* _synchronise_visual_plan_to_narration.  A plan that is timed anew loses its
\* approval and the episode its render; trims that were verified want a review.
Synchronised(e, n) ==
  LET plan   == e.plan
      timed  == /\ plan.timing.voice = n.id /\ plan.timing.dur = n.dur
                /\ plan.timing.script = e.script
      retime == Drift(plan, n) > Tolerance \/ Drift(plan, n) < -Tolerance
      review == retime /\ \E k \in DOMAIN plan.beats : plan.beats[k].manual = "verified"
      timing == [voice |-> n.id, dur |-> n.dur, script |-> e.script, review |-> review]
      scaled == Rescaled(Durations(plan.beats), n.dur)
  IN IF plan.beats = <<>> \/ timed THEN e
     ELSE IF ~retime
       THEN [e EXCEPT !.plan.timing = timing, !.plan.remeasured = @ \/ plan.timing.review]
       ELSE ForReview([Archived(e) EXCEPT
              !.plan.beats = [k \in DOMAIN @ |-> [@[k] EXCEPT !.dur = scaled[k]]],
              !.plan.target = n.dur, !.plan.timing = timing,
              !.plan.remeasured = @ \/ (plan.timing.review /\ ~review),
              !.render = NoRender])

\* What prepare_visual_plan may come up with: excerpts that show nobody or were not
\* verified, and stills that suit the policy, at an even pace.
Selections(e) ==
  {c \in Offered : (c = "still" /\ ExcludePeople) => e.still = "free"}

PacedBeat(k, choice) ==
  LET pace == Target \div Beats + (IF k <= Target % Beats THEN 1 ELSE 0)
  IN [media |-> IF choice = "still" THEN "still" ELSE "video", dur |-> pace,
      range |-> IF choice = "still" THEN 0 ELSE pace + Margin,
      manual |-> "none", free |-> ExcludePeople /\ choice = "seen"]

Assessed(e) == IF e.still = "unassessed" THEN {"unassessed"} \cup Judgement ELSE {e.still}

-----------------------------------------------------------------------------
(* Requests that wait for a model or for the narrator: the episodes they   *)
(* may save, made from the episode e and the profile p they loaded.  One   *)
(* that is refused saves what it loaded.                                   *)

\* prepare_spoken_script
SpokenPrepared(e, p) ==
  IF ~Usable(e) \/ ~p.spoken THEN {e}
  ELSE {[e EXCEPT !.spoken = [status |-> IF p.review THEN "review_required" ELSE "approved",
                              text |-> [script |-> e.script, version |-> v],
                              policy |-> Policy(p)]] : v \in Version}

Drafted(e, s) ==
  {[e EXCEPT !.script = s, !.polished = TRUE, !.still = still] : still \in Assessed(e)}

\* A draft that fails twice takes the script with it.
DraftFailed(e) == [e EXCEPT !.polished = FALSE, !.script = IF e.polished THEN @ ELSE 0]

NewPlans(e) ==
  {ForReview([Archived(e) EXCEPT
     !.plan = [NoPlan EXCEPT !.script = e.script,
                             !.beats = [k \in 1..Beats |-> PacedBeat(k, choice[k])]]]) :
   choice \in [1..Beats -> Selections(e)]}

\* prepare_visual_plan: a new draft, a given script or the old one; the render stays.
PlanPrepared(e, replace) ==
  IF e.plan.beats # <<>> /\ ~replace THEN {e}
  ELSE {DraftFailed(e)} \cup
    UNION {NewPlans(drafted) : drafted \in UNION {Drafted(e, s) : s \in Script}}

\* prepare_narration_timing
TimingPrepared(e, p, regenerate) ==
  IF ~SpokenReady(e, p) THEN {e}
  ELSE {e} \cup
    {Synchronised([e EXCEPT !.narration = n], n) : n \in Recordings(e, p, ~regenerate)}

\* The excerpts that verify_visual_plan_excerpts looks at.
Unverified(b) == b.media = "video" /\ (b.manual = "pending" \/ (ExcludePeople /\ ~b.free))

\* _apply_verified_manual_excerpt_timing: the editor's trim is authoritative again.
TrimApplied(b) ==
  IF b.manual # "none" /\ b.range > 0 /\ (ExcludePeople => b.free)
  THEN [b EXCEPT !.dur = b.range, !.manual = "verified"] ELSE b

\* The model looks at excerpts with a range; those in F show nobody.
Looked(e, F) ==
  [e EXCEPT !.plan.beats = [k \in DOMAIN @ |->
     IF Unverified(@[k]) /\ (ExcludePeople \/ @[k].range = 0)
       THEN [@[k] EXCEPT !.free = k \in F] ELSE @[k]]]

\* verify_visual_plan_excerpts
ExcerptsVerified(e) ==
  IF e.plan.beats = <<>> THEN {}
  ELSE {ForReview([Archived(Looked(e, F)) EXCEPT
          !.plan.beats = [k \in DOMAIN @ |-> TrimApplied(@[k])],
          !.plan.timing.review = FALSE,
          !.plan.remeasured = FALSE]) :
        F \in SUBSET {k \in DOMAIN e.plan.beats :
                        ExcludePeople /\ Unverified(e.plan.beats[k]) /\ e.plan.beats[k].range > 0}}

\* assess_visual_plan_source_media
SourcesAssessed(e) ==
  {LET e1 == [Archived(e) EXCEPT !.still = still]
   IN IF e.plan.beats = <<>> \/ e.plan.status = "approved" THEN e1 ELSE ForReview(e1)
   : still \in Assessed(e)}

\* Mutant: the script of the plan is not compared.
CanProduceAnyScript(e, p) == SpokenReady(e, p)

\* What produce checks before it records.
CanProduce(e, p) == SpokenReady(e, p) /\ e.script = e.plan.script

\* _sequence_timed_visual_beats: only the last visual that fits is cut.
Scheduled(beats, duration) ==
  LET start == [k \in DOMAIN beats |-> Until(Durations(beats))[k - 1]]
  IN [k \in {i \in DOMAIN beats : start[i] < duration} |->
        [beats[k] EXCEPT !.dur = Min({@, duration - start[k]})]]

Rendered(e, n) ==
  [e EXCEPT !.render = [text |-> n.text, script |-> e.plan.script,
                        beats |-> Scheduled(e.plan.beats, n.dur),
                        remeasured |-> e.plan.remeasured]]

\* produce: recorded, measured, and rendered unless trims want a review or the
\* visuals are too short.  After a retiming without trims it goes on to render.
Produced(e, p, regenerate, reuse) ==
  IF e.plan.status # "approved" \/ ~Ready(e)
  THEN {[e EXCEPT !.plan.status = IF e.plan.beats # <<>> THEN "review_required" ELSE "blocked"]}
  ELSE IF (e.render # NoRender /\ ~regenerate) \/ ~CanProduce(e, p) THEN {e}
  ELSE {e} \cup UNION {
    LET e1 == Synchronised([e EXCEPT !.narration = n], n)
    IN {e1} \cup (IF e1.plan.timing.review \/ Planned(e1.plan) < n.dur
                  THEN {} ELSE {Rendered(e1, n)})
    : n \in Recordings(e, p, reuse)}

-----------------------------------------------------------------------------
(* Requests that load and save in one step.                                *)

\* update_spoken_script
CanEditSpoken(e, p) == Usable(e) /\ p.spoken

SpokenEdited(e, p, v) ==
  [e EXCEPT !.spoken = [status |-> "review_required",
                        text |-> [script |-> e.script, version |-> v],
                        policy |-> Policy(p)]]

\* approve_spoken_script
CanApproveSpoken(e, p) ==
  SpokenStatus(e, p) \in {"review_required", "approved"} /\ Usable(e)

\* add_visual_plan_beat: a still must suit the policy, an excerpt has no range yet.
Suits(e, media) == (media = "still" /\ ExcludePeople) => e.still = "free"

BeatAdded(e, k, media) ==
  ForReview([Archived(e) EXCEPT
    !.plan.beats = InsertAt(@, k, [media |-> media, dur |-> Shot, range |-> 0,
      manual |-> IF media = "video" THEN "pending" ELSE "none", free |-> FALSE]),
    !.plan.target = TargetOf(e.plan)])

\* remove_visual_plan_beat
BeatRemoved(e, k) ==
  ForReview([Archived(e) EXCEPT !.plan.beats = RemoveAt(@, k),
                                !.plan.emptied = @ \/ Len(e.plan.beats) = 1])

\* update_visual_plan_beat: another source or another trim, to be verified again.
BeatTrimmed(e, k, media, range) ==
  ForReview([Archived(e) EXCEPT !.plan.beats[k] =
    [media |-> media, range |-> range, dur |-> IF range > 0 THEN range ELSE @.dur,
     manual |-> IF media = "video" THEN "pending" ELSE "none", free |-> FALSE]])

\* approve_visual_plan
CanApprove(e) ==
  /\ e.plan.beats # <<>> /\ e.plan.timing.voice # 0
  /\ e.plan.timing.script = e.script /\ ~e.plan.timing.review
  /\ Ready(e)

Approved(e) == [Archived(e) EXCEPT !.plan.status = "approved"]

\* restore_visual_plan_revision: an approval is restored with its plan.
Restored(e, i) ==
  LET e1 == [Archived(e) EXCEPT !.plan = e.revisions[i]]
  IN IF e.revisions[i].status = "approved" /\ Ready(e1) THEN e1 ELSE ForReview(e1)

-----------------------------------------------------------------------------
Init ==
  /\ row = NewEpisode
  /\ profile \in Profile
  /\ late = NobodyLate
  /\ released = {} /\ voices = 0 /\ requests = 0

Release(e) ==
  released' = IF e.spoken.status = "approved"
                THEN released \cup {[text |-> e.spoken.text, policy |-> e.spoken.policy]}
                ELSE released

Asked == requests < MaxRequests /\ requests' = requests + 1

Now(e) == Asked /\ row' = e /\ Release(e) /\ UNCHANGED <<profile, late, voices>>

EditSpoken == CanEditSpoken(row, profile) /\ \E v \in Version : Now(SpokenEdited(row, profile, v))

ApproveSpoken ==
  CanApproveSpoken(row, profile) /\ Now([row EXCEPT !.spoken.status = "approved"])

AddBeat ==
  /\ row.plan.status # "none" /\ Len(row.plan.beats) < MaxBeats
  /\ \E k \in 1..Len(row.plan.beats) + 1, media \in Media :
       Suits(row, media) /\ Now(BeatAdded(row, k, media))

RemoveBeat == \E k \in DOMAIN row.plan.beats : Now(BeatRemoved(row, k))

TrimBeat ==
  \E k \in DOMAIN row.plan.beats, media \in Media \ {"none"}, range \in Trim \cup {0} :
    /\ Suits(row, media)
    /\ media = "still" => range = 0
    /\ Now(BeatTrimmed(row, k, media, range))

Approve == CanApprove(row) /\ Now(Approved(row))

Restore == \E i \in DOMAIN row.revisions : Now(Restored(row, i))

\* Another narrator, another pace, or another pronunciation policy.
ChangeProfile ==
  /\ Asked
  /\ profile' \in Profile \ {profile}
  /\ UNCHANGED <<row, late, released, voices>>

-----------------------------------------------------------------------------
\* A request that waits has loaded the episode, and saves it later.
Load ==
  /\ ~late.busy /\ Asked
  /\ late' = [busy |-> TRUE, e |-> row, p |-> profile]
  /\ UNCHANGED <<row, profile, released, voices>>

Outcomes(e, p) ==
  SpokenPrepared(e, p) \cup SourcesAssessed(e) \cup ExcerptsVerified(e)
    \cup UNION {PlanPrepared(e, again) \cup TimingPrepared(e, p, again)
                   \cup Produced(e, p, again, TRUE) \cup Produced(e, p, again, FALSE) :
                 again \in BOOLEAN}

Saved(e) == row' = e /\ Release(e) /\ voices' = Max({voices, e.narration.id})

\* It saved before anybody else did, or only now.
Prompt ==
  /\ Asked
  /\ \E e \in Outcomes(row, profile) : Saved(e)
  /\ UNCHANGED <<profile, late>>

Late ==
  /\ late.busy /\ Asked
  /\ \E e \in Outcomes(late.e, late.p) : Saved(e)
  /\ late' = NobodyLate
  /\ UNCHANGED profile

Next ==
  \/ EditSpoken \/ ApproveSpoken \/ AddBeat \/ RemoveBeat \/ TrimBeat
  \/ Approve \/ Restore \/ ChangeProfile \/ Load \/ Prompt \/ Late

Spec == Init /\ [][Next]_vars

-----------------------------------------------------------------------------
(***************************************************************************)
(* Nothing is recorded before its review: with a pronunciation policy the  *)
(* narrator has only ever spoken a text that was approved for its script   *)
(* under the very policy of the recording, whatever was edited, changed or *)
(* saved over meanwhile.                                                   *)
(***************************************************************************)
NarrationReleased ==
  row.narration.policy.spoken =>
    [text |-> row.narration.text, policy |-> row.narration.policy] \in released

(***************************************************************************)
(* The visuals of a render were planned for the words it speaks, however   *)
(* drafts, restored plans and new measurements followed one another.       *)
(***************************************************************************)
RenderTellsItsPlan == row.render.script = row.render.text.script

(***************************************************************************)
(* "The editor's verified video in/out points remain authoritative ...     *)
(* only the final rendered excerpt may be shortened at render time", and   *)
(* every excerpt was verified people-free (the docstrings of               *)
(* _apply_verified_manual_excerpt_timing and                               *)
(* _verify_people_free_video_windows).  The trims do not hold where a new  *)
(* measurement of about the same length took back the demand for a review. *)
(***************************************************************************)
ExcerptsReviewed ==
  \A k \in DOMAIN row.render.beats :
    LET b == row.render.beats[k]
    IN /\ (b.media = "video" /\ ExcludePeople) => b.free
       /\ (b.manual = "verified" /\ k < Len(row.render.beats) /\ ~row.render.remeasured)
            => b.dur = b.range

(***************************************************************************)
(* A plan that stands approved, and was measured with the recording in     *)
(* use, is too short for it by no more than the tolerance, so that a       *)
(* production fails for that reason only then: recordings that drift by    *)
(* less than the tolerance do not add up.  A plan that was emptied is      *)
(* filled up to the configured duration instead.                           *)
(***************************************************************************)
ApprovedFits ==
  (/\ row.plan.status = "approved" /\ row.plan.timing.voice = row.narration.id
   /\ ~row.plan.emptied)
  => Planned(row.plan) + Tolerance >= row.narration.dur

Episode ==
  [script : {0} \cup Script, polished : BOOLEAN,
   spoken : [status : {"none", "review_required", "approved"},
             text : [script : Nat, version : Nat], policy : [spoken : BOOLEAN,
             review : BOOLEAN, words : Nat]],
   narration : [id : 0..MaxVoices, text : [script : Nat, version : Nat], voice : Nat,
                policy : [spoken : BOOLEAN, review : BOOLEAN, words : Nat], dur : Nat],
   plan : Plan, revisions : Seq(Plan), still : {"unassessed", "free", "people"},
   render : [text : [script : Nat, version : Nat], script : Nat, beats : Seq(Beat),
             remeasured : BOOLEAN]]

TypeOK ==
  /\ row \in Episode /\ Len(row.revisions) <= Kept
  /\ profile \in Profile /\ late.e \in Episode /\ late.p \in Profile
  /\ voices \in 0..MaxVoices /\ requests \in 0..MaxRequests

=============================================================================
