---------------------------- MODULE PrimerProofs ----------------------------
(***************************************************************************)
(* NarrationReleased, RenderTellsItsPlan, ExcerptsReviewed, ApprovedFits   *)
(* and the types, for any scripts, profiles, durations and numbers of      *)
(* requests.  A request that waits saves the copy it loaded over whatever  *)
(* came since, so both invariants are properties of an episode (Sound,     *)
(* Fits) that hold of the row and of that copy.  What was released stays   *)
(* released and what was recorded keeps its length, so an older copy stays *)
(* sound and keeps fitting.                                                *)
(***************************************************************************)
EXTENDS Primer, SequenceTheorems, FiniteSetTheorems, WellFoundedInduction, TLAPS

Fields ==
  {"script", "polished", "spoken", "narration", "plan", "revisions", "still", "render"}
PlanFields == {"beats", "target", "status", "script", "timing", "emptied", "remeasured"}
SpokenFields == {"status", "text", "policy"}

Planlike(S) == \A r \in S : DOMAIN r = PlanFields

Shaped(e) ==
  /\ DOMAIN e = Fields
  /\ DOMAIN e.spoken = SpokenFields
  /\ e.spoken.status \in {"none", "review_required", "approved"}
  /\ DOMAIN e.plan = PlanFields
  /\ \E S : e.revisions \in Seq(S) /\ Planlike(S)

\* What was recorded was released, and the render speaks of what it shows.
Told(e, R) ==
  /\ Shaped(e)
  /\ e.narration.policy.spoken =>
       [text |-> e.narration.text, policy |-> e.narration.policy] \in R
  /\ e.render.script = e.render.text.script

Sound(e, R) ==
  /\ Told(e, R)
  /\ e.spoken.status = "approved" =>
       [text |-> e.spoken.text, policy |-> e.spoken.policy] \in R

IInv == Sound(row, released) /\ Sound(late.e, released)

\* f is e after work on the plan: no other recording, and no other render.
KeptBy(e, f) ==
  /\ Shaped(f)
  /\ f.spoken = e.spoken
  /\ f.narration = e.narration
  /\ f.render = e.render \/ f.render = NoRender

SameScripts(e, f) == f.script = e.script /\ f.plan.script = e.plan.script

(* Work on the plan tells nothing new.                                     *)
LEMMA KeptTold ==
  ASSUME NEW e, NEW f, NEW R, Told(e, R), KeptBy(e, f)
  PROVE  Told(f, R)
  BY DEF Told, KeptBy, NoRender, NoText

(* Two steps of work on the plan are one.                                  *)
LEMMA KeptTransitive ==
  ASSUME NEW e, NEW f, NEW g, KeptBy(e, f), KeptBy(f, g)
  PROVE  KeptBy(e, g)
  BY DEF KeptBy

(* A change of the plan alone, by its fields.                              *)
LEMMA PlanChanged ==
  ASSUME NEW e, NEW f, Shaped(e),
         DOMAIN f = Fields, DOMAIN f.plan = PlanFields,
         f.spoken = e.spoken, f.narration = e.narration, f.revisions = e.revisions,
         f.render = e.render \/ f.render = NoRender
  PROVE  KeptBy(e, f)
  BY DEF Shaped, KeptBy

(* Settling the status of the plan is work on the plan.                    *)
LEMMA ForReviewKept ==
  ASSUME NEW e, Shaped(e)
  PROVE  KeptBy(e, ForReview(e)) /\ SameScripts(e, ForReview(e))
<1> DEFINE f == ForReview(e)
<1> SUFFICES KeptBy(e, f) /\ SameScripts(e, f)
  OBVIOUS
<1>1. /\ DOMAIN f = Fields /\ DOMAIN f.plan = PlanFields
      /\ f.spoken = e.spoken /\ f.narration = e.narration /\ f.revisions = e.revisions
      /\ f.render = e.render /\ f.script = e.script /\ f.plan.script = e.plan.script
  BY DEF ForReview, Shaped, Fields, PlanFields
<1> HIDE DEF f
<1> QED
  BY <1>1, PlanChanged DEF SameScripts

(* The archive holds plans.                                                *)
LEMMA ArchivedKept ==
  ASSUME NEW e, Shaped(e)
  PROVE  /\ KeptBy(e, Archived(e)) /\ Archived(e).plan = e.plan
         /\ Archived(e).script = e.script
<1> DEFINE r == e.revisions
           all == Append(r, e.plan)
           m == Len(all) - Kept + 1
           first == Max({1, m})
           s == SubSeq(all, first, Len(all))
<1>1. CASE Archived(e) = e
  BY <1>1 DEF KeptBy
<1>2. CASE Archived(e) = [e EXCEPT !.revisions = s]
  <2>1. PICK S : r \in Seq(S) /\ Planlike(S)
    BY DEF Shaped
  <2> DEFINE T == S \cup {e.plan}
  <2>2. Planlike(T) /\ all \in Seq(T) /\ Len(all) \in Nat
    BY <2>1 DEF Shaped, Planlike
  <2>3. m \in Int
    BY <2>2, DurationAssumption
  <2> HIDE DEF T, all, m
  <2>4. first \in Int /\ first >= 1
    BY <2>3 DEF Max
  <2> HIDE DEF first
  <2>5. s \in Seq(T)
    BY <2>2, <2>4, SubSeqProperties
  <2> HIDE DEF s
  <2>6. Shaped(Archived(e))
    BY <1>2, <2>2, <2>5 DEF Shaped, Fields
  <2> QED
    BY <1>2, <2>6 DEF KeptBy, Shaped, Fields
<1> QED
  BY <1>1, <1>2 DEF Archived

(* A new measurement retimes the plan and takes the render back.           *)
LEMMA SynchronisedKept ==
  ASSUME NEW e, NEW n, Shaped(e)
  PROVE  KeptBy(e, Synchronised(e, n)) /\ SameScripts(e, Synchronised(e, n))
<1> DEFINE f == Synchronised(e, n)
<1> SUFFICES KeptBy(e, f) /\ SameScripts(e, f)
  OBVIOUS
<1>1. CASE f = e
  BY <1>1 DEF KeptBy, SameScripts
<1>2. CASE \E x, y : f = [e EXCEPT !.plan.timing = x, !.plan.remeasured = y]
  <2> HIDE DEF f
  <2>2. PICK x, y : f = [e EXCEPT !.plan.timing = x, !.plan.remeasured = y]
    BY <1>2
  <2>1. /\ DOMAIN f = Fields /\ DOMAIN f.plan = PlanFields
        /\ f.spoken = e.spoken /\ f.narration = e.narration /\ f.revisions = e.revisions
        /\ f.render = e.render /\ f.script = e.script /\ f.plan.script = e.plan.script
    BY <2>2 DEF Shaped, Fields, PlanFields
  <2> QED
    BY <2>1, PlanChanged DEF SameScripts
<1>3. CASE \E b, x, y, z : f = ForReview([Archived(e) EXCEPT !.plan.beats = b,
               !.plan.target = x, !.plan.timing = y, !.plan.remeasured = z, !.render = NoRender])
  <2> DEFINE a == Archived(e)
  <2>1. PICK b, x, y, z : f = ForReview([a EXCEPT !.plan.beats = b,
               !.plan.target = x, !.plan.timing = y, !.plan.remeasured = z, !.render = NoRender])
    BY <1>3
  <2> HIDE DEF f
  <2> DEFINE g == [a EXCEPT !.plan.beats = b,
               !.plan.target = x, !.plan.timing = y, !.plan.remeasured = z, !.render = NoRender]
  <2>2. KeptBy(e, a) /\ Shaped(a) /\ SameScripts(e, a)
    BY ArchivedKept DEF KeptBy, SameScripts
  <2> HIDE DEF a
  <2>3. /\ DOMAIN g = Fields /\ DOMAIN g.plan = PlanFields
        /\ g.spoken = a.spoken /\ g.narration = a.narration /\ g.revisions = a.revisions
        /\ g.render = NoRender /\ g.script = a.script /\ g.plan.script = a.plan.script
    BY <2>2 DEF Shaped, Fields, PlanFields
  <2>4. f = ForReview(g)
    BY <2>1
  <2> HIDE DEF g
  <2>5. KeptBy(a, g) /\ Shaped(g) /\ SameScripts(a, g)
    BY <2>2, <2>3, PlanChanged DEF SameScripts, KeptBy
  <2>6. KeptBy(g, f) /\ SameScripts(g, f)
    BY <2>4, <2>5, ForReviewKept
  <2> QED
    BY <2>2, <2>5, <2>6, KeptTransitive DEF SameScripts
<1> QED
  BY <1>1, <1>2, <1>3 DEF Synchronised

(* What may be spoken is released, and speaks of the script.               *)
LEMMA SpokenTextReleased ==
  ASSUME NEW e, NEW p, NEW R, Sound(e, R), SpokenReady(e, p)
  PROVE  /\ p.spoken => [text |-> SpokenText(e, p), policy |-> Policy(p)] \in R
         /\ SpokenText(e, p).script = e.script
<1>1. CASE p.spoken
  <2>1. /\ e.spoken.status = "approved" /\ e.spoken.policy = Policy(p)
        /\ e.spoken.text.script = e.script
    BY <1>1 DEF SpokenReady, SpokenStatus, Usable, Sound, Told, Shaped
  <2> QED
    BY <1>1, <2>1 DEF SpokenText, Sound
<1>2. CASE ~p.spoken
  BY <1>2 DEF SpokenText
<1> QED
  BY <1>1, <1>2

(* The recording that is kept or made was released.                        *)
LEMMA RecordedTold ==
  ASSUME NEW e, NEW p, NEW R, Sound(e, R), SpokenReady(e, p),
         NEW reuse, NEW n \in Recordings(e, p, reuse)
  PROVE  /\ Told([e EXCEPT !.narration = n], R)
         /\ SameScripts(e, [e EXCEPT !.narration = n])
         /\ n.text.script = e.script
<1> DEFINE f == [e EXCEPT !.narration = n]
           t == SpokenText(e, p)
<1>1. /\ DOMAIN f = Fields /\ f.narration = n
      /\ f.spoken = e.spoken /\ f.plan = e.plan /\ f.revisions = e.revisions
      /\ f.render = e.render /\ f.script = e.script
  BY DEF Sound, Told, Shaped, Fields
<1>2. Shaped(f) /\ SameScripts(e, f)
  BY <1>1 DEF Sound, Told, Shaped, SameScripts
<1>3. t.script = e.script
  BY SpokenTextReleased
<1>4. CASE n = e.narration /\ n.text = t
  <2> HIDE DEF f, t
  <2>1. Told(f, R)
    BY <1>1, <1>2, <1>4 DEF Sound, Told
  <2> QED
    BY <1>2, <1>3, <1>4, <2>1 DEF f
<1>5. CASE \E id, d : n = [id |-> id, text |-> t, voice |-> p.voice,
                          policy |-> Policy(p), dur |-> d]
  <2> HIDE DEF t
  <2>1. n.text = t /\ n.policy = Policy(p)
    BY <1>5
  <2>2. n.policy.spoken = p.spoken
    BY <2>1 DEF Policy
  <2> QED
    BY <1>1, <1>2, <2>1, <2>2, SpokenTextReleased DEF Sound, Told, t
<1>6. \/ n = e.narration /\ n.text = t
      \/ \E id, d : n = [id |-> id, text |-> t, voice |-> p.voice,
                         policy |-> Policy(p), dur |-> d]
  <2>1. \/ n \in {e.narration} /\ Reusable(e, p)
        \/ n \in {[id |-> voices + 1, text |-> t, voice |-> p.voice,
                  policy |-> Policy(p), dur |-> d] : d \in Length}
    BY DEF Recordings
  <2> QED
    BY <2>1 DEF Reusable
<1> QED
  BY <1>4, <1>5, <1>6

(* It is measured.                                                         *)
LEMMA MeasuredTold ==
  ASSUME NEW e, NEW p, NEW R, Sound(e, R), SpokenReady(e, p),
         NEW reuse, NEW n \in Recordings(e, p, reuse),
         NEW f, f = Synchronised([e EXCEPT !.narration = n], n)
  PROVE  Told(f, R) /\ SameScripts(e, f) /\ n.text.script = e.script
<1> DEFINE g == [e EXCEPT !.narration = n]
<1>1. Told(g, R) /\ SameScripts(e, g) /\ n.text.script = e.script
  BY RecordedTold
<1> HIDE DEF g
<1>2. KeptBy(g, f) /\ SameScripts(g, f)
  BY <1>1, SynchronisedKept DEF g, Told
<1> QED
  BY <1>1, <1>2, KeptTold DEF SameScripts

(* prepare_spoken_script                                                   *)
LEMMA SpokenPreparedTold ==
  ASSUME NEW e, NEW p, NEW R, Told(e, R), NEW f \in SpokenPrepared(e, p)
  PROVE  Told(f, R)
<1>1. CASE f = e
  BY <1>1
<1>2. CASE \E s, t, q : /\ s \in {"review_required", "approved"}
                       /\ f = [e EXCEPT !.spoken = [status |-> s, text |-> t, policy |-> q]]
  <2>1. PICK s, t, q : /\ s \in {"review_required", "approved"}
                       /\ f = [e EXCEPT !.spoken = [status |-> s, text |-> t, policy |-> q]]
    BY <1>2
  <2>2. /\ DOMAIN f = Fields /\ f.spoken = [status |-> s, text |-> t, policy |-> q]
        /\ f.narration = e.narration /\ f.plan = e.plan /\ f.revisions = e.revisions
        /\ f.render = e.render
    BY <2>1 DEF Told, Shaped, Fields
  <2> QED
    BY <2>1, <2>2 DEF Told, Shaped, SpokenFields
<1> QED
  BY <1>1, <1>2 DEF SpokenPrepared

(* A restart of the plan from a draft.                                     *)
LEMMA NewPlansKept ==
  ASSUME NEW e, Shaped(e), NEW f \in NewPlans(e)
  PROVE  KeptBy(e, f)
<1> DEFINE a == Archived(e)
<1>1. KeptBy(e, a) /\ Shaped(a)
  BY ArchivedKept DEF KeptBy
<1>2. PICK b, s : f = ForReview([a EXCEPT !.plan = [NoPlan EXCEPT !.script = s, !.beats = b]])
  BY DEF NewPlans
<1> DEFINE g == [a EXCEPT !.plan = [NoPlan EXCEPT !.script = s, !.beats = b]]
<1> HIDE DEF a
<1>3. /\ DOMAIN g = Fields /\ g.spoken = a.spoken /\ g.narration = a.narration
      /\ g.revisions = a.revisions /\ g.render = a.render
      /\ DOMAIN g.plan = PlanFields
  BY <1>1 DEF Shaped, Fields, PlanFields, NoPlan
<1>4. f = ForReview(g)
  BY <1>2
<1> HIDE DEF g
<1>5. KeptBy(a, g) /\ Shaped(g)
  BY <1>1, <1>3, PlanChanged DEF KeptBy
<1> QED
  BY <1>1, <1>4, <1>5, ForReviewKept, KeptTransitive

(* prepare_visual_plan                                                     *)
LEMMA PlanPreparedKept ==
  ASSUME NEW e, Shaped(e), NEW replace, NEW f \in PlanPrepared(e, replace)
  PROVE  KeptBy(e, f)
<1>1. CASE f = e
  BY <1>1 DEF KeptBy
<1>2. CASE f = DraftFailed(e)
  <2>1. /\ DOMAIN f = Fields /\ f.spoken = e.spoken /\ f.narration = e.narration
        /\ f.plan = e.plan /\ f.revisions = e.revisions /\ f.render = e.render
    BY <1>2 DEF DraftFailed, Shaped, Fields
  <2> QED
    BY <2>1 DEF KeptBy, Shaped
<1>3. ASSUME NEW s, NEW g \in Drafted(e, s), f \in NewPlans(g) PROVE KeptBy(e, f)
  <2>1. PICK still : g = [e EXCEPT !.script = s, !.polished = TRUE, !.still = still]
    BY DEF Drafted
  <2>2. /\ DOMAIN g = Fields /\ g.spoken = e.spoken /\ g.narration = e.narration
        /\ g.plan = e.plan /\ g.revisions = e.revisions /\ g.render = e.render
    BY <2>1 DEF Shaped, Fields
  <2>3. KeptBy(e, g) /\ Shaped(g)
    BY <2>2 DEF KeptBy, Shaped
  <2> QED
    BY <1>3, <2>3, NewPlansKept, KeptTransitive
<1> QED
  BY <1>1, <1>2, <1>3 DEF PlanPrepared

(* prepare_narration_timing                                                *)
LEMMA TimingPreparedTold ==
  ASSUME NEW e, NEW p, NEW R, Sound(e, R), NEW regenerate,
         NEW f \in TimingPrepared(e, p, regenerate)
  PROVE  Told(f, R)
<1>1. CASE f = e
  BY <1>1 DEF Sound
<1>2. ASSUME SpokenReady(e, p), NEW n \in Recordings(e, p, ~regenerate),
             f = Synchronised([e EXCEPT !.narration = n], n)
      PROVE  Told(f, R)
  BY <1>2, MeasuredTold
<1> QED
  BY <1>1, <1>2 DEF TimingPrepared

(* verify_visual_plan_excerpts                                             *)
LEMMA ExcerptsVerifiedKept ==
  ASSUME NEW e, Shaped(e), NEW f \in ExcerptsVerified(e)
  PROVE  KeptBy(e, f)
<1>1. PICK F : f = ForReview([Archived(Looked(e, F)) EXCEPT
                 !.plan.beats = [k \in DOMAIN @ |-> TrimApplied(@[k])],
                 !.plan.timing.review = FALSE, !.plan.remeasured = FALSE])
  BY DEF ExcerptsVerified
<1> DEFINE l == Looked(e, F)
           a == Archived(l)
           g == [a EXCEPT !.plan.beats = [k \in DOMAIN @ |-> TrimApplied(@[k])],
                          !.plan.timing.review = FALSE, !.plan.remeasured = FALSE]
<1>2. /\ DOMAIN l = Fields /\ l.spoken = e.spoken /\ l.narration = e.narration
      /\ l.revisions = e.revisions /\ l.render = e.render /\ DOMAIN l.plan = PlanFields
  BY DEF Looked, Shaped, Fields, PlanFields
<1>3. f = ForReview(g)
  BY <1>1
<1> HIDE DEF l
<1>4. KeptBy(e, l) /\ Shaped(l)
  BY <1>2, PlanChanged DEF KeptBy
<1>5. KeptBy(l, a) /\ Shaped(a)
  BY <1>4, ArchivedKept DEF KeptBy
<1> HIDE DEF a
<1>6. /\ DOMAIN g = Fields /\ g.spoken = a.spoken /\ g.narration = a.narration
      /\ g.revisions = a.revisions /\ g.render = a.render /\ DOMAIN g.plan = PlanFields
  BY <1>5 DEF Shaped, Fields, PlanFields
<1> HIDE DEF g
<1>7. KeptBy(a, g) /\ Shaped(g)
  BY <1>5, <1>6, PlanChanged DEF KeptBy
<1>8. KeptBy(g, f)
  BY <1>3, <1>7, ForReviewKept
<1> QED
  BY <1>4, <1>5, <1>7, <1>8, KeptTransitive

(* assess_visual_plan_source_media                                         *)
LEMMA SourcesAssessedKept ==
  ASSUME NEW e, Shaped(e), NEW f \in SourcesAssessed(e)
  PROVE  KeptBy(e, f)
<1> DEFINE a == Archived(e)
<1>1. KeptBy(e, a) /\ Shaped(a)
  BY ArchivedKept DEF KeptBy
<1>2. PICK still : f = IF e.plan.beats = <<>> \/ e.plan.status = "approved"
                         THEN [a EXCEPT !.still = still]
                         ELSE ForReview([a EXCEPT !.still = still])
  BY DEF SourcesAssessed
<1> DEFINE g == [a EXCEPT !.still = still]
<1>3. f = g \/ f = ForReview(g)
  BY <1>2
<1> HIDE DEF a
<1>4. /\ DOMAIN g = Fields /\ g.spoken = a.spoken /\ g.narration = a.narration
      /\ g.revisions = a.revisions /\ g.render = a.render /\ g.plan = a.plan
  BY <1>1 DEF Shaped, Fields
<1> HIDE DEF g
<1>5. KeptBy(a, g) /\ Shaped(g)
  BY <1>1, <1>4 DEF KeptBy, Shaped
<1> QED
  BY <1>1, <1>3, <1>5, ForReviewKept, KeptTransitive

(* produce                                                                 *)
LEMMA ProducedTold ==
  ASSUME NEW e, NEW p, NEW R, Sound(e, R), NEW regenerate, NEW reuse,
         NEW f \in Produced(e, p, regenerate, reuse)
  PROVE  Told(f, R)
<1>1. CASE f = e
  BY <1>1 DEF Sound
<1>2. CASE \E status : f = [e EXCEPT !.plan.status = status]
  <2>1. PICK status : f = [e EXCEPT !.plan.status = status]
    BY <1>2
  <2>2. /\ DOMAIN f = Fields /\ f.spoken = e.spoken /\ f.narration = e.narration
        /\ f.revisions = e.revisions /\ f.render = e.render /\ DOMAIN f.plan = PlanFields
    BY <2>1 DEF Sound, Told, Shaped, Fields, PlanFields
  <2> QED
    BY <2>2, PlanChanged, KeptTold DEF Sound, Told
<1>3. ASSUME CanProduce(e, p), NEW n \in Recordings(e, p, reuse),
             NEW g, g = Synchronised([e EXCEPT !.narration = n], n),
             f = g \/ f = Rendered(g, n)
      PROVE  Told(f, R)
  <2>1. Told(g, R) /\ SameScripts(e, g) /\ n.text.script = e.script
    BY <1>3, MeasuredTold DEF CanProduce
  <2>2. g.plan.script = n.text.script
    BY <1>3, <2>1 DEF SameScripts, CanProduce
  <2>3. CASE f = Rendered(g, n)
    <3>1. /\ DOMAIN f = Fields /\ f.spoken = g.spoken /\ f.narration = g.narration
          /\ f.plan = g.plan /\ f.revisions = g.revisions
          /\ f.render.script = g.plan.script /\ f.render.text = n.text
      BY <2>1, <2>3 DEF Rendered, Told, Shaped, Fields
    <3> QED
      BY <2>1, <2>2, <3>1 DEF Told, Shaped
  <2> QED
    BY <1>3, <2>1, <2>3
<1> QED
  BY <1>1, <1>2, <1>3 DEF Produced

(* Whatever a request that waits saves is told.                            *)
LEMMA OutcomesTold ==
  ASSUME NEW e, NEW p, NEW R, Sound(e, R), NEW f \in Outcomes(e, p)
  PROVE  Told(f, R)
<1>1. Told(e, R) /\ Shaped(e)
  BY DEF Sound, Told
<1>2. CASE f \in SpokenPrepared(e, p)
  BY <1>1, <1>2, SpokenPreparedTold
<1>3. CASE f \in SourcesAssessed(e)
  BY <1>1, <1>3, SourcesAssessedKept, KeptTold
<1>4. CASE f \in ExcerptsVerified(e)
  BY <1>1, <1>4, ExcerptsVerifiedKept, KeptTold
<1>5. ASSUME NEW flag, f \in PlanPrepared(e, flag) PROVE Told(f, R)
  BY <1>1, <1>5, PlanPreparedKept, KeptTold
<1>6. ASSUME NEW flag, f \in TimingPrepared(e, p, flag) PROVE Told(f, R)
  BY <1>6, TimingPreparedTold
<1>7. ASSUME NEW regenerate, NEW reuse, f \in Produced(e, p, regenerate, reuse) PROVE Told(f, R)
  BY <1>7, ProducedTold
<1> QED
  BY <1>2, <1>3, <1>4, <1>5, <1>6, <1>7 DEF Outcomes

-----------------------------------------------------------------------------
(* What a save tells was released then or before.                          *)
LEMMA SaveSound ==
  ASSUME NEW e, Told(e, released), Release(e)
  PROVE  Sound(e, released') /\ released \subseteq released'
<1>1. released \subseteq released'
  BY DEF Release
<1> QED
  BY <1>1 DEF Release, Sound, Told

(* What was released stays released.                                       *)
LEMMA SoundGrows ==
  ASSUME NEW e, NEW R, NEW Q, Sound(e, R), R \subseteq Q
  PROVE  Sound(e, Q)
  BY DEF Sound, Told

(* A request that loads and saves in one step.                             *)
LEMMA NowKeeps ==
  ASSUME IInv, NEW e, Now(e), Told(e, released)
  PROVE  IInv'
<1>1. row' = e /\ late' = late /\ Release(e)
  BY DEF Now
<1>2. Sound(e, released') /\ released \subseteq released'
  BY <1>1, SaveSound
<1>3. Sound(late.e, released')
  BY <1>2, SoundGrows DEF IInv
<1> QED
  BY <1>1, <1>2, <1>3 DEF IInv

(* A new episode tells nothing.                                            *)
LEMMA NewEpisodeSound ==
  ASSUME NEW R
  PROVE  Sound(NewEpisode, R)
<1> DEFINE e == NewEpisode
<1> SUFFICES Sound(e, R)
  OBVIOUS
<1>1. /\ DOMAIN e = Fields /\ DOMAIN e.spoken = SpokenFields /\ DOMAIN e.plan = PlanFields
      /\ e.spoken.status = "none" /\ e.revisions = <<>>
      /\ e.narration.policy.spoken = FALSE /\ e.render = NoRender
  BY DEF NewEpisode, Fields, SpokenFields, PlanFields, NoPlan, NoVoice, NoPolicy
<1> HIDE DEF e
<1>2. <<>> \in Seq({}) /\ Planlike({})
  BY DEF Planlike
<1>3. Shaped(e)
  BY <1>1, <1>2 DEF Shaped
<1> QED
  BY <1>1, <1>3 DEF Sound, Told, NoRender, NoText

(* The invariant holds at first.                                           *)
LEMMA InitIInv == Init => IInv
  BY NewEpisodeSound DEF Init, IInv, NobodyLate

(* Every step keeps it, one case for each action.                          *)
LEMMA NextIInv == IInv /\ [Next]_vars => IInv'
<1> SUFFICES ASSUME IInv, [Next]_vars PROVE IInv'
  OBVIOUS
<1>0. Told(row, released) /\ Shaped(row) /\ KeptBy(row, row)
  BY DEF IInv, Sound, Told, KeptBy
<1> DEFINE a == Archived(row)
<1>a. KeptBy(row, a) /\ Shaped(a) /\ a.plan = row.plan
  BY <1>0, ArchivedKept DEF KeptBy
<1> HIDE DEF a
<1>b. ASSUME NEW g, DOMAIN g = Fields, DOMAIN g.plan = PlanFields,
             g.spoken = a.spoken, g.narration = a.narration, g.revisions = a.revisions,
             g.render = a.render
      PROVE  Told(g, released) /\ Told(ForReview(g), released)
  <2>1. KeptBy(a, g) /\ Shaped(g)
    BY <1>a, <1>b, PlanChanged DEF KeptBy
  <2> QED
    BY <1>0, <1>a, <2>1, ForReviewKept, KeptTold, KeptTransitive
<1>1. CASE EditSpoken
  <2>1. PICK v : Now(SpokenEdited(row, profile, v))
    BY <1>1 DEF EditSpoken
  <2> DEFINE f == SpokenEdited(row, profile, v)
  <2>2. /\ DOMAIN f = Fields /\ f.narration = row.narration /\ f.plan = row.plan
        /\ f.revisions = row.revisions /\ f.render = row.render
        /\ DOMAIN f.spoken = SpokenFields /\ f.spoken.status = "review_required"
    BY <1>0 DEF SpokenEdited, Shaped, Fields, SpokenFields
  <2> HIDE DEF f
  <2>3. Told(f, released)
    BY <1>0, <2>2 DEF Told, Shaped
  <2> QED
    BY <2>1, <2>3, NowKeeps DEF f
<1>2. CASE ApproveSpoken
  <2> DEFINE f == [row EXCEPT !.spoken.status = "approved"]
  <2>1. Now(f)
    BY <1>2 DEF ApproveSpoken
  <2>2. /\ DOMAIN f = Fields /\ f.narration = row.narration /\ f.plan = row.plan
        /\ f.revisions = row.revisions /\ f.render = row.render
        /\ DOMAIN f.spoken = SpokenFields /\ f.spoken.status = "approved"
    BY <1>0 DEF Shaped, Fields, SpokenFields
  <2> HIDE DEF f
  <2>3. Told(f, released)
    BY <1>0, <2>2 DEF Told, Shaped
  <2> QED
    BY <2>1, <2>3, NowKeeps
<1>3. CASE AddBeat
  <2>1. PICK k, media : Now(BeatAdded(row, k, media))
    BY <1>3 DEF AddBeat
  <2>2. PICK b, t : BeatAdded(row, k, media) =
                      ForReview([a EXCEPT !.plan.beats = b, !.plan.target = t])
    BY DEF BeatAdded, a
  <2> DEFINE g == [a EXCEPT !.plan.beats = b, !.plan.target = t]
  <2>3. /\ DOMAIN g = Fields /\ g.spoken = a.spoken /\ g.narration = a.narration
        /\ g.revisions = a.revisions /\ g.render = a.render /\ DOMAIN g.plan = PlanFields
    BY <1>a DEF Shaped, Fields, PlanFields
  <2>4. BeatAdded(row, k, media) = ForReview(g)
    BY <2>2
  <2> HIDE DEF g
  <2>5. Told(BeatAdded(row, k, media), released)
    BY <1>b, <2>3, <2>4
  <2> QED
    BY <2>1, <2>5, NowKeeps
<1>4. CASE RemoveBeat
  <2>1. PICK k : Now(BeatRemoved(row, k))
    BY <1>4 DEF RemoveBeat
  <2>2. PICK b, t : BeatRemoved(row, k) =
                      ForReview([a EXCEPT !.plan.beats = b, !.plan.emptied = t])
    BY DEF BeatRemoved, a
  <2> DEFINE g == [a EXCEPT !.plan.beats = b, !.plan.emptied = t]
  <2>3. /\ DOMAIN g = Fields /\ g.spoken = a.spoken /\ g.narration = a.narration
        /\ g.revisions = a.revisions /\ g.render = a.render /\ DOMAIN g.plan = PlanFields
    BY <1>a DEF Shaped, Fields, PlanFields
  <2>4. BeatRemoved(row, k) = ForReview(g)
    BY <2>2
  <2> HIDE DEF g
  <2>5. Told(BeatRemoved(row, k), released)
    BY <1>b, <2>3, <2>4
  <2> QED
    BY <2>1, <2>5, NowKeeps
<1>5. CASE TrimBeat
  <2>1. PICK k, media, range : Now(BeatTrimmed(row, k, media, range))
    BY <1>5 DEF TrimBeat
  <2>2. PICK b : BeatTrimmed(row, k, media, range) = ForReview([a EXCEPT !.plan.beats = b])
    BY DEF BeatTrimmed, a
  <2> DEFINE g == [a EXCEPT !.plan.beats = b]
  <2>3. /\ DOMAIN g = Fields /\ g.spoken = a.spoken /\ g.narration = a.narration
        /\ g.revisions = a.revisions /\ g.render = a.render /\ DOMAIN g.plan = PlanFields
    BY <1>a DEF Shaped, Fields, PlanFields
  <2>4. BeatTrimmed(row, k, media, range) = ForReview(g)
    BY <2>2
  <2> HIDE DEF g
  <2>5. Told(BeatTrimmed(row, k, media, range), released)
    BY <1>b, <2>3, <2>4
  <2> QED
    BY <2>1, <2>5, NowKeeps
<1>6. CASE Approve
  <2> DEFINE g == [a EXCEPT !.plan.status = "approved"]
  <2>1. Now(g)
    BY <1>6 DEF Approve, Approved, a
  <2>2. /\ DOMAIN g = Fields /\ g.spoken = a.spoken /\ g.narration = a.narration
        /\ g.revisions = a.revisions /\ g.render = a.render /\ DOMAIN g.plan = PlanFields
    BY <1>a DEF Shaped, Fields, PlanFields
  <2> HIDE DEF g
  <2> QED
    BY <1>b, <2>1, <2>2, NowKeeps
<1>7. CASE Restore
  <2>1. PICK i \in DOMAIN row.revisions : Now(Restored(row, i))
    BY <1>7 DEF Restore
  <2> DEFINE g == [a EXCEPT !.plan = row.revisions[i]]
  <2>2. DOMAIN row.revisions[i] = PlanFields
    BY <1>0 DEF Shaped, Planlike
  <2>3. /\ DOMAIN g = Fields /\ g.spoken = a.spoken /\ g.narration = a.narration
        /\ g.revisions = a.revisions /\ g.render = a.render /\ g.plan = row.revisions[i]
    BY <1>a DEF Shaped, Fields
  <2>4. Restored(row, i) = g \/ Restored(row, i) = ForReview(g)
    BY DEF Restored, a
  <2> HIDE DEF g
  <2>5. Told(Restored(row, i), released)
    BY <1>b, <2>2, <2>3, <2>4
  <2> QED
    BY <2>1, <2>5, NowKeeps
<1>8. CASE ChangeProfile
  BY <1>8 DEF ChangeProfile, IInv
<1>9. CASE Load
  <2>1. late'.e = row
    BY <1>9 DEF Load
  <2> QED
    BY <1>9, <2>1 DEF Load, IInv
<1>10. CASE Prompt
  <2>1. PICK e \in Outcomes(row, profile) : row' = e /\ Release(e)
    BY <1>10 DEF Prompt, Saved
  <2>2. Told(e, released)
    BY OutcomesTold DEF IInv
  <2>3. Sound(e, released') /\ released \subseteq released'
    BY <2>1, <2>2, SaveSound
  <2>4. late' = late /\ Sound(late.e, released')
    BY <1>10, <2>3, SoundGrows DEF Prompt, IInv
  <2> QED
    BY <2>1, <2>3, <2>4 DEF IInv
<1>11. CASE Late
  <2>1. PICK e \in Outcomes(late.e, late.p) : row' = e /\ Release(e)
    BY <1>11 DEF Late, Saved
  <2>2. Told(e, released)
    BY OutcomesTold DEF IInv
  <2>3. Sound(e, released') /\ released \subseteq released'
    BY <2>1, <2>2, SaveSound
  <2>4. late'.e = NewEpisode
    BY <1>11 DEF Late, NobodyLate
  <2> QED
    BY <2>1, <2>3, <2>4, NewEpisodeSound DEF IInv
<1>12. CASE UNCHANGED vars
  BY <1>12 DEF vars, IInv
<1> QED
  BY <1>1, <1>2, <1>3, <1>4, <1>5, <1>6, <1>7, <1>8, <1>9, <1>10, <1>11, <1>12 DEF Next

(* With a pronunciation policy the narrator has only ever spoken what was  *)
(* approved for its script under the policy of the recording.              *)
THEOREM OnlyReleasedIsSpoken == Spec => []NarrationReleased
<1>1. IInv => NarrationReleased
  BY DEF IInv, Sound, Told, NarrationReleased
<1> QED
  BY <1>1, InitIInv, NextIInv, PTL DEF Spec

(* The visuals of a render were planned for the words it speaks.           *)
THEOREM RenderKeepsToThePlan == Spec => []RenderTellsItsPlan
<1>1. IInv => RenderTellsItsPlan
  BY DEF IInv, Sound, Told, RenderTellsItsPlan
<1> QED
  BY <1>1, InitIInv, NextIInv, PTL DEF Spec

-----------------------------------------------------------------------------
(* Durations.                                                              *)

\* Smaller naturals first.
Less == OpToRel(<, Nat)

(* Induction over the naturals, for a set of them.                         *)
LEMMA Induction ==
  ASSUME NEW T, 0 \in T, \A n \in Nat : n \in T => n + 1 \in T
  PROVE  \A n \in Nat : n \in T
<1> SUFFICES ASSUME Nat \ T # {} PROVE FALSE
  OBVIOUS
<1>1. \A m, n \in Nat : m < n => <<m, n>> \in Less
  BY DEF Less, OpToRel
<1>2. PICK n \in Nat \ T : \A m \in Nat \ T : <<m, n>> \notin Less
  <2>1. IsWellFoundedOn(Less, Nat)
    BY NatLessThanWellFounded DEF Less
  <2> QED
    BY <2>1, WFMin
<1>3. n # 0 /\ n - 1 \in Nat /\ n - 1 < n /\ n = (n - 1) + 1
  BY <1>2
<1>4. n - 1 \in T
  <2>1. <<n - 1, n>> \in Less
    BY <1>1, <1>3, Zenon
  <2> QED
    BY <1>2, <1>3, <2>1
<1> QED
  BY <1>2, <1>3, <1>4

(* The larger and the smaller of two numbers.                              *)
LEMMA LargerOf ==
  ASSUME NEW a \in Int, NEW b \in Int
  PROVE  Max({a, b}) \in {a, b} /\ Max({a, b}) >= a /\ Max({a, b}) >= b
<1>1. \E x \in {a, b} : \A y \in {a, b} : x >= y
  OBVIOUS
<1> QED
  BY <1>1 DEF Max

LEMMA AtLeastOne ==
  ASSUME NEW x \in Int
  PROVE  Max({1, x}) \in Nat /\ Max({1, x}) >= 1
<1>1. \E y \in {1, x} : \A z \in {1, x} : y >= z
  OBVIOUS
<1> QED
  BY <1>1 DEF Max

LEMMA SmallerOf ==
  ASSUME NEW a \in Int, NEW b \in Int
  PROVE  Min({a, b}) \in {a, b} /\ Min({a, b}) <= a /\ Min({a, b}) <= b
<1>1. \E x \in {a, b} : \A y \in {a, b} : x =< y
  OBVIOUS
<1> QED
  BY <1>1 DEF Min

\* f is the time at which each of the first m durations has ended.
Ends(d, f, m) == f = [k \in 0..m |-> IF k = 0 THEN 0 ELSE f[k - 1] + d[k]]

(* Such a function exists, whatever the durations.                         *)
LEMMA EndsExist ==
  ASSUME NEW d, NEW m \in Nat
  PROVE  \E f : Ends(d, f, m)
<1> DEFINE T == {k \in Nat : \E f : Ends(d, f, k)}
<1>1. 0 \in T
  <2> DEFINE f == [k \in 0..0 |-> 0]
  <2>1. \A k \in 0..0 : k = 0 /\ f[k] = 0
    OBVIOUS
  <2>2. f = [k \in 0..0 |-> IF k = 0 THEN 0 ELSE f[k - 1] + d[k]]
    BY <2>1
  <2> QED
    BY <2>2 DEF Ends
<1>2. ASSUME NEW k \in Nat, k \in T PROVE k + 1 \in T
  <2>1. PICK f : Ends(d, f, k)
    BY <1>2
  <2> DEFINE g == [n \in 0..(k + 1) |-> IF n <= k THEN f[n] ELSE f[k] + d[k + 1]]
  <2>2. ASSUME NEW n \in 0..(k + 1)
        PROVE  g[n] = IF n = 0 THEN 0 ELSE g[n - 1] + d[n]
    <3>1. CASE n = 0
      <4>1. f[0] = 0
        BY <2>1, 0 \in 0..k DEF Ends
      <4> QED
        BY <3>1, <4>1
    <3>2. CASE n # 0 /\ n <= k
      <4>1. n \in 0..k /\ n - 1 \in 0..(k + 1) /\ n - 1 <= k
        BY <3>2
      <4>2. f[n] = f[n - 1] + d[n]
        BY <2>1, <3>2, <4>1 DEF Ends
      <4>3. g[n] = f[n] /\ g[n - 1] = f[n - 1]
        BY <3>2, <4>1
      <4> QED
        BY <3>2, <4>2, <4>3
    <3>3. CASE n = k + 1
      <4>1. n - 1 = k /\ k \in 0..(k + 1) /\ ~(n <= k) /\ n # 0
        BY <3>3
      <4>2. g[n] = f[k] + d[n] /\ g[n - 1] = f[k]
        BY <3>3, <4>1
      <4> QED
        BY <4>1, <4>2
    <3> QED
      BY <3>1, <3>2, <3>3
  <2>3. g = [n \in 0..(k + 1) |-> IF n = 0 THEN 0 ELSE g[n - 1] + d[n]]
    BY <2>2
  <2>4. Ends(d, g, k + 1)
    BY <2>3 DEF Ends
  <2> QED
    BY <2>4
<1> HIDE DEF T
<1>3. m \in T
  BY <1>1, <1>2, Induction
<1> QED
  BY <1>3 DEF T

\* A sequence of durations, none of which is negative.
Durable(d) == Len(d) \in Nat /\ \A k \in 1..Len(d) : d[k] \in Nat

(* Each ends when the one before it has ended and its own time has passed. *)
LEMMA UntilIs ==
  ASSUME NEW d, Durable(d)
  PROVE  LET u == Until(d)
         IN /\ u[0] = 0 /\ Total(d) = u[Len(d)]
            /\ \A k \in 1..Len(d) : u[k] = u[k - 1] + d[k]
            /\ \A k \in 0..Len(d) : u[k] \in Nat
<1> DEFINE n == Len(d)
           u == CHOOSE f : Ends(d, f, n)
<1>1. n \in Nat /\ \A k \in 1..n : d[k] \in Nat
  BY DEF Durable
<1>2. Ends(d, u, n)
  BY <1>1, EndsExist
<1>3. Until(d) = u
  BY DEF Until, Ends
<1> HIDE DEF u, n
<1>4. u[0] = 0 /\ \A k \in 1..n : u[k] = u[k - 1] + d[k]
  <2>1. 0 \in 0..n /\ \A k \in 1..n : k \in 0..n /\ k # 0
    BY <1>1
  <2> QED
    BY <1>2, <2>1 DEF Ends
<1>5. \A k \in 0..n : u[k] \in Nat
  <2> DEFINE T == {k \in Nat : k <= n => u[k] \in Nat}
  <2>1. 0 \in T
    BY <1>4
  <2>2. ASSUME NEW k \in Nat, k \in T PROVE k + 1 \in T
    <3>1. SUFFICES ASSUME k + 1 <= n PROVE u[k + 1] \in Nat
      OBVIOUS
    <3>2. k + 1 \in 1..n /\ (k + 1) - 1 = k /\ u[k] \in Nat
      BY <1>1, <2>2, <3>1
    <3>3. u[k + 1] = u[k] + d[k + 1] /\ d[k + 1] \in Nat
      BY <1>1, <1>4, <3>2
    <3> QED
      BY <3>2, <3>3
  <2> HIDE DEF T
  <2>3. \A k \in Nat : k \in T
    BY <2>1, <2>2, Induction
  <2> QED
    BY <1>1, <2>3 DEF T
<1> QED
  BY <1>3, <1>4, <1>5 DEF Total, n

\* What starts later starts no earlier.
LEMMA UntilGrows ==
  ASSUME NEW d, Durable(d), NEW i \in 0..Len(d), NEW j \in 0..Len(d), i <= j
  PROVE  Until(d)[i] <= Until(d)[j]
<1> DEFINE n == Len(d)
           u == Until(d)
           T == {k \in Nat : i + k <= n => u[i] <= u[i + k]}
<1>1. n \in Nat /\ \A k \in 1..n : d[k] \in Nat
  BY DEF Durable
<1>2. (\A k \in 1..n : u[k] = u[k - 1] + d[k]) /\ \A k \in 0..n : u[k] \in Nat
  BY UntilIs
<1> HIDE DEF u, n
<1>3. i \in Nat /\ j \in Nat /\ i <= n /\ j <= n
  BY <1>1 DEF n
<1>4. 0 \in T
  BY <1>1, <1>2, <1>3
<1>5. ASSUME NEW k \in Nat, k \in T PROVE k + 1 \in T
  <2>1. SUFFICES ASSUME i + (k + 1) <= n PROVE u[i] <= u[i + (k + 1)]
    OBVIOUS
  <2>2. i + (k + 1) \in 1..n /\ (i + (k + 1)) - 1 = i + k /\ i + k \in 0..n /\ i \in 0..n
        /\ i + (k + 1) \in 0..n /\ i + k <= n
    BY <1>1, <1>3, <2>1
  <2>3. u[i + (k + 1)] = u[i + k] + d[i + (k + 1)] /\ d[i + (k + 1)] \in Nat
    BY <1>1, <1>2, <2>2
  <2>4. u[i] <= u[i + k]
    BY <1>5, <2>2
  <2> QED
    BY <1>2, <2>2, <2>3, <2>4
<1> HIDE DEF T
<1>6. j - i \in Nat
  BY <1>3
<1>7. j - i \in T
  BY <1>4, <1>5, <1>6, Induction
<1>8. i + (j - i) = j
  BY <1>3
<1> QED
  BY <1>3, <1>6, <1>7, <1>8 DEF T, u

(* Together they take some time.                                           *)
LEMMA TotalPositive ==
  ASSUME NEW d, Durable(d), Len(d) # 0, \A k \in 1..Len(d) : d[k] >= 1
  PROVE  Total(d) \in Nat \ {0}
<1> DEFINE n == Len(d)
           u == Until(d)
<1>1. n \in Nat \ {0} /\ d[1] \in Nat /\ d[1] >= 1 /\ 1 \in 1..n /\ 1 \in 0..n /\ n \in 0..n
  BY DEF Durable
<1>2. /\ u[0] = 0 /\ Total(d) = u[n] /\ \A k \in 1..n : u[k] = u[k - 1] + d[k]
      /\ \A k \in 0..n : u[k] \in Nat
  BY UntilIs
<1>3. u[1] <= u[n]
  BY <1>1, UntilGrows
<1> HIDE DEF u, n
<1>4. u[1] = u[0] + d[1]
  <2>1. u[1] = u[1 - 1] + d[1] /\ 1 - 1 = 0
    BY <1>1, <1>2
  <2> QED
    BY <2>1
<1>5. u[n] \in Nat
  BY <1>1, <1>2
<1> QED
  BY <1>1, <1>2, <1>3, <1>4, <1>5

(* A rounded quotient is a number.                                         *)
LEMMA RoundedIs ==
  ASSUME NEW a \in Int, NEW b \in Nat \ {0}
  PROVE  Rounded(a, b) \in Int
<1>1. a \div b \in Int
  OBVIOUS
<1> QED
  BY <1>1 DEF Rounded

\* Whatever rounding does: as many durations, none of them zero.
LEMMA RescaledIs ==
  ASSUME NEW d, Durable(d), Len(d) # 0, \A k \in 1..Len(d) : d[k] >= 1, NEW target \in Nat
  PROVE  LET r == Rescaled(d, target)
         IN DOMAIN r = 1..Len(d) /\ \A k \in 1..Len(d) : r[k] \in Nat /\ r[k] >= 1
<1> DEFINE n == Len(d)
           wanted == Max({n, target})
           S == [k \in 1..n |-> Max({1, Rounded(d[k] * wanted, Total(d))})]
           left == wanted - Total(S)
           Part(k) == Cardinality({i \in 1..Max({left, -left}) : n - ((i - 1) % n) = k})
           r == Rescaled(d, target)
<1>1. n \in Nat \ {0} /\ \A k \in 1..n : d[k] \in Nat
  BY DEF Durable
<1>2. wanted \in Nat
  <2> HIDE DEF n
  <2>1. n \in Int /\ target \in Int
    BY <1>1
  <2>2. wanted \in {n, target}
    BY <2>1, LargerOf
  <2> QED
    BY <1>1, <2>2
<1>3. Total(d) \in Nat \ {0}
  BY TotalPositive
<1>4. r = [k \in 1..n |-> IF left > 0 THEN S[k] + Part(k) ELSE Max({1, S[k] - Part(k)})]
  BY DEF Rescaled
<1> HIDE DEF r, wanted, n
<1>5. ASSUME NEW k \in 1..n PROVE S[k] \in Nat /\ S[k] >= 1
  <2> DEFINE x == Rounded(d[k] * wanted, Total(d))
  <2>1. d[k] * wanted \in Int
    BY <1>1, <1>2
  <2>2. x \in Int
    BY <1>3, <2>1, RoundedIs
  <2>3. S[k] = Max({1, x})
    OBVIOUS
  <2> HIDE DEF x, S
  <2> QED
    BY <2>2, <2>3, AtLeastOne
<1>6. Len(S) = n /\ DOMAIN S = 1..n
  BY <1>1
<1> HIDE DEF S
<1>7. left \in Int
  <2>1. Durable(S)
    BY <1>1, <1>5, <1>6 DEF Durable
  <2>2. n \in 0..n
    BY <1>1
  <2>3. Total(S) \in Nat
    BY <1>6, <2>1, <2>2, UntilIs
  <2> QED
    BY <1>2, <2>3
<1> HIDE DEF left
<1>8. ASSUME NEW k \in 1..n PROVE Part(k) \in Nat
  <2> DEFINE m == Max({left, -left})
             P == {i \in 1..m : n - ((i - 1) % n) = k}
  <2>1. -left \in Int
    BY <1>7
  <2>2. m \in Int
    <3> DEFINE other == -left
    <3> HIDE DEF other
    <3>1. Max({left, other}) \in {left, other}
      BY <1>7, <2>1, LargerOf DEF other
    <3> QED
      BY <1>7, <2>1, <3>1 DEF other
  <2> HIDE DEF m
  <2>3. IsFiniteSet(1..m) /\ P \in SUBSET (1..m)
    BY <2>2, FS_Interval
  <2>4. IsFiniteSet(P)
    BY <2>3, FS_Subset
  <2> QED
    BY <2>4, FS_CardinalityType DEF m
<1> HIDE DEF Part
<1>9. ASSUME NEW k \in 1..n PROVE r[k] \in Nat /\ r[k] >= 1
  <2>1. S[k] \in Nat /\ S[k] >= 1 /\ Part(k) \in Nat
    BY <1>5, <1>8
  <2>2. CASE left > 0
    BY <1>4, <2>1, <2>2
  <2>3. CASE ~(left > 0)
    <3> DEFINE x == S[k] - Part(k)
    <3>1. r[k] = Max({1, x}) /\ x \in Int
      BY <1>4, <2>1, <2>3
    <3> HIDE DEF x
    <3> QED
      BY <3>1, AtLeastOne
  <2> QED
    BY <2>2, <2>3
<1>10. DOMAIN r = 1..n
  BY <1>4
<1> QED
  BY <1>9, <1>10 DEF r, n

-----------------------------------------------------------------------------
(* Visuals and their timing.                                               *)

\* Verified excerpts have a length and suit the policy.
SoundBeat ==
  {b \in Beat : b.dur >= 1 /\ (b.manual = "verified" => b.range > 0 /\ (ExcludePeople => b.free))}

\* What was verified lasts as long as it was trimmed to.
TightBeat == {b \in SoundBeat : b.manual = "verified" => b.dur = b.range}

(* Every set of naturals has a least element.                              *)
LEMMA LeastExists ==
  ASSUME NEW S \in SUBSET Nat, S # {}
  PROVE  \E m \in S : \A k \in S : m <= k
<1>1. \A k, m \in Nat : k < m => <<k, m>> \in Less
  BY DEF Less, OpToRel
<1>2. PICK m \in S : \A k \in S : <<k, m>> \notin Less
  <2>1. IsWellFoundedOn(Less, Nat)
    BY NatLessThanWellFounded DEF Less
  <2> QED
    BY <2>1, WFMin
<1>3. ASSUME NEW k \in S PROVE m <= k
  <2>1. k \in Nat /\ m \in Nat /\ <<k, m>> \notin Less
    BY <1>2
  <2>2. ~(k < m)
    BY <1>1, <2>1, Zenon
  <2> QED
    BY <2>1, <2>2
<1> QED
  BY <1>3

(* The durations of sound beats.                                           *)
LEMMA DurationsAre ==
  ASSUME NEW beats \in Seq(SoundBeat)
  PROVE  LET d == Durations(beats)
         IN /\ Len(beats) \in Nat /\ Len(d) = Len(beats) /\ Durable(d)
            /\ \A k \in 1..Len(beats) : d[k] = beats[k].dur /\ d[k] >= 1
<1>1. Len(beats) \in Nat /\ DOMAIN beats = 1..Len(beats)
  OBVIOUS
<1>2. \A k \in 1..Len(beats) : beats[k].dur \in Nat /\ beats[k].dur >= 1
  BY DEF SoundBeat, Beat
<1>3. /\ Len(Durations(beats)) = Len(beats)
      /\ \A k \in 1..Len(beats) : Durations(beats)[k] = beats[k].dur
  BY <1>1 DEF Durations
<1> QED
  BY <1>1, <1>2, <1>3 DEF Durable

\* Only the last visual that is shown is cut.
LEMMA ScheduledIs ==
  ASSUME NEW beats \in Seq(SoundBeat), NEW duration \in Int
  PROVE  LET s == Scheduled(beats, duration)
         IN /\ s \in Seq(Beat) /\ DOMAIN s = 1..Len(s) /\ Len(s) <= Len(beats)
            /\ \A k \in DOMAIN s : /\ k \in DOMAIN beats
                                   /\ s[k].media = beats[k].media /\ s[k].range = beats[k].range
                                   /\ s[k].manual = beats[k].manual /\ s[k].free = beats[k].free
                                   /\ k < Len(s) => s[k].dur = beats[k].dur
<1> DEFINE n == Len(beats)
           d == Durations(beats)
           u == Until(d)
           shown == {i \in 1..n : u[i - 1] < duration}
           s == Scheduled(beats, duration)
<1>1. n \in Nat /\ DOMAIN beats = 1..n /\ \A k \in 1..n : beats[k] \in SoundBeat
  OBVIOUS
<1>2. Len(d) = n /\ Durable(d) /\ \A k \in 1..n : d[k] = beats[k].dur /\ d[k] >= 1
  BY DurationsAre
<1> HIDE DEF d
<1>3. /\ \A k \in 1..n : u[k] = u[k - 1] + beats[k].dur
      /\ \A k \in 0..n : u[k] \in Nat
      /\ \A i, j \in 0..n : i <= j => u[i] <= u[j]
  BY <1>2, UntilIs, UntilGrows
<1> HIDE DEF u
<1>4. s = [k \in shown |-> [beats[k] EXCEPT !.dur = Min({beats[k].dur, duration - u[k - 1]})]]
  BY <1>1 DEF Scheduled, SoundBeat, Beat, u, d
<1> HIDE DEF s, n
<1>5. PICK m \in 0..n : shown = 1..m
  <2> DEFINE K == {k \in Nat : k + 1 \notin shown}
  <2>1. n \in K
    BY <1>1
  <2>2. PICK m \in K : \A k \in K : m <= k
    BY <2>1, LeastExists
  <2>3. m \in 0..n
    BY <1>1, <2>1, <2>2
  <2>4. ASSUME NEW k \in 1..m PROVE k \in shown
    <3>1. k - 1 \in Nat /\ ~(m <= k - 1) /\ (k - 1) + 1 = k
      BY <2>3
    <3> HIDE DEF shown
    <3> QED
      BY <2>2, <3>1
  <2>5. ASSUME NEW k \in shown PROVE k \in 1..m
    <3>1. SUFFICES ASSUME ~(k <= m) PROVE FALSE
      BY <1>1, <2>3
    <3>2. m + 1 \in 1..n /\ m \in 0..n /\ k - 1 \in 0..n /\ m <= k - 1 /\ (m + 1) - 1 = m
      BY <1>1, <2>3, <3>1
    <3>3. u[m] <= u[k - 1] /\ u[m] \in Nat /\ u[k - 1] \in Nat /\ u[k - 1] < duration
      BY <1>3, <3>2
    <3>4. m + 1 \in shown
      BY <3>2, <3>3
    <3> QED
      BY <2>2, <3>4
  <2> QED
    BY <2>3, <2>4, <2>5
<1>6. m \in Nat /\ m <= n
  BY <1>1, <1>5
<1>7. ASSUME NEW k \in 1..m
      PROVE  /\ s[k] \in Beat /\ k \in 1..n
             /\ s[k].media = beats[k].media /\ s[k].range = beats[k].range
             /\ s[k].manual = beats[k].manual /\ s[k].free = beats[k].free
             /\ k < m => s[k].dur = beats[k].dur
  <2> DEFINE x == duration - u[k - 1]
             c == Min({beats[k].dur, x})
  <2>1. k \in 1..n /\ k \in shown /\ k - 1 \in 0..n
    <3>1. k \in shown
      BY <1>5
    <3> HIDE DEF shown
    <3> QED
      BY <1>1, <1>6, <3>1
  <2>2. u[k - 1] \in Nat /\ u[k - 1] < duration /\ beats[k] \in Beat /\ beats[k].dur \in Nat
    BY <1>1, <1>3, <2>1 DEF SoundBeat, Beat
  <2>3. x \in Nat
    BY <2>2
  <2>4. s[k] = [beats[k] EXCEPT !.dur = c]
    BY <1>4, <2>1
  <2>5. c \in {beats[k].dur, x} /\ c <= beats[k].dur /\ c <= x
    <3> DEFINE y == beats[k].dur
    <3>1. y \in Int /\ x \in Int
      BY <2>2, <2>3
    <3> HIDE DEF x, y
    <3> QED
      BY <3>1, SmallerOf DEF y
  <2> HIDE DEF c
  <2>6. c \in Nat
    <3> DEFINE y == beats[k].dur
    <3>1. y \in Nat /\ x \in Nat /\ c \in {y, x}
      BY <2>2, <2>3, <2>5
    <3> HIDE DEF x, y
    <3> QED
      BY <3>1
  <2>7. ASSUME k < m PROVE c = beats[k].dur
    <3>1. k + 1 \in 1..m /\ (k + 1) - 1 = k
      BY <1>6, <2>7
    <3>2. u[k] < duration
      <4>1. k + 1 \in shown
        BY <1>5, <3>1
      <4> QED
        BY <3>1, <4>1
    <3>3. u[k] = u[k - 1] + beats[k].dur
      BY <1>3, <2>1
    <3> QED
      BY <2>2, <2>5, <3>2, <3>3
  <2>8. /\ s[k] \in Beat /\ s[k].dur = c
        /\ s[k].media = beats[k].media /\ s[k].range = beats[k].range
        /\ s[k].manual = beats[k].manual /\ s[k].free = beats[k].free
    BY <2>2, <2>4, <2>6 DEF Beat
  <2> QED
    BY <2>1, <2>7, <2>8
<1>8. s \in Seq(Beat) /\ Len(s) = m /\ DOMAIN s = 1..m
  <2>1. s \in [1..m -> Beat]
    BY <1>4, <1>5, <1>7
  <2> QED
    BY <1>6, <2>1
<1> QED
  BY <1>1, <1>6, <1>7, <1>8 DEF s, n

-----------------------------------------------------------------------------
(* A plan and what was measured for it.  h tells how long each recording   *)
(* is; n recordings were made so far.                                      *)

\* While an editor works on it.
Drafts(h, n) ==
  {pl \in Plan :
     /\ pl.beats \in Seq(SoundBeat)
     /\ pl.timing.review \/ pl.remeasured \/ pl.beats \in Seq(TightBeat)
     /\ pl.timing.voice <= n /\ pl.timing.dur = h[pl.timing.voice]
     /\ (pl.timing.voice # 0 /\ ~pl.emptied) =>
          pl.beats # <<>> /\ pl.timing.dur <= pl.target + Tolerance}

\* An approval stands on beats that are long enough.
Plans(h, n) ==
  {pl \in Drafts(h, n) : pl.status = "approved" => pl.beats # <<>> /\ Planned(pl) >= pl.target}

Recorded(h, n) ==
  {v \in [id : 0..n, text : [script : Nat, version : Nat], voice : Nat,
          policy : [spoken : BOOLEAN, review : BOOLEAN, words : Nat], dur : Nat] :
     v.dur = h[v.id]}

\* Excerpts that are shown were reviewed.
Shown ==
  {r \in [text : [script : Nat, version : Nat], script : Nat, beats : Seq(Beat),
          remeasured : BOOLEAN] :
     \A k \in DOMAIN r.beats :
       LET b == r.beats[k]
       IN /\ (b.media = "video" /\ ExcludePeople) => b.free
          /\ (b.manual = "verified" /\ k < Len(r.beats) /\ ~r.remeasured) => b.dur = b.range}

\* An episode whose plan is one of D, and whose revisions and recording are of S and V.
Work(D, S, V) ==
  [script : {0} \cup Script, polished : BOOLEAN,
   spoken : [status : {"none", "review_required", "approved"},
             text : [script : Nat, version : Nat], policy : [spoken : BOOLEAN,
             review : BOOLEAN, words : Nat]],
   narration : V, plan : D, revisions : Seq(S), still : {"unassessed", "free", "people"},
   render : Shown]

Draft(e, h, n) == e \in Work(Drafts(h, n), Plans(h, n), Recorded(h, n)) /\ Len(e.revisions) <= Kept
Fits(e, h, n) == e \in Work(Plans(h, n), Plans(h, n), Recorded(h, n)) /\ Len(e.revisions) <= Kept

(* The fields of an episode, one by one.                                   *)
LEMMA WorkIs ==
  ASSUME NEW D, NEW S, NEW V, NEW e \in Work(D, S, V)
  PROVE  /\ e.plan \in D /\ e.revisions \in Seq(S) /\ e.narration \in V /\ e.render \in Shown
         /\ e.script \in {0} \cup Script /\ e.polished \in BOOLEAN
         /\ e.still \in {"unassessed", "free", "people"}
         /\ e.spoken.text \in [script : Nat, version : Nat]
         /\ e.spoken.policy \in [spoken : BOOLEAN, review : BOOLEAN, words : Nat]
         /\ e.spoken.status \in {"none", "review_required", "approved"}
  BY DEF Work

(* Another plan, other revisions.                                          *)
LEMMA PlanReplaced ==
  ASSUME NEW D, NEW S, NEW V, NEW e \in Work(D, S, V), NEW E, NEW p \in E
  PROVE  LET f == [e EXCEPT !.plan = p]
         IN /\ f \in Work(E, S, V) /\ f.plan = p
            /\ f.revisions = e.revisions /\ f.narration = e.narration /\ f.still = e.still
            /\ f.render = e.render /\ f.script = e.script
  BY DEF Work

(* Other revisions.                                                        *)
LEMMA RevisionsReplaced ==
  ASSUME NEW D, NEW S, NEW V, NEW e \in Work(D, S, V), NEW r \in Seq(S)
  PROVE  LET f == [e EXCEPT !.revisions = r]
         IN /\ f \in Work(D, S, V) /\ f.plan = e.plan
            /\ f.revisions = r /\ f.narration = e.narration /\ f.still = e.still
            /\ f.render = e.render /\ f.script = e.script
  BY DEF Work

(* Another render.                                                         *)
LEMMA RenderReplaced ==
  ASSUME NEW D, NEW S, NEW V, NEW e \in Work(D, S, V), NEW r \in Shown
  PROVE  LET f == [e EXCEPT !.render = r]
         IN /\ f \in Work(D, S, V) /\ f.plan = e.plan /\ f.render = r
            /\ f.revisions = e.revisions /\ f.narration = e.narration /\ f.still = e.still
            /\ f.script = e.script
  BY DEF Work

(* Another recording.                                                      *)
LEMMA NarrationReplaced ==
  ASSUME NEW D, NEW S, NEW V, NEW e \in Work(D, S, V), NEW U, NEW n \in U
  PROVE  LET f == [e EXCEPT !.narration = n]
         IN /\ f \in Work(D, S, U) /\ f.plan = e.plan /\ f.render = e.render
            /\ f.revisions = e.revisions /\ f.narration = n /\ f.still = e.still
            /\ f.script = e.script
  BY DEF Work

(* A status that is no approval makes a plan of any draft.                 *)
LEMMA StatusReplaced ==
  ASSUME NEW h, NEW n, NEW pl \in Drafts(h, n), NEW s \in {"review_required", "blocked"}
  PROVE  [pl EXCEPT !.status = s] \in Plans(h, n)
<1> DEFINE q == [pl EXCEPT !.status = s]
<1>1. /\ q \in Plan /\ q.beats = pl.beats /\ q.timing = pl.timing /\ q.target = pl.target
      /\ q.remeasured = pl.remeasured /\ q.emptied = pl.emptied /\ q.status = s
  BY DEF Drafts, Plan
<1> HIDE DEF q
<1>2. q \in Drafts(h, n)
  BY <1>1 DEF Drafts
<1> QED
  BY <1>1, <1>2 DEF Plans, q

(* A draft is left for review.                                             *)
LEMMA ForReviewFits ==
  ASSUME NEW h, NEW n, NEW e, Draft(e, h, n), NEW f, f = ForReview(e)
  PROVE  Fits(f, h, n) /\ f.narration = e.narration /\ f.render = e.render
<1> DEFINE q == [e.plan EXCEPT !.status = ReviewStatus(e)]
<1>1. ReviewStatus(e) \in {"review_required", "blocked"}
  BY DEF ReviewStatus
<1>2. f = [e EXCEPT !.plan = q]
  BY DEF ForReview
<1>3. e.plan \in Drafts(h, n)
  BY WorkIs DEF Draft
<1>4. q \in Plans(h, n)
  BY <1>1, <1>3, StatusReplaced
<1> HIDE DEF q
<1>5. e \in Work(Drafts(h, n), Plans(h, n), Recorded(h, n)) /\ Len(e.revisions) <= Kept
  BY DEF Draft
<1> DEFINE g == [e EXCEPT !.plan = q]
<1>6. /\ g \in Work(Plans(h, n), Plans(h, n), Recorded(h, n)) /\ g.revisions = e.revisions
      /\ g.narration = e.narration /\ g.render = e.render /\ g.plan = q
  BY <1>4, <1>5, PlanReplaced
<1> HIDE DEF g
<1> QED
  BY <1>2, <1>5, <1>6 DEF Fits, g, q

(* Its visuals stay.                                                       *)
LEMMA ForReviewPlan ==
  ASSUME NEW h, NEW n, NEW e, Draft(e, h, n), NEW f, f = ForReview(e)
  PROVE  f.plan.beats = e.plan.beats
  BY DEF ForReview, Draft, Drafts, Work, Plan

(* The archive holds at most so many revisions.                            *)
LEMMA ArchivedFits ==
  ASSUME NEW h, NEW n, NEW e, Fits(e, h, n)
  PROVE  LET a == Archived(e)
         IN /\ Fits(a, h, n) /\ a.plan = e.plan /\ a.narration = e.narration
            /\ a.render = e.render /\ a.still = e.still /\ a.script = e.script
<1> DEFINE S == Plans(h, n)
           V == Recorded(h, n)
           r == e.revisions
           all == Append(r, e.plan)
           first == Max({1, Len(all) - Kept + 1})
           s == SubSeq(all, first, Len(all))
<1>1. e \in Work(S, S, V) /\ Len(r) <= Kept /\ Kept \in Nat \ {0}
  BY DurationAssumption DEF Fits
<1>2. CASE Archived(e) = e
  BY <1>2
<1>3. CASE Archived(e) = [e EXCEPT !.revisions = s]
  <2>1. e.plan \in S /\ r \in Seq(S)
    BY <1>1, WorkIs
  <2> HIDE DEF S, V
  <2>2. all \in Seq(S) /\ Len(all) = Len(r) + 1 /\ Len(r) \in Nat
    BY <2>1
  <2> HIDE DEF all
  <2>3. first \in Nat /\ first >= 1 /\ first >= Len(all) - Kept + 1 /\ first <= Len(all)
    <3> DEFINE x == Len(all) - Kept + 1
    <3>1. x \in Int /\ x <= Len(all) /\ Len(all) >= 1
      BY <1>1, <2>2
    <3> HIDE DEF x
    <3>2. first \in {1, x} /\ first >= 1 /\ first >= x
      <4> DEFINE one == 1
      <4>1. one \in Int /\ one = 1
        OBVIOUS
      <4> HIDE DEF one
      <4>2. Max({one, x}) \in {one, x} /\ Max({one, x}) >= one /\ Max({one, x}) >= x
        BY <3>1, <4>1, LargerOf
      <4> QED
        BY <4>1, <4>2 DEF x
    <3> HIDE DEF first
    <3> QED
      BY <3>1, <3>2 DEF x
  <2> HIDE DEF first
  <2>4. s \in Seq(S) /\ Len(s) <= Kept
    <3>1. s \in Seq(S)
      BY <2>2, <2>3, SubSeqProperties
    <3>2. Len(s) = IF first <= Len(all) THEN Len(all) - first + 1 ELSE 0
      BY <2>2, <2>3, SubSeqProperties
    <3> QED
      BY <1>1, <2>2, <2>3, <3>1, <3>2
  <2> HIDE DEF s
  <2> DEFINE f == [e EXCEPT !.revisions = s]
  <2>5. /\ f \in Work(S, S, V) /\ f.plan = e.plan /\ f.revisions = s /\ f.narration = e.narration
        /\ f.render = e.render /\ f.still = e.still /\ f.script = e.script
    BY <1>1, <2>4, RevisionsReplaced
  <2> HIDE DEF f
  <2> QED
    BY <1>3, <2>4, <2>5 DEF f, Fits, S, V
<1>4. Archived(e) = e \/ Archived(e) = [e EXCEPT !.revisions = s]
  BY DEF Archived
<1> QED
  BY <1>2, <1>3, <1>4

(* A visual that lasts longer or shorter.                                  *)
LEMMA Retimed ==
  ASSUME NEW b \in SoundBeat, NEW d \in Nat, d >= 1
  PROVE  LET c == [b EXCEPT !.dur = d]
         IN /\ c \in SoundBeat /\ (b.manual # "verified" => c \in TightBeat)
            /\ c.media = b.media /\ c.free = b.free
  BY DEF SoundBeat, TightBeat, Beat

\* Excerpts that must show nobody were verified.
Watchable(beats) ==
  \A k \in DOMAIN beats : (beats[k].media = "video" /\ ExcludePeople) => beats[k].free

(* All visuals are timed anew.                                             *)
LEMMA AllRetimed ==
  ASSUME NEW beats \in Seq(SoundBeat), NEW d, DOMAIN d = DOMAIN beats,
         \A k \in DOMAIN d : d[k] \in Nat /\ d[k] >= 1
  PROVE  LET c == [k \in DOMAIN beats |-> [beats[k] EXCEPT !.dur = d[k]]]
         IN /\ c \in Seq(SoundBeat) /\ (beats # <<>> => c # <<>>)
            /\ (\A k \in DOMAIN beats : beats[k].manual # "verified") => c \in Seq(TightBeat)
            /\ Watchable(beats) => Watchable(c)
<1> DEFINE c == [k \in DOMAIN beats |-> [beats[k] EXCEPT !.dur = d[k]]]
<1>1. DOMAIN beats = 1..Len(beats) /\ Len(beats) \in Nat /\ DOMAIN c = DOMAIN beats
  OBVIOUS
<1>2. ASSUME NEW k \in DOMAIN beats
      PROVE  /\ c[k] \in SoundBeat /\ (beats[k].manual # "verified" => c[k] \in TightBeat)
             /\ c[k].media = beats[k].media /\ c[k].free = beats[k].free
  <2>1. beats[k] \in SoundBeat /\ d[k] \in Nat /\ d[k] >= 1 /\ c[k] = [beats[k] EXCEPT !.dur = d[k]]
    OBVIOUS
  <2> HIDE DEF c
  <2> QED
    BY <2>1, Retimed
<1>3. c \in Seq(SoundBeat)
  <2>1. c \in [1..Len(beats) -> SoundBeat]
    BY <1>1, <1>2
  <2> QED
    BY <1>1, <2>1
<1>4. (\A k \in DOMAIN beats : beats[k].manual # "verified") => c \in Seq(TightBeat)
  <2> SUFFICES ASSUME \A k \in DOMAIN beats : beats[k].manual # "verified"
               PROVE  c \in Seq(TightBeat)
    OBVIOUS
  <2>1. c \in [1..Len(beats) -> TightBeat]
    BY <1>1, <1>2
  <2> QED
    BY <1>1, <2>1
<1>5. beats # <<>> => c # <<>>
  BY <1>1
<1>6. Watchable(beats) => Watchable(c)
  BY <1>1, <1>2 DEF Watchable
<1> QED
  BY <1>3, <1>4, <1>5, <1>6

\* A measurement of the recording v.
TimingOf(v, script, review) ==
  [voice |-> v.id, dur |-> v.dur, script |-> script, review |-> review]

(* What it says is true of the recording.                                  *)
LEMMA TimingOfIs ==
  ASSUME NEW h, NEW n \in Nat, NEW v \in Recorded(h, n), NEW script \in Nat, NEW review \in BOOLEAN
  PROVE  LET t == TimingOf(v, script, review)
         IN /\ t \in [voice : Nat, dur : Nat, script : Nat, review : BOOLEAN]
            /\ t.voice <= n /\ t.dur = h[t.voice] /\ t.dur = v.dur /\ t.review = review
  BY DEF Recorded, TimingOf

(* The plan is measured and stays as it is.                                *)
LEMMA MeasuredPlan ==
  ASSUME NEW h, NEW n \in Nat, NEW pl \in Plans(h, n), pl.beats # <<>>,
         NEW t \in [voice : Nat, dur : Nat, script : Nat, review : BOOLEAN],
         t.voice <= n, t.dur = h[t.voice], ~t.review, t.dur <= pl.target + Tolerance
  PROVE  [pl EXCEPT !.timing = t, !.remeasured = @ \/ pl.timing.review] \in Plans(h, n)
<1> DEFINE q == [pl EXCEPT !.timing = t, !.remeasured = @ \/ pl.timing.review]
<1>1. /\ pl \in Plan /\ pl.remeasured \in BOOLEAN /\ pl.timing.review \in BOOLEAN
      /\ pl.beats \in Seq(SoundBeat)
      /\ pl.timing.review \/ pl.remeasured \/ pl.beats \in Seq(TightBeat)
  BY DEF Plans, Drafts, Plan
<1>2. /\ q \in Plan /\ q.beats = pl.beats /\ q.timing = t /\ q.target = pl.target
      /\ q.remeasured = (pl.remeasured \/ pl.timing.review) /\ q.emptied = pl.emptied
      /\ q.status = pl.status
  BY <1>1 DEF Plan
<1> HIDE DEF q
<1>3. q.timing.review \/ q.remeasured \/ q.beats \in Seq(TightBeat)
  BY <1>1, <1>2
<1>4. q \in Drafts(h, n)
  BY <1>1, <1>2, <1>3 DEF Drafts
<1>5. q.status = "approved" => q.beats # <<>> /\ Planned(q) >= q.target
  BY <1>2 DEF Plans, Planned
<1> QED
  BY <1>4, <1>5 DEF Plans, q

(* The plan is timed anew.                                                 *)
LEMMA RetimedPlan ==
  ASSUME NEW h, NEW n \in Nat, NEW pl \in Plans(h, n), NEW b \in Seq(SoundBeat), b # <<>>,
         NEW t \in [voice : Nat, dur : Nat, script : Nat, review : BOOLEAN],
         t.voice <= n, t.dur = h[t.voice], t.review \/ b \in Seq(TightBeat), NEW r \in BOOLEAN
  PROVE  [pl EXCEPT !.beats = b, !.target = t.dur, !.timing = t, !.remeasured = r] \in Drafts(h, n)
<1> DEFINE q == [pl EXCEPT !.beats = b, !.target = t.dur, !.timing = t, !.remeasured = r]
<1>1. pl \in Plan /\ b \in Seq(Beat) /\ t.dur \in Nat /\ Tolerance \in Nat
  <2>1. SoundBeat \subseteq Beat
    BY DEF SoundBeat
  <2>2. Seq(SoundBeat) \subseteq Seq(Beat)
    BY <2>1
  <2> QED
    BY <2>2, DurationAssumption DEF Plans, Drafts
<1>2. /\ q \in Plan /\ q.beats = b /\ q.timing = t /\ q.target = t.dur
      /\ q.remeasured = r /\ q.emptied = pl.emptied
  BY <1>1 DEF Plan
<1> HIDE DEF q
<1>3. q.timing.dur <= q.target + Tolerance
  BY <1>1, <1>2
<1> QED
  BY <1>2, <1>3 DEF Drafts, q

(* Edits of several fields of the plan are one replacement of the plan.    *)
LEMMA TwoPlanEdits ==
  ASSUME NEW D, NEW S, NEW V, NEW e \in Work(D, S, V), e.plan \in Plan, NEW t, NEW x
  PROVE  [e EXCEPT !.plan.timing = t, !.plan.remeasured = @ \/ x] =
           [e EXCEPT !.plan = [e.plan EXCEPT !.timing = t, !.remeasured = @ \/ x]]
  BY DEF Work, Plan

(* The same with the render taken back.                                    *)
LEMMA FourPlanEdits ==
  ASSUME NEW D, NEW S, NEW V, NEW e \in Work(D, S, V), e.plan \in Plan,
         NEW b, NEW x, NEW t, NEW r, NEW w
  PROVE  [e EXCEPT !.plan.beats = b, !.plan.target = x, !.plan.timing = t,
                   !.plan.remeasured = r, !.render = w] =
           [[e EXCEPT !.plan = [e.plan EXCEPT !.beats = b, !.target = x, !.timing = t,
                                              !.remeasured = r]] EXCEPT !.render = w]
  BY DEF Work, Plan

(* A new measurement retimes the plan, and asks for a review of its trims. *)
LEMMA SynchronisedFits ==
  ASSUME NEW h, NEW n \in Nat, NEW e, Fits(e, h, n), NEW v, v = e.narration
  PROVE  LET f == Synchronised(e, v)
         IN /\ Fits(f, h, n) /\ f.narration = e.narration
            /\ Watchable(e.plan.beats) => Watchable(f.plan.beats)
<1> DEFINE f == Synchronised(e, v)
           pl == e.plan
           S == Plans(h, n)
           V == Recorded(h, n)
           a == Archived(e)
           retime == Drift(pl, v) > Tolerance \/ Drift(pl, v) < -Tolerance
           review == retime /\ \E k \in DOMAIN pl.beats : pl.beats[k].manual = "verified"
           t == TimingOf(v, e.script, review)
           d == Rescaled(Durations(pl.beats), v.dur)
           b == [k \in DOMAIN pl.beats |-> [pl.beats[k] EXCEPT !.dur = d[k]]]
           r == pl.remeasured \/ (pl.timing.review /\ ~review)
<1>0. /\ Fits(a, h, n) /\ a.plan = pl /\ a.narration = e.narration
  BY ArchivedFits
<1> HIDE DEF a
<1>a. \/ f = e
      \/ /\ pl.beats # <<>> /\ ~retime
         /\ f = [e EXCEPT !.plan.timing = t, !.plan.remeasured = @ \/ pl.timing.review]
      \/ /\ pl.beats # <<>> /\ retime
         /\ f = ForReview([a EXCEPT !.plan.beats = b, !.plan.target = v.dur, !.plan.timing = t,
                                    !.plan.remeasured = r, !.render = NoRender])
  BY <1>0 DEF Synchronised, TimingOf, a
<1> HIDE DEF f, S, V, pl
<1>1. /\ e \in Work(S, S, V) /\ Len(e.revisions) <= Kept
      /\ a \in Work(S, S, V) /\ Len(a.revisions) <= Kept
  BY <1>0 DEF Fits, S, V
<1>b. pl \in S /\ v \in V /\ e.script \in Nat
  <2>1. e.plan \in S /\ e.narration \in V /\ e.script \in {0} \cup Script
    BY <1>1, WorkIs
  <2>2. \A s \in {0} \cup Script : s \in Nat
    BY TextAssumption
  <2>3. e.script \in Nat
    BY <2>1, <2>2, Zenon
  <2> QED
    BY <2>1, <2>3 DEF pl
<1>c. v.dur \in Nat
  BY <1>b DEF V, Recorded
<1>2. pl \in Plan /\ pl.beats \in Seq(SoundBeat) /\ pl.target \in Nat
  BY <1>b DEF S, Plans, Drafts, Plan
<1>3. review \in BOOLEAN
  OBVIOUS
<1>d. ~retime => v.dur <= pl.target + Tolerance
  BY <1>2, <1>c, DurationAssumption DEF Drift
<1>e. \/ review
      \/ ~retime
      \/ \A k \in DOMAIN pl.beats : pl.beats[k].manual # "verified"
  OBVIOUS
<1>f. review => retime
  OBVIOUS
<1> HIDE DEF retime, review
<1>4. /\ t \in [voice : Nat, dur : Nat, script : Nat, review : BOOLEAN] /\ t.dur = v.dur
      /\ t.voice <= n /\ t.dur = h[t.voice] /\ t.review = review
  BY <1>b, <1>3, TimingOfIs DEF V
<1> HIDE DEF t
<1>5. CASE f = e
  BY <1>5 DEF f, pl
<1>6. CASE pl.beats # <<>> /\ ~retime
           /\ f = [e EXCEPT !.plan.timing = t, !.plan.remeasured = @ \/ pl.timing.review]
  <2> DEFINE q == [pl EXCEPT !.timing = t, !.remeasured = @ \/ pl.timing.review]
  <2>1. t.dur <= pl.target + Tolerance /\ ~t.review
    BY <1>4, <1>6, <1>d, <1>f
  <2>3. q \in S
    BY <1>b, <1>4, <1>6, <2>1, MeasuredPlan DEF S
  <2>4. q.beats = pl.beats
    BY <1>2 DEF Plan
  <2>7. f = [e EXCEPT !.plan = q]
    <3> DEFINE x == pl.timing.review
    <3> HIDE DEF x
    <3>1. [e EXCEPT !.plan.timing = t, !.plan.remeasured = @ \/ x] =
           [e EXCEPT !.plan = [e.plan EXCEPT !.timing = t, !.remeasured = @ \/ x]]
      BY <1>1, <1>2, TwoPlanEdits DEF pl
    <3> QED
      BY <1>6, <3>1 DEF x, pl
  <2> HIDE DEF q
  <2> DEFINE g == [e EXCEPT !.plan = q]
  <2>5. /\ g \in Work(S, S, V) /\ g.plan = q /\ g.revisions = e.revisions
        /\ g.narration = e.narration
    BY <1>1, <2>3, PlanReplaced
  <2>6. f = g
    BY <2>7
  <2> HIDE DEF g
  <2>8. Fits(f, h, n) /\ f.narration = e.narration /\ f.plan.beats = pl.beats
    BY <1>1, <2>4, <2>5, <2>6 DEF Fits, S, V
  <2> QED
    BY <2>8 DEF f, pl
<1>7. CASE pl.beats # <<>> /\ retime
           /\ f = ForReview([a EXCEPT !.plan.beats = b, !.plan.target = v.dur, !.plan.timing = t,
                                      !.plan.remeasured = r, !.render = NoRender])
  <2> DEFINE q == [pl EXCEPT !.beats = b, !.target = t.dur, !.timing = t, !.remeasured = r]
  <2>2. DOMAIN d = DOMAIN pl.beats /\ \A k \in DOMAIN d : d[k] \in Nat /\ d[k] >= 1
    <3> DEFINE c == Durations(pl.beats)
    <3>1. /\ Len(pl.beats) \in Nat /\ Len(c) = Len(pl.beats) /\ Durable(c)
          /\ \A k \in 1..Len(pl.beats) : c[k] >= 1
      BY <1>2, DurationsAre
    <3> HIDE DEF c
    <3>2. Len(c) # 0 /\ DOMAIN pl.beats = 1..Len(pl.beats)
      BY <1>2, <1>7, <3>1
    <3>3. DOMAIN d = 1..Len(c) /\ \A k \in 1..Len(c) : d[k] \in Nat /\ d[k] >= 1
      BY <1>c, <3>1, <3>2, RescaledIs DEF c
    <3> QED
      BY <3>1, <3>2, <3>3
  <2> HIDE DEF d
  <2>3. /\ b \in Seq(SoundBeat) /\ b # <<>> /\ (Watchable(pl.beats) => Watchable(b))
        /\ (\A k \in DOMAIN pl.beats : pl.beats[k].manual # "verified") => b \in Seq(TightBeat)
    BY <1>2, <1>7, <2>2, AllRetimed
  <2> HIDE DEF b
  <2>4. t.review \/ b \in Seq(TightBeat)
    BY <1>4, <1>7, <1>e, <2>3
  <2>5. r \in BOOLEAN
    BY <1>2, <1>3 DEF Plan
  <2> HIDE DEF r
  <2>6. q \in Drafts(h, n)
    BY <1>b, <1>4, <2>3, <2>4, <2>5, RetimedPlan DEF S
  <2>7. q.beats = b
    BY <1>2 DEF Plan
  <2> DEFINE g == [a EXCEPT !.plan = q]
             w == [g EXCEPT !.render = NoRender]
  <2>8. f = ForReview(w)
    <3> DEFINE nr == NoRender
               x == v.dur
    <3> HIDE DEF nr, x
    <3>1. [a EXCEPT !.plan.beats = b, !.plan.target = x, !.plan.timing = t,
                   !.plan.remeasured = r, !.render = nr] =
           [[a EXCEPT !.plan = [a.plan EXCEPT !.beats = b, !.target = x, !.timing = t,
                                              !.remeasured = r]] EXCEPT !.render = nr]
      BY <1>0, <1>1, <1>2, FourPlanEdits
    <3> QED
      BY <1>0, <1>4, <1>7, <3>1 DEF nr, x
  <2> HIDE DEF q
  <2>10. /\ g \in Work(Drafts(h, n), S, V) /\ g.plan = q /\ g.revisions = a.revisions
         /\ g.narration = a.narration
    BY <1>1, <2>6, PlanReplaced
  <2>11. NoRender \in Shown
    BY DEF NoRender, Shown, NoText
  <2> HIDE DEF g
  <2>12. /\ w \in Work(Drafts(h, n), S, V) /\ w.plan = q /\ w.revisions = g.revisions
         /\ w.narration = g.narration
    BY <2>10, <2>11, RenderReplaced
  <2> HIDE DEF w
  <2>13. Draft(w, h, n)
    BY <1>1, <2>10, <2>12 DEF Draft, S, V
  <2>14. Fits(f, h, n) /\ f.narration = w.narration
    BY <2>8, <2>13, ForReviewFits
  <2>15. f.plan.beats = b
    BY <2>7, <2>8, <2>12, <2>13, ForReviewPlan
  <2>16. Fits(f, h, n) /\ f.narration = e.narration /\ f.plan.beats = b
    BY <1>0, <2>10, <2>12, <2>14, <2>15
  <2> QED
    BY <2>3, <2>16 DEF f, pl
<1> QED
  BY <1>5, <1>6, <1>7, <1>a DEF f, pl

-----------------------------------------------------------------------------
(* Requests that wait.                                                     *)

\* f is what became of e without another recording.
Stays(e, f, h, n) == Fits(f, h, n) /\ f.narration = e.narration

(* Another spoken text.                                                    *)
LEMMA SpokenReplaced ==
  ASSUME NEW D, NEW S, NEW V, NEW e \in Work(D, S, V),
         NEW s \in [status : {"none", "review_required", "approved"},
                    text : [script : Nat, version : Nat], policy : [spoken : BOOLEAN,
                    review : BOOLEAN, words : Nat]]
  PROVE  LET f == [e EXCEPT !.spoken = s]
         IN /\ f \in Work(D, S, V) /\ f.plan = e.plan
            /\ f.revisions = e.revisions /\ f.narration = e.narration
  BY DEF Work

(* The policy of a profile.                                                *)
LEMMA PolicyIs ==
  ASSUME NEW p \in Profile
  PROVE  Policy(p) \in [spoken : BOOLEAN, review : BOOLEAN, words : Nat] /\ p.voice \in Nat
  BY ProfileAssumption DEF Policy

(* The number of a script.                                                 *)
LEMMA ScriptIs ==
  ASSUME NEW D, NEW S, NEW V, NEW e \in Work(D, S, V)
  PROVE  e.script \in Nat
<1>1. \A s \in {0} \cup Script : s \in Nat
  BY TextAssumption
<1> QED
  BY <1>1, WorkIs, Zenon

(* prepare_spoken_script                                                   *)
LEMMA SpokenPreparedFits ==
  ASSUME NEW h, NEW n, NEW e, Fits(e, h, n), NEW p \in Profile, NEW f \in SpokenPrepared(e, p)
  PROVE  Stays(e, f, h, n)
<1> DEFINE S == Plans(h, n)
           V == Recorded(h, n)
<1>1. e \in Work(S, S, V) /\ Len(e.revisions) <= Kept
  BY DEF Fits
<1> HIDE DEF S, V
<1>2. e.script \in Nat
  BY <1>1, ScriptIs
<1>3. CASE f = e
  BY <1>3 DEF Stays
<1>4. CASE \E v \in Version :
             f = [e EXCEPT !.spoken =
                   [status |-> IF p.review THEN "review_required" ELSE "approved",
                    text |-> [script |-> e.script, version |-> v],
                    policy |-> Policy(p)]]
  <2>1. PICK v \in Version :
             f = [e EXCEPT !.spoken =
                   [status |-> IF p.review THEN "review_required" ELSE "approved",
                    text |-> [script |-> e.script, version |-> v],
                    policy |-> Policy(p)]]
    BY <1>4
  <2> DEFINE s == [status |-> IF p.review THEN "review_required" ELSE "approved",
                   text |-> [script |-> e.script, version |-> v], policy |-> Policy(p)]
  <2>2. s \in [status : {"none", "review_required", "approved"},
               text : [script : Nat, version : Nat], policy : [spoken : BOOLEAN,
               review : BOOLEAN, words : Nat]]
    <3>1. v \in Nat
      BY TextAssumption
    <3> QED
      BY <1>2, <3>1, PolicyIs
  <2> HIDE DEF s
  <2> DEFINE g == [e EXCEPT !.spoken = s]
  <2>3. g \in Work(S, S, V) /\ g.revisions = e.revisions /\ g.narration = e.narration
    BY <1>1, <2>2, SpokenReplaced
  <2>4. f = g
    BY <2>1 DEF s
  <2> HIDE DEF g
  <2> QED
    BY <1>1, <2>3, <2>4 DEF Stays, Fits, S, V
<1> QED
  BY <1>3, <1>4 DEF SpokenPrepared

(* The visuals of a prepared plan have some length.                        *)
LEMMA PaceIs ==
  ASSUME NEW k \in 1..Beats
  PROVE  LET pace == Target \div Beats + (IF k <= Target % Beats THEN 1 ELSE 0)
         IN pace \in Nat /\ pace >= 1
<1> DEFINE q == Target \div Beats
           r == Target % Beats
<1>1. Target \in Nat /\ Beats \in Nat \ {0} /\ Beats <= Target
  BY DurationAssumption
<1>2. q \in Int /\ r \in 0..(Beats - 1) /\ Target = Beats * q + r
  BY <1>1
<1>3. q >= 1
  <2> HIDE DEF q, r
  <2>1. SUFFICES ASSUME q <= 0 PROVE FALSE
    BY <1>2
  <2>2. Beats * q <= 0
    BY <1>1, <1>2, <2>1
  <2> QED
    BY <1>1, <1>2, <2>2
<1> QED
  BY <1>2, <1>3

(* Each of them has no trim.                                               *)
LEMMA PacedBeatIs ==
  ASSUME NEW k \in 1..Beats, NEW choice \in Offered
  PROVE  PacedBeat(k, choice) \in TightBeat
<1> DEFINE pace == Target \div Beats + (IF k <= Target % Beats THEN 1 ELSE 0)
<1>1. pace \in Nat /\ pace >= 1
  BY PaceIs
<1>2. PacedBeat(k, choice) =
        [media |-> IF choice = "still" THEN "still" ELSE "video", dur |-> pace,
         range |-> IF choice = "still" THEN 0 ELSE pace + Margin,
         manual |-> "none", free |-> ExcludePeople /\ choice = "seen"]
  BY DEF PacedBeat
<1> HIDE DEF pace
<1>3. Margin \in Nat /\ (ExcludePeople /\ choice = "seen") \in BOOLEAN
  BY DurationAssumption
<1> QED
  BY <1>1, <1>2, <1>3 DEF TightBeat, SoundBeat, Beat

(* Kinds of beats.                                                         *)
LEMMA TightIsSound == TightBeat \subseteq SoundBeat /\ SoundBeat \subseteq Beat
  BY DEF TightBeat, SoundBeat

(* A restart of the plan from a draft.                                     *)
LEMMA NewPlansFit ==
  ASSUME NEW h, h[0] = 0, NEW n \in Nat, NEW e, Fits(e, h, n), NEW f \in NewPlans(e)
  PROVE  Stays(e, f, h, n)
<1> DEFINE S == Plans(h, n)
           V == Recorded(h, n)
           a == Archived(e)
<1>1. Fits(a, h, n) /\ a.narration = e.narration
  BY ArchivedFits
<1>2. e.script \in Nat
  BY ScriptIs DEF Fits
<1>3. PICK choice \in [1..Beats -> Selections(e)] :
        f = ForReview([a EXCEPT !.plan =
              [NoPlan EXCEPT !.script = e.script,
                             !.beats = [k \in 1..Beats |-> PacedBeat(k, choice[k])]]])
  BY DEF NewPlans
<1> HIDE DEF a
<1> DEFINE b == [k \in 1..Beats |-> PacedBeat(k, choice[k])]
           q == [NoPlan EXCEPT !.script = e.script, !.beats = b]
           g == [a EXCEPT !.plan = q]
<1>4. b \in Seq(TightBeat) /\ b \in Seq(SoundBeat) /\ b \in Seq(Beat)
  <2>1. \A k \in 1..Beats : choice[k] \in Offered
    BY DEF Selections
  <2>2. \A k \in 1..Beats : b[k] \in TightBeat
    BY <2>1, PacedBeatIs
  <2>3. Beats \in Nat
    BY DurationAssumption
  <2>4. b \in [1..Beats -> TightBeat] /\ b \in [1..Beats -> SoundBeat] /\ b \in [1..Beats -> Beat]
    BY <2>2, TightIsSound
  <2> QED
    BY <2>3, <2>4
<1>5. f = ForReview(g)
  BY <1>3
<1> HIDE DEF b
<1>6. q \in Drafts(h, n)
  <2>1. /\ q.beats = b /\ q.timing = NoTiming /\ q.remeasured = FALSE /\ q.emptied = FALSE
        /\ q \in Plan
    BY <1>2, <1>4, DurationAssumption DEF NoPlan, NoTiming, Plan
  <2> HIDE DEF q
  <2> QED
    BY <1>4, <2>1 DEF Drafts, NoTiming
<1> HIDE DEF q
<1>7. /\ g \in Work(Drafts(h, n), S, V) /\ g.revisions = a.revisions /\ g.narration = a.narration
  BY <1>1, <1>6, PlanReplaced DEF Fits
<1> HIDE DEF g
<1>8. Draft(g, h, n)
  BY <1>1, <1>7 DEF Draft, Fits
<1>9. Fits(f, h, n) /\ f.narration = g.narration
  BY <1>5, <1>8, ForReviewFits
<1> QED
  BY <1>1, <1>7, <1>9 DEF Stays

(* What a still may be judged to show.                                     *)
LEMMA AssessedIs ==
  ASSUME NEW D, NEW S, NEW V, NEW e \in Work(D, S, V)
  PROVE  Assessed(e) \subseteq {"unassessed", "free", "people"}
<1>1. Judgement \subseteq {"free", "people"}
  BY DurationAssumption
<1>2. e.still \in {"unassessed", "free", "people"}
  BY WorkIs
<1> QED
  BY <1>1, <1>2 DEF Assessed

(* prepare_visual_plan                                                     *)
LEMMA PlanPreparedFits ==
  ASSUME NEW h, h[0] = 0, NEW n \in Nat, NEW e, Fits(e, h, n), NEW replace,
         NEW f \in PlanPrepared(e, replace)
  PROVE  Stays(e, f, h, n)
<1> DEFINE S == Plans(h, n)
           V == Recorded(h, n)
<1>1. e \in Work(S, S, V) /\ Len(e.revisions) <= Kept
  BY DEF Fits
<1> HIDE DEF S, V
<1>2. CASE f = e
  BY <1>2 DEF Stays
<1>3. CASE f = DraftFailed(e)
  <2>1. /\ f \in Work(S, S, V) /\ f.revisions = e.revisions /\ f.narration = e.narration
    BY <1>1, <1>3 DEF DraftFailed, Work
  <2> QED
    BY <1>1, <2>1 DEF Stays, Fits, S, V
<1>4. ASSUME NEW s \in Script, NEW g \in Drafted(e, s), f \in NewPlans(g) PROVE Stays(e, f, h, n)
  <2>1. PICK still \in Assessed(e) : g = [e EXCEPT !.script = s, !.polished = TRUE, !.still = still]
    BY DEF Drafted
  <2>2. still \in {"unassessed", "free", "people"}
    BY <1>1, AssessedIs
  <2>3. /\ g \in Work(S, S, V) /\ g.revisions = e.revisions /\ g.narration = e.narration
    BY <1>1, <2>1, <2>2 DEF Work
  <2>4. Fits(g, h, n)
    BY <1>1, <2>3 DEF Fits, S, V
  <2> QED
    BY <1>4, <2>3, <2>4, NewPlansFit DEF Stays
<1> QED
  BY <1>2, <1>3, <1>4 DEF PlanPrepared

(* assess_visual_plan_source_media                                         *)
LEMMA SourcesAssessedFit ==
  ASSUME NEW h, NEW n \in Nat, NEW e, Fits(e, h, n), NEW f \in SourcesAssessed(e)
  PROVE  Stays(e, f, h, n)
<1> DEFINE S == Plans(h, n)
           V == Recorded(h, n)
           a == Archived(e)
<1>1. Fits(a, h, n) /\ a.narration = e.narration
  BY ArchivedFits
<1>2. PICK still \in Assessed(e) :
        f = IF e.plan.beats = <<>> \/ e.plan.status = "approved"
              THEN [a EXCEPT !.still = still] ELSE ForReview([a EXCEPT !.still = still])
  BY DEF SourcesAssessed
<1>3. still \in {"unassessed", "free", "people"}
  BY AssessedIs DEF Fits
<1> DEFINE g == [a EXCEPT !.still = still]
<1>4. f = g \/ f = ForReview(g)
  BY <1>2
<1> HIDE DEF a
<1>5. g \in Work(S, S, V) /\ g.revisions = a.revisions /\ g.narration = a.narration
  BY <1>1, <1>3 DEF Fits, Work
<1> HIDE DEF g
<1>6. Fits(g, h, n)
  BY <1>1, <1>5 DEF Fits
<1>7. Draft(g, h, n)
  <2>1. g \in Work(Drafts(h, n), S, V)
    BY <1>5 DEF Work, Plans
  <2> QED
    BY <1>6, <2>1 DEF Draft, Fits
<1>8. f = ForReview(g) => Fits(f, h, n) /\ f.narration = g.narration
  BY <1>7, ForReviewFits
<1> QED
  BY <1>1, <1>4, <1>5, <1>6, <1>8 DEF Stays

(* The model looks at what was not verified; a verified trim holds again.  *)
LEMMA LookedBeat ==
  ASSUME NEW b \in SoundBeat, NEW seen \in BOOLEAN,
         NEW c, c = b \/ (Unverified(b) /\ c = [b EXCEPT !.free = seen])
  PROVE  c \in SoundBeat /\ c.dur = b.dur /\ (b \in TightBeat => c \in TightBeat)
  BY DEF SoundBeat, TightBeat, Beat, Unverified

(* A trim that is applied is tight.                                        *)
LEMMA TrimmedBeat ==
  ASSUME NEW b \in SoundBeat
  PROVE  TrimApplied(b) \in TightBeat
<1>1. CASE b.manual # "none" /\ b.range > 0 /\ (ExcludePeople => b.free)
  <2>1. TrimApplied(b) = [b EXCEPT !.dur = b.range, !.manual = "verified"]
    BY <1>1 DEF TrimApplied
  <2> DEFINE c == [b EXCEPT !.dur = b.range, !.manual = "verified"]
  <2>2. b \in Beat /\ b.range \in Nat /\ b.range >= 1
    BY <1>1 DEF SoundBeat, Beat
  <2>3. /\ c \in Beat /\ c.dur = b.range /\ c.range = b.range /\ c.free = b.free
    BY <2>2 DEF Beat
  <2> HIDE DEF c
  <2>4. c.dur >= 1 /\ c.range > 0
    BY <2>2, <2>3
  <2>5. ExcludePeople => c.free
    BY <1>1, <2>3
  <2>6. c \in TightBeat
    BY <2>3, <2>4, <2>5 DEF SoundBeat, TightBeat
  <2> QED
    BY <2>1, <2>6 DEF c
<1>2. CASE ~(b.manual # "none" /\ b.range > 0 /\ (ExcludePeople => b.free))
  <2>1. TrimApplied(b) = b
    BY <1>2 DEF TrimApplied
  <2> QED
    BY <1>2, <2>1 DEF SoundBeat, TightBeat
<1> QED
  BY <1>1, <1>2

(* Looking at excerpts leaves a plan as good as it was.                    *)
LEMMA LookedFits ==
  ASSUME NEW h, NEW n \in Nat, NEW e, Fits(e, h, n), NEW F, NEW f, f = Looked(e, F)
  PROVE  Fits(f, h, n) /\ f.narration = e.narration /\ (e.plan.beats # <<>> => f.plan.beats # <<>>)
<1> DEFINE S == Plans(h, n)
           V == Recorded(h, n)
           pl == e.plan
           b == [k \in DOMAIN pl.beats |->
                  IF Unverified(pl.beats[k]) /\ (ExcludePeople \/ pl.beats[k].range = 0)
                    THEN [pl.beats[k] EXCEPT !.free = k \in F] ELSE pl.beats[k]]
           q == [pl EXCEPT !.beats = b]
           g == [e EXCEPT !.plan = q]
<1>1. e \in Work(S, S, V) /\ Len(e.revisions) <= Kept
  BY DEF Fits
<1>2. pl \in S /\ pl \in Drafts(h, n) /\ pl \in Plan /\ pl.beats \in Seq(SoundBeat)
  BY WorkIs DEF Fits, Plans, Drafts
<1> HIDE DEF pl
<1>3. DOMAIN pl.beats = 1..Len(pl.beats) /\ Len(pl.beats) \in Nat /\ DOMAIN b = DOMAIN pl.beats
  BY <1>2
<1>4. ASSUME NEW k \in DOMAIN pl.beats
      PROVE  /\ b[k] \in SoundBeat /\ b[k].dur = pl.beats[k].dur
             /\ pl.beats[k] \in TightBeat => b[k] \in TightBeat
  <2> DEFINE x == pl.beats[k]
             y == b[k]
             seen == k \in F
  <2>1. x \in SoundBeat /\ seen \in BOOLEAN
    BY <1>2
  <2>2. y = x \/ (Unverified(x) /\ y = [x EXCEPT !.free = seen])
    OBVIOUS
  <2> HIDE DEF x, y, seen, b
  <2>3. y \in SoundBeat /\ y.dur = x.dur /\ (x \in TightBeat => y \in TightBeat)
    BY <2>1, <2>2, LookedBeat
  <2> QED
    BY <2>3 DEF x, y
<1>5. f = g
  <2>1. f = [e EXCEPT !.plan.beats = b]
    BY DEF Looked, pl
  <2> HIDE DEF b
  <2> QED
    BY <1>1, <1>2, <2>1 DEF Work, Plan, pl
<1> HIDE DEF b
<1>6. b \in Seq(SoundBeat)
  <2>1. b \in [1..Len(pl.beats) -> SoundBeat]
    <3>1. b = [k \in 1..Len(pl.beats) |-> b[k]]
      BY <1>3 DEF b
    <3> QED
      BY <1>3, <1>4, <3>1
  <2> QED
    BY <1>3, <2>1
<1>7. pl.beats \in Seq(TightBeat) => b \in Seq(TightBeat)
  <2> SUFFICES ASSUME pl.beats \in Seq(TightBeat) PROVE b \in Seq(TightBeat)
    OBVIOUS
  <2>1. \A k \in 1..Len(pl.beats) : b[k] \in TightBeat
    BY <1>3, <1>4
  <2>2. Len(b) = Len(pl.beats)
    BY <1>3, <1>6
  <2> QED
    BY <1>3, <1>6, <2>1, <2>2
<1>8. Durations(b) = Durations(pl.beats)
  BY <1>3, <1>4 DEF Durations
<1>9. b # <<>> <=> pl.beats # <<>>
  BY <1>2, <1>3, <1>6
<1>10. /\ q \in Plan /\ q.beats = b /\ q.timing = pl.timing /\ q.target = pl.target
       /\ q.status = pl.status /\ q.emptied = pl.emptied /\ q.remeasured = pl.remeasured
  <2>1. b \in Seq(Beat)
    BY <1>6, TightIsSound
  <2> QED
    BY <1>2, <2>1 DEF Plan
<1> HIDE DEF q
<1>11. q \in Drafts(h, n)
  BY <1>2, <1>6, <1>7, <1>9, <1>10 DEF Drafts
<1>12. q \in S
  BY <1>2, <1>8, <1>9, <1>10, <1>11 DEF Plans, Planned
<1>13. g \in Work(S, S, V) /\ g.plan = q /\ g.revisions = e.revisions /\ g.narration = e.narration
  BY <1>1, <1>12, PlanReplaced
<1> HIDE DEF g
<1> QED
  BY <1>1, <1>5, <1>9, <1>10, <1>13 DEF Fits, pl

(* The edits of a plan whose excerpts were verified.                       *)
LEMMA ThreePlanEdits ==
  ASSUME NEW D, NEW S, NEW V, NEW e \in Work(D, S, V), e.plan \in Plan, NEW b
  PROVE  [e EXCEPT !.plan.beats = b, !.plan.timing.review = FALSE, !.plan.remeasured = FALSE] =
           [e EXCEPT !.plan = [e.plan EXCEPT !.beats = b, !.timing = [@ EXCEPT !.review = FALSE],
                                             !.remeasured = FALSE]]
  BY DEF Work, Plan

(* verify_visual_plan_excerpts                                             *)
LEMMA ExcerptsVerifiedFit ==
  ASSUME NEW h, NEW n \in Nat, NEW e, Fits(e, h, n), NEW f \in ExcerptsVerified(e)
  PROVE  Stays(e, f, h, n)
<1>1. e.plan.beats # <<>> /\ \E F : f = ForReview([Archived(Looked(e, F)) EXCEPT
          !.plan.beats = [k \in DOMAIN @ |-> TrimApplied(@[k])],
          !.plan.timing.review = FALSE,
          !.plan.remeasured = FALSE])
  BY DEF ExcerptsVerified
<1>2. PICK F : f = ForReview([Archived(Looked(e, F)) EXCEPT
          !.plan.beats = [k \in DOMAIN @ |-> TrimApplied(@[k])],
          !.plan.timing.review = FALSE,
          !.plan.remeasured = FALSE])
  BY <1>1
<1> DEFINE S == Plans(h, n)
           V == Recorded(h, n)
           l == Looked(e, F)
           a == Archived(l)
           pl == a.plan
           b == [k \in DOMAIN pl.beats |-> TrimApplied(pl.beats[k])]
           t == [pl.timing EXCEPT !.review = FALSE]
           q == [pl EXCEPT !.beats = b, !.timing = t, !.remeasured = FALSE]
           g == [a EXCEPT !.plan = q]
<1>3. Fits(l, h, n) /\ l.narration = e.narration /\ l.plan.beats # <<>>
  BY <1>1, LookedFits
<1> HIDE DEF l
<1>4. Fits(a, h, n) /\ a.narration = e.narration /\ pl.beats # <<>>
  BY <1>3, ArchivedFits
<1>5. f = ForReview([a EXCEPT !.plan.beats = b, !.plan.timing.review = FALSE,
                             !.plan.remeasured = FALSE])
  BY <1>2 DEF l
<1> HIDE DEF a, b
<1>6. a \in Work(S, S, V) /\ Len(a.revisions) <= Kept
  BY <1>4 DEF Fits
<1>7. pl \in S /\ pl \in Drafts(h, n) /\ pl \in Plan /\ pl.beats \in Seq(SoundBeat)
  BY <1>6, WorkIs DEF Plans, Drafts
<1>8. f = ForReview(g)
  BY <1>5, <1>6, <1>7, ThreePlanEdits
<1> HIDE DEF pl
<1>9. b \in Seq(TightBeat) /\ b \in Seq(SoundBeat) /\ b \in Seq(Beat) /\ b # <<>>
  <2>1. DOMAIN pl.beats = 1..Len(pl.beats) /\ Len(pl.beats) \in Nat /\ Len(pl.beats) # 0
    BY <1>4, <1>7
  <2>2. \A k \in DOMAIN pl.beats : b[k] \in TightBeat
    BY <1>7, TrimmedBeat DEF b
  <2>3. b \in [1..Len(pl.beats) -> TightBeat]
    BY <2>1, <2>2 DEF b
  <2>4. b \in Seq(TightBeat) /\ DOMAIN b = 1..Len(pl.beats)
    BY <2>1, <2>3
  <2> QED
    BY <2>1, <2>4, TightIsSound
<1>10. /\ t \in [voice : Nat, dur : Nat, script : Nat, review : BOOLEAN]
       /\ t.voice = pl.timing.voice /\ t.dur = pl.timing.dur /\ ~t.review
  BY <1>7 DEF Plan
<1> HIDE DEF t
<1>11. /\ q \in Plan /\ q.beats = b /\ q.timing = t /\ q.target = pl.target
       /\ q.emptied = pl.emptied /\ q.remeasured = FALSE
  BY <1>7, <1>9, <1>10 DEF Plan
<1> HIDE DEF q
<1>12. q \in Drafts(h, n)
  BY <1>7, <1>9, <1>10, <1>11 DEF Drafts
<1>13. /\ g \in Work(Drafts(h, n), S, V) /\ g.revisions = a.revisions /\ g.narration = a.narration
  BY <1>6, <1>12, PlanReplaced
<1> HIDE DEF g
<1>14. Draft(g, h, n)
  BY <1>6, <1>13 DEF Draft
<1>15. Fits(f, h, n) /\ f.narration = g.narration
  BY <1>8, <1>14, ForReviewFits
<1> QED
  BY <1>4, <1>13, <1>15 DEF Stays

(* More recordings: what was measured for the others stays as it was.      *)
LEMMA FitsGrow ==
  ASSUME NEW h, NEW g, NEW n \in Nat, NEW m \in Nat, n <= m, \A i \in 0..n : g[i] = h[i],
         NEW e, Fits(e, h, n)
  PROVE  Fits(e, g, m)
<1>1. Drafts(h, n) \subseteq Drafts(g, m)
  <2> SUFFICES ASSUME NEW pl \in Drafts(h, n) PROVE pl \in Drafts(g, m)
    OBVIOUS
  <2>1. pl.timing.voice \in 0..n
    BY DEF Drafts, Plan
  <2>2. pl.timing.voice <= m /\ g[pl.timing.voice] = h[pl.timing.voice]
    BY <2>1
  <2> QED
    BY <2>2 DEF Drafts
<1>2. Plans(h, n) \subseteq Plans(g, m)
  BY <1>1 DEF Plans
<1>3. Recorded(h, n) \subseteq Recorded(g, m)
  BY DEF Recorded
<1> DEFINE S == Plans(h, n)
           T == Plans(g, m)
<1>4. Seq(S) \subseteq Seq(T)
  BY <1>2
<1> HIDE DEF S, T
<1>5. e \in Work(S, S, Recorded(h, n)) /\ Len(e.revisions) <= Kept
  BY DEF Fits, S
<1>6. e \in Work(T, T, Recorded(g, m))
  BY <1>2, <1>3, <1>4, <1>5 DEF Work, S, T
<1> QED
  BY <1>5, <1>6 DEF Fits, T

(* The text that is spoken.                                                *)
LEMMA SpokenTextIs ==
  ASSUME NEW D, NEW S, NEW V, NEW e \in Work(D, S, V), NEW p
  PROVE  SpokenText(e, p) \in [script : Nat, version : Nat]
<1>1. e.script \in Nat /\ e.spoken.text \in [script : Nat, version : Nat]
  BY ScriptIs, WorkIs
<1> QED
  BY <1>1 DEF SpokenText

\* g tells of one more recording, or of the same, m of them.
Grown(h, g, m) == g \in [Nat -> Nat] /\ m \in 0..MaxVoices /\ \A i \in 0..voices : g[i] = h[i]

(* The recording at hand, or a new one.                                    *)
LEMMA RecordingsFit ==
  ASSUME NEW h \in [Nat -> Nat], voices \in 0..MaxVoices,
         NEW e, Fits(e, h, voices), NEW p \in Profile, NEW reuse,
         NEW v \in Recordings(e, p, reuse)
  PROVE  \E g, m : /\ Grown(h, g, m) /\ voices <= m /\ m = Max({voices, v.id})
                   /\ Fits([e EXCEPT !.narration = v], g, m)
<1>0. voices \in Nat /\ MaxVoices \in Nat
  BY DurationAssumption
<1>1. CASE v = e.narration
  <2>1. /\ e \in Work(Plans(h, voices), Plans(h, voices), Recorded(h, voices))
        /\ v \in Recorded(h, voices)
    BY <1>1, WorkIs DEF Fits
  <2>2. [e EXCEPT !.narration = v] = e
    BY <1>1, <2>1 DEF Work
  <2>3. v.id \in 0..voices
    BY <2>1 DEF Recorded
  <2>4. voices = Max({voices, v.id})
    <3> DEFINE x == v.id
    <3>1. x \in Int /\ voices \in Int /\ x <= voices
      BY <1>0, <2>3
    <3> HIDE DEF x
    <3>2. Max({voices, x}) \in {voices, x} /\ Max({voices, x}) >= voices
      BY <3>1, LargerOf
    <3> QED
      BY <3>1, <3>2 DEF x
  <2>5. Grown(h, h, voices)
    BY DEF Grown
  <2> QED
    BY <1>0, <2>2, <2>4, <2>5
<1>2. CASE /\ voices # MaxVoices
           /\ \E d \in Length :
                v = [id |-> voices + 1, text |-> SpokenText(e, p), voice |-> p.voice,
                     policy |-> Policy(p), dur |-> d]
  <2>1. PICK d \in Length : v = [id |-> voices + 1, text |-> SpokenText(e, p), voice |-> p.voice,
                                 policy |-> Policy(p), dur |-> d]
    BY <1>2
  <2> DEFINE m == voices + 1
             g == [h EXCEPT ![m] = d]
             f == [e EXCEPT !.narration = v]
  <2>2. d \in Nat
    BY DurationAssumption
  <2>3. m \in Nat /\ m \in 0..MaxVoices /\ voices <= m
    BY <1>0, <1>2
  <2>4. g \in [Nat -> Nat] /\ g[m] = d /\ \A i \in 0..voices : g[i] = h[i]
    BY <1>0, <2>2, <2>3
  <2>5. v.id = m /\ v.dur = d
    BY <2>1
  <2> HIDE DEF g
  <2>6. Fits(e, g, m)
    BY <1>0, <2>3, <2>4, FitsGrow
  <2>7. SpokenText(e, p) \in [script : Nat, version : Nat]
    BY SpokenTextIs DEF Fits
  <2>8. v \in Recorded(g, m)
    <3>1. v \in [id : 0..m, text : [script : Nat, version : Nat], voice : Nat,
          policy : [spoken : BOOLEAN, review : BOOLEAN, words : Nat], dur : Nat]
      BY <2>1, <2>2, <2>3, <2>7, PolicyIs
    <3> QED
      BY <2>4, <2>5, <3>1 DEF Recorded
  <2>9. /\ f \in Work(Plans(g, m), Plans(g, m), Recorded(g, m)) /\ f.revisions = e.revisions
    BY <2>6, <2>8, NarrationReplaced DEF Fits
  <2>10. Fits(f, g, m)
    BY <2>6, <2>9 DEF Fits
  <2>11. m = Max({voices, v.id})
    <3> HIDE DEF m
    <3>1. m \in Int /\ voices \in Int
      BY <1>0, <2>3
    <3>2. Max({voices, m}) \in {voices, m} /\ Max({voices, m}) >= m
      BY <3>1, LargerOf
    <3> QED
      BY <2>3, <2>5, <3>1, <3>2
  <2> QED
    BY <2>3, <2>4, <2>10, <2>11 DEF Grown
<1> QED
  BY <1>1, <1>2 DEF Recordings

\* f fits with the recordings made until it is saved.
Saves(f, h) ==
  \E g, m : /\ Grown(h, g, m) /\ voices <= m /\ m = Max({voices, f.narration.id}) /\ Fits(f, g, m)

(* Without a new recording.                                                *)
LEMMA StaysSaves ==
  ASSUME NEW h \in [Nat -> Nat], voices \in 0..MaxVoices, NEW e, NEW f, Fits(e, h, voices),
         Stays(e, f, h, voices)
  PROVE  Saves(f, h)
<1>0. voices \in Nat
  BY DurationAssumption
<1> DEFINE x == f.narration.id
<1>1. x \in 0..voices
  BY WorkIs DEF Stays, Fits, Recorded
<1>2. voices = Max({voices, x})
  <2> HIDE DEF x
  <2>1. x \in Int /\ voices \in Int /\ x <= voices
    BY <1>0, <1>1
  <2>2. Max({voices, x}) \in {voices, x} /\ Max({voices, x}) >= voices
    BY <2>1, LargerOf
  <2> QED
    BY <2>1, <2>2
<1>3. Grown(h, h, voices)
  BY DEF Grown
<1> QED
  BY <1>0, <1>2, <1>3 DEF Saves, Stays

\* c is e with the recording v and measured by it.
Measures(e, c, v, h) ==
  \E g, m : /\ Grown(h, g, m) /\ voices <= m /\ m = Max({voices, v.id}) /\ Fits(c, g, m)
            /\ c.narration = v /\ (Watchable(e.plan.beats) => Watchable(c.plan.beats))

(* The recording is measured.                                              *)
LEMMA MeasuredFits ==
  ASSUME NEW h \in [Nat -> Nat], voices \in 0..MaxVoices,
         NEW e, Fits(e, h, voices), NEW p \in Profile, NEW reuse,
         NEW v \in Recordings(e, p, reuse), NEW c, c = Synchronised([e EXCEPT !.narration = v], v)
  PROVE  Measures(e, c, v, h)
<1> DEFINE d == [e EXCEPT !.narration = v]
<1>1. PICK g, m : /\ Grown(h, g, m) /\ voices <= m /\ m = Max({voices, v.id}) /\ Fits(d, g, m)
  BY RecordingsFit
<1>2. d.narration = v /\ d.plan = e.plan
  BY NarrationReplaced DEF Fits, Work
<1>3. c = Synchronised(d, v)
  OBVIOUS
<1> HIDE DEF d
<1>4. m \in Nat
  BY <1>1 DEF Grown
<1>5. /\ Fits(c, g, m) /\ c.narration = d.narration
      /\ (Watchable(d.plan.beats) => Watchable(c.plan.beats))
  BY <1>1, <1>2, <1>3, <1>4, SynchronisedFits
<1> QED
  BY <1>1, <1>2, <1>5 DEF Measures

(* prepare_narration_timing                                                *)
LEMMA TimingPreparedSaves ==
  ASSUME NEW h \in [Nat -> Nat], voices \in 0..MaxVoices,
         NEW e, Fits(e, h, voices), NEW p \in Profile, NEW regenerate,
         NEW f \in TimingPrepared(e, p, regenerate)
  PROVE  Saves(f, h)
<1>1. CASE f = e
  BY <1>1, StaysSaves DEF Stays
<1>2. ASSUME NEW v \in Recordings(e, p, ~regenerate),
             f = Synchronised([e EXCEPT !.narration = v], v)
      PROVE  Saves(f, h)
  <2>1. Measures(e, f, v, h)
    BY <1>2, MeasuredFits
  <2> QED
    BY <2>1 DEF Measures, Saves
<1> QED
  BY <1>1, <1>2 DEF TimingPrepared

(* What is rendered was reviewed.                                          *)
LEMMA RenderedFits ==
  ASSUME NEW h, NEW n \in Nat, NEW e, Fits(e, h, n), NEW v, v = e.narration,
         ~e.plan.timing.review, Watchable(e.plan.beats)
  PROVE  Stays(e, Rendered(e, v), h, n)
<1> DEFINE S == Plans(h, n)
           V == Recorded(h, n)
           pl == e.plan
           s == Scheduled(pl.beats, v.dur)
           r == [text |-> v.text, script |-> pl.script, beats |-> s, remeasured |-> pl.remeasured]
           g == [e EXCEPT !.render = r]
<1>1. e \in Work(S, S, V) /\ Len(e.revisions) <= Kept
  BY DEF Fits
<1>2. pl \in Plan /\ pl.beats \in Seq(SoundBeat) /\ v \in V
      /\ (pl.timing.review \/ pl.remeasured \/ pl.beats \in Seq(TightBeat))
  BY <1>1, WorkIs DEF Plans, Drafts
<1>3. v.dur \in Int /\ v.text \in [script : Nat, version : Nat] /\ pl.script \in Nat
      /\ pl.remeasured \in BOOLEAN
  BY <1>2 DEF Recorded, Plan
<1> HIDE DEF pl
<1>4. /\ s \in Seq(Beat) /\ DOMAIN s = 1..Len(s) /\ Len(s) <= Len(pl.beats)
      /\ \A k \in DOMAIN s : /\ k \in DOMAIN pl.beats
                             /\ s[k].media = pl.beats[k].media /\ s[k].range = pl.beats[k].range
                             /\ s[k].manual = pl.beats[k].manual /\ s[k].free = pl.beats[k].free
                             /\ k < Len(s) => s[k].dur = pl.beats[k].dur
  BY <1>2, <1>3, ScheduledIs
<1> HIDE DEF s
<1>5. ASSUME NEW k \in DOMAIN s
      PROVE  /\ (s[k].media = "video" /\ ExcludePeople) => s[k].free
             /\ (s[k].manual = "verified" /\ k < Len(s) /\ ~pl.remeasured) => s[k].dur = s[k].range
  <2>1. (s[k].media = "video" /\ ExcludePeople) => s[k].free
    BY <1>4 DEF Watchable, pl
  <2>2. ASSUME s[k].manual = "verified", k < Len(s), ~pl.remeasured PROVE s[k].dur = s[k].range
    <3>1. pl.beats \in Seq(TightBeat) /\ k \in DOMAIN pl.beats
      BY <1>2, <1>4, <2>2 DEF pl
    <3>2. pl.beats[k] \in TightBeat
      BY <3>1
    <3> QED
      BY <1>4, <2>2, <3>2 DEF TightBeat
  <2> QED
    BY <2>1, <2>2
<1>6. r \in Shown
  BY <1>3, <1>4, <1>5 DEF Shown
<1>7. Rendered(e, v) = g
  BY DEF Rendered, pl, s
<1> HIDE DEF r
<1>8. g \in Work(S, S, V) /\ g.revisions = e.revisions /\ g.narration = e.narration
  BY <1>1, <1>6, RenderReplaced
<1> HIDE DEF g
<1> QED
  BY <1>1, <1>7, <1>8 DEF Stays, Fits

(* A covered plan is watchable and long enough.                            *)
LEMMA ReadyIsWatchable ==
  ASSUME NEW e, Ready(e)
  PROVE  Watchable(e.plan.beats) /\ (e.plan.beats # <<>> => Planned(e.plan) >= e.plan.target)
  BY DEF Ready, Watchable, BeatFree, TargetOf

(* A plan that is not covered goes back for review.                        *)
LEMMA SentBackFits ==
  ASSUME NEW h, NEW n, NEW e, Fits(e, h, n), NEW s \in {"review_required", "blocked"},
         NEW f, f = [e EXCEPT !.plan.status = s]
  PROVE  Stays(e, f, h, n)
<1> DEFINE S == Plans(h, n)
           V == Recorded(h, n)
           q == [e.plan EXCEPT !.status = s]
           g == [e EXCEPT !.plan = q]
<1>1. e \in Work(S, S, V) /\ Len(e.revisions) <= Kept /\ e.plan \in Drafts(h, n)
  BY WorkIs DEF Fits, Plans
<1>2. q \in S
  BY <1>1, StatusReplaced
<1>3. f = g
  BY <1>1 DEF Work, Drafts, Plan
<1> HIDE DEF q
<1>4. g \in Work(S, S, V) /\ g.revisions = e.revisions /\ g.narration = e.narration
  BY <1>1, <1>2, PlanReplaced
<1> HIDE DEF g
<1> QED
  BY <1>1, <1>3, <1>4 DEF Stays, Fits

(* A recording that is measured and rendered.                              *)
LEMMA RenderedSaves ==
  ASSUME NEW h \in [Nat -> Nat], voices \in 0..MaxVoices,
         NEW e, Fits(e, h, voices), NEW p \in Profile, NEW reuse,
         NEW v \in Recordings(e, p, reuse), NEW c, c = Synchronised([e EXCEPT !.narration = v], v),
         Watchable(e.plan.beats), ~c.plan.timing.review
  PROVE  Saves(Rendered(c, v), h)
<1>0. Measures(e, c, v, h)
  BY MeasuredFits
<1>1. PICK g, m : /\ Grown(h, g, m) /\ voices <= m /\ m = Max({voices, v.id}) /\ Fits(c, g, m)
                  /\ c.narration = v /\ (Watchable(e.plan.beats) => Watchable(c.plan.beats))
  BY <1>0 DEF Measures
<1> DEFINE f == Rendered(c, v)
<1>2. m \in Nat
  BY <1>1 DEF Grown
<1>3. Stays(c, f, g, m)
  BY <1>1, <1>2, RenderedFits
<1> HIDE DEF f
<1>4. Fits(f, g, m) /\ f.narration = v
  BY <1>1, <1>3 DEF Stays
<1> QED
  BY <1>1, <1>4 DEF Saves, f

(* produce                                                                 *)
LEMMA ProducedSaves ==
  ASSUME NEW h \in [Nat -> Nat], voices \in 0..MaxVoices,
         NEW e, Fits(e, h, voices), NEW p \in Profile, NEW regenerate, NEW reuse,
         NEW f \in Produced(e, p, regenerate, reuse)
  PROVE  Saves(f, h)
<1>1. CASE f = e
  BY <1>1, StaysSaves DEF Stays
<1>2. CASE \E s \in {"review_required", "blocked"} : f = [e EXCEPT !.plan.status = s]
  BY <1>2, SentBackFits, StaysSaves
<1>3. ASSUME Ready(e), NEW v \in Recordings(e, p, reuse),
             NEW c, c = Synchronised([e EXCEPT !.narration = v], v),
             f = c \/ (~c.plan.timing.review /\ f = Rendered(c, v))
      PROVE  Saves(f, h)
  <2>1. Watchable(e.plan.beats)
    BY <1>3, ReadyIsWatchable
  <2>2. CASE f = c
    <3>1. Measures(e, c, v, h)
      BY <1>3, MeasuredFits
    <3> QED
      BY <2>2, <3>1 DEF Measures, Saves
  <2>3. CASE ~c.plan.timing.review /\ f = Rendered(c, v)
    BY <1>3, <2>1, <2>3, RenderedSaves
  <2> QED
    BY <1>3, <2>2, <2>3
<1> QED
  BY <1>1, <1>2, <1>3 DEF Produced

(* Whatever a request that waits saves fits.                               *)
LEMMA OutcomesSave ==
  ASSUME NEW h \in [Nat -> Nat], h[0] = 0, voices \in 0..MaxVoices,
         NEW e, Fits(e, h, voices), NEW p \in Profile, NEW f \in Outcomes(e, p)
  PROVE  Saves(f, h)
<1>0. voices \in Nat
  BY DurationAssumption
<1>1. CASE f \in SpokenPrepared(e, p)
  BY <1>1, SpokenPreparedFits, StaysSaves
<1>2. CASE f \in SourcesAssessed(e)
  BY <1>0, <1>2, SourcesAssessedFit, StaysSaves
<1>3. CASE f \in ExcerptsVerified(e)
  BY <1>0, <1>3, ExcerptsVerifiedFit, StaysSaves
<1>4. ASSUME NEW flag, f \in PlanPrepared(e, flag) PROVE Saves(f, h)
  BY <1>0, <1>4, PlanPreparedFits, StaysSaves
<1>5. ASSUME NEW flag, f \in TimingPrepared(e, p, flag) PROVE Saves(f, h)
  BY <1>5, TimingPreparedSaves
<1>6. ASSUME NEW regenerate, NEW reuse, f \in Produced(e, p, regenerate, reuse) PROVE Saves(f, h)
  BY <1>6, ProducedSaves
<1> QED
  BY <1>1, <1>2, <1>3, <1>4, <1>5, <1>6 DEF Outcomes

-----------------------------------------------------------------------------
(* The episode and the copy a request holds fit the recordings made.       *)
Fitted == \E h \in [Nat -> Nat] : h[0] = 0 /\ Fits(row, h, voices) /\ Fits(late.e, h, voices)

FInv ==
  /\ profile \in Profile /\ late.p \in Profile
  /\ voices \in 0..MaxVoices /\ requests \in 0..MaxRequests
  /\ Fitted

(* A new episode fits.                                                     *)
LEMMA NewEpisodeFits ==
  ASSUME NEW h, h[0] = 0, NEW n \in Nat
  PROVE  Fits(NewEpisode, h, n)
<1> DEFINE S == Plans(h, n)
<1>1. NoPlan \in S
  <2>1. NoPlan \in Plan
    BY DurationAssumption DEF NoPlan, NoTiming, Plan
  <2>2. <<>> \in Seq(SoundBeat) /\ <<>> \in Seq(TightBeat)
    OBVIOUS
  <2>3. /\ NoPlan.beats = <<>> /\ NoPlan.timing.voice = 0 /\ NoPlan.timing.dur = 0
        /\ NoPlan.status = "none"
    BY DEF NoPlan, NoTiming
  <2>4. NoPlan \in Drafts(h, n)
    <3> DEFINE q == NoPlan
    <3>1. q.beats \in Seq(SoundBeat) /\ q.beats \in Seq(TightBeat)
      BY <2>2, <2>3
    <3>2. q.timing.voice <= n /\ q.timing.dur = h[q.timing.voice] /\ ~(q.timing.voice # 0)
      BY <2>3
    <3> QED
      BY <2>1, <3>1, <3>2 DEF Drafts
  <2> QED
    BY <2>3, <2>4 DEF Plans
<1> HIDE DEF S
<1>2. NoVoice \in Recorded(h, n)
  BY DEF NoVoice, NoText, NoPolicy, Recorded
<1>3. NoRender \in Shown
  BY DEF NoRender, Shown, NoText
<1>4. NewEpisode \in Work(S, S, Recorded(h, n))
  BY <1>1, <1>2, <1>3 DEF NewEpisode, Work, NoText, NoPolicy
<1>5. Len(NewEpisode.revisions) <= Kept
  BY DurationAssumption DEF NewEpisode
<1> QED
  BY <1>4, <1>5 DEF Fits, S

(* The invariant holds at first.                                           *)
LEMMA InitFInv == Init => FInv
<1> SUFFICES ASSUME Init PROVE FInv
  OBVIOUS
<1> DEFINE h == [k \in Nat |-> 0]
<1>1. h \in [Nat -> Nat] /\ h[0] = 0
  OBVIOUS
<1> HIDE DEF h
<1>2. Fits(NewEpisode, h, 0)
  BY <1>1, NewEpisodeFits
<1>3. late.e = NewEpisode /\ late.p \in Profile
  <2>1. \E q \in Profile : TRUE
    BY DEF Init
  <2> QED
    BY <2>1 DEF Init, NobodyLate
<1> QED
  BY <1>1, <1>2, <1>3, DurationAssumption DEF Init, FInv, Fitted

(* A request that loads and saves in one step.                             *)
LEMMA NowFits ==
  ASSUME FInv, NEW e, Now(e), NEW h \in [Nat -> Nat], h[0] = 0,
         Fits(late.e, h, voices), Fits(e, h, voices)
  PROVE  FInv'
<1>1. /\ row' = e /\ profile' = profile /\ late' = late /\ voices' = voices
      /\ requests' \in 0..MaxRequests
  BY DurationAssumption DEF Now, Asked, FInv
<1>2. Fitted'
  BY <1>1 DEF Fitted
<1> QED
  BY <1>1, <1>2 DEF FInv

(* A save, and the copy that another request holds.                        *)
LEMMA SaveFits ==
  ASSUME NEW h \in [Nat -> Nat], h[0] = 0, voices \in 0..MaxVoices,
         NEW f, Saves(f, h), Saved(f), NEW e, Fits(e, h, voices)
  PROVE  /\ voices' \in 0..MaxVoices
         /\ \E g \in [Nat -> Nat] : g[0] = 0 /\ Fits(row', g, voices') /\ Fits(e, g, voices')
<1>1. PICK g, m : /\ Grown(h, g, m) /\ voices <= m
                  /\ m = Max({voices, f.narration.id}) /\ Fits(f, g, m)
  BY DEF Saves
<1>2. row' = f /\ voices' = m
  BY <1>1 DEF Saved
<1>3. voices \in Nat /\ m \in 0..MaxVoices /\ m \in Nat /\ 0 \in 0..voices
  BY <1>1, DurationAssumption DEF Grown
<1>4. g \in [Nat -> Nat] /\ g[0] = 0 /\ \A i \in 0..voices : g[i] = h[i]
  BY <1>1, <1>3 DEF Grown
<1>5. Fits(e, g, m)
  BY <1>1, <1>3, <1>4, FitsGrow
<1> QED
  BY <1>1, <1>2, <1>3, <1>4, <1>5


-----------------------------------------------------------------------------
(* Requests that load and save in one step.                                *)

(* Work on an archived plan, of which a draft is left for review.          *)
LEMMA EditedFits ==
  ASSUME NEW h, NEW n \in Nat, NEW e, Fits(e, h, n), NEW q \in Drafts(h, n),
         NEW f, f = ForReview([Archived(e) EXCEPT !.plan = q])
  PROVE  Fits(f, h, n)
<1> DEFINE a == Archived(e)
           g == [a EXCEPT !.plan = q]
<1>1. Fits(a, h, n)
  BY ArchivedFits
<1> HIDE DEF a
<1>2. /\ g \in Work(Drafts(h, n), Plans(h, n), Recorded(h, n)) /\ g.revisions = a.revisions
  BY <1>1, PlanReplaced DEF Fits
<1>3. f = ForReview(g)
  BY DEF a
<1> HIDE DEF g
<1>4. Draft(g, h, n)
  BY <1>1, <1>2 DEF Draft, Fits
<1> QED
  BY <1>3, <1>4, ForReviewFits

(* update_spoken_script, approve_spoken_script                             *)
LEMMA SpokenEditedFits ==
  ASSUME NEW h, NEW n, NEW e, Fits(e, h, n),
         NEW s \in [status : {"none", "review_required", "approved"},
                    text : [script : Nat, version : Nat], policy : [spoken : BOOLEAN,
                    review : BOOLEAN, words : Nat]],
         NEW f, f = [e EXCEPT !.spoken = s]
  PROVE  Fits(f, h, n)
  BY SpokenReplaced DEF Fits

(* A sequence with one more element.                                       *)
LEMMA InsertAtIs ==
  ASSUME NEW S, NEW s \in Seq(S), NEW x \in S, NEW k \in 1..Len(s) + 1
  PROVE  InsertAt(s, k, x) \in Seq(S) /\ InsertAt(s, k, x) # <<>>
<1> DEFINE p == SubSeq(s, 1, k - 1)
           q == SubSeq(s, k, Len(s))
<1>1. Len(s) \in Nat /\ k \in Nat /\ k >= 1 /\ k - 1 <= Len(s)
  OBVIOUS
<1>2. p \in Seq(S) /\ q \in Seq(S)
  BY <1>1, SubSeqProperties
<1> HIDE DEF p, q
<1>3. p \o <<x>> \in Seq(S) /\ Len(p \o <<x>>) = Len(p) + 1 /\ Len(p) \in Nat /\ Len(q) \in Nat
  BY <1>2
<1>4. (p \o <<x>>) \o q \in Seq(S) /\ Len((p \o <<x>>) \o q) = Len(p) + 1 + Len(q)
  BY <1>2, <1>3
<1>5. (p \o <<x>>) \o q # <<>>
  BY <1>3, <1>4
<1> QED
  BY <1>4, <1>5 DEF InsertAt, p, q

(* A sequence without one of its elements.                                 *)
LEMMA RemoveAtIs ==
  ASSUME NEW S, NEW s \in Seq(S), NEW k \in DOMAIN s
  PROVE  /\ RemoveAt(s, k) \in Seq(S)
         /\ Len(s) # 1 => RemoveAt(s, k) # <<>>
<1> DEFINE p == SubSeq(s, 1, k - 1)
           q == SubSeq(s, k + 1, Len(s))
<1>1. Len(s) \in Nat /\ k \in Nat /\ k >= 1 /\ k <= Len(s)
  OBVIOUS
<1>2. p \in Seq(S) /\ Len(p) = k - 1
  <2>1. Len(p) = IF 1 <= k - 1 THEN (k - 1) - 1 + 1 ELSE 0
    BY <1>1, SubSeqProperties
  <2> QED
    BY <1>1, <2>1, SubSeqProperties
<1>3. q \in Seq(S) /\ Len(q) = Len(s) - k
  <2>1. Len(q) = IF k + 1 <= Len(s) THEN Len(s) - (k + 1) + 1 ELSE 0
    BY <1>1, SubSeqProperties
  <2> QED
    BY <1>1, <2>1, SubSeqProperties
<1> HIDE DEF p, q
<1>4. p \o q \in Seq(S) /\ Len(p \o q) = Len(s) - 1
  BY <1>1, <1>2, <1>3
<1> QED
  BY <1>1, <1>4 DEF RemoveAt, p, q

(* A draft of a plan with other beats.                                     *)
LEMMA BeatsReplaced ==
  ASSUME NEW h, NEW n \in Nat, NEW pl \in Plans(h, n), NEW b \in Seq(SoundBeat),
         pl.beats \in Seq(TightBeat) => b \in Seq(TightBeat),
         NEW target \in Nat, NEW emptied \in BOOLEAN, pl.emptied => emptied,
         emptied \/ (b # <<>> /\ (pl.beats # <<>> => target = pl.target)),
         NEW q, q = [pl EXCEPT !.beats = b, !.target = target, !.emptied = emptied]
  PROVE  q \in Drafts(h, n)
<1>1. /\ pl \in Plan /\ pl.timing.voice <= n /\ pl.timing.dur = h[pl.timing.voice]
      /\ pl.timing.review \/ pl.remeasured \/ pl.beats \in Seq(TightBeat)
      /\ (pl.timing.voice # 0 /\ ~pl.emptied) =>
           pl.beats # <<>> /\ pl.timing.dur <= pl.target + Tolerance
  BY DEF Plans, Drafts
<1>2. b \in Seq(Beat)
  BY TightIsSound
<1>3. /\ q \in Plan /\ q.beats = b /\ q.timing = pl.timing /\ q.target = target
      /\ q.emptied = emptied /\ q.remeasured = pl.remeasured
  BY <1>1, <1>2 DEF Plan
<1>4. q.timing.review \/ q.remeasured \/ q.beats \in Seq(TightBeat)
  BY <1>1, <1>3
<1>5. (q.timing.voice # 0 /\ ~q.emptied) => q.beats # <<>> /\ q.timing.dur <= q.target + Tolerance
  BY <1>1, <1>3
<1> QED
  BY <1>1, <1>3, <1>4, <1>5 DEF Drafts

(* add_visual_plan_beat                                                    *)
LEMMA BeatAddedFits ==
  ASSUME NEW h, NEW n \in Nat, NEW e, Fits(e, h, n), NEW k \in 1..Len(e.plan.beats) + 1,
         NEW media \in Media
  PROVE  Fits(BeatAdded(e, k, media), h, n)
<1> DEFINE pl == e.plan
           x == [media |-> media, dur |-> Shot, range |-> 0,
                 manual |-> IF media = "video" THEN "pending" ELSE "none", free |-> FALSE]
           b == InsertAt(pl.beats, k, x)
           target == TargetOf(pl)
           q == [pl EXCEPT !.beats = b, !.target = target, !.emptied = pl.emptied]
           a == Archived(e)
           f == BeatAdded(e, k, media)
<1>1. pl \in Plans(h, n) /\ pl \in Plan /\ pl.beats \in Seq(SoundBeat)
  BY WorkIs DEF Fits, Plans, Drafts
<1>2. x \in TightBeat /\ x \in SoundBeat
  BY DurationAssumption DEF TightBeat, SoundBeat, Beat
<1>3. a.plan = pl /\ Fits(a, h, n)
  BY ArchivedFits
<1> HIDE DEF x
<1>4. f = ForReview([a EXCEPT !.plan.beats = b, !.plan.target = target])
  BY <1>3 DEF BeatAdded, x
<1> HIDE DEF a, pl, f
<1>5. b \in Seq(SoundBeat) /\ b # <<>> /\ (pl.beats \in Seq(TightBeat) => b \in Seq(TightBeat))
  BY <1>1, <1>2, InsertAtIs DEF pl
<1>6. target \in Nat /\ (pl.beats # <<>> => target = pl.target)
  BY <1>1, DurationAssumption DEF TargetOf, Plan
<1>7. pl.emptied \in BOOLEAN
  BY <1>1 DEF Plan
<1> HIDE DEF b, target
<1>8. q \in Drafts(h, n)
  BY <1>1, <1>5, <1>6, <1>7, BeatsReplaced
<1>9. f = ForReview([a EXCEPT !.plan = q])
  <2>1. [a EXCEPT !.plan.beats = b, !.plan.target = target] = [a EXCEPT !.plan = q]
    BY <1>1, <1>3 DEF Fits, Work, Plan
  <2> QED
    BY <1>4, <2>1
<1> HIDE DEF q
<1> QED
  BY <1>8, <1>9, EditedFits DEF a, f

(* remove_visual_plan_beat                                                 *)
LEMMA BeatRemovedFits ==
  ASSUME NEW h, NEW n \in Nat, NEW e, Fits(e, h, n), NEW k \in DOMAIN e.plan.beats
  PROVE  Fits(BeatRemoved(e, k), h, n)
<1> DEFINE pl == e.plan
           b == RemoveAt(pl.beats, k)
           emptied == pl.emptied \/ Len(pl.beats) = 1
           q == [pl EXCEPT !.beats = b, !.target = pl.target, !.emptied = emptied]
           a == Archived(e)
           f == BeatRemoved(e, k)
<1>1. pl \in Plans(h, n) /\ pl \in Plan /\ pl.beats \in Seq(SoundBeat)
  BY WorkIs DEF Fits, Plans, Drafts
<1>3. a.plan = pl /\ Fits(a, h, n)
  BY ArchivedFits
<1>4. f = ForReview([a EXCEPT !.plan.beats = b, !.plan.emptied = emptied])
  BY <1>3 DEF BeatRemoved
<1> HIDE DEF a, f
<1>5. /\ b \in Seq(SoundBeat) /\ (Len(pl.beats) # 1 => b # <<>>)
      /\ pl.beats \in Seq(TightBeat) => b \in Seq(TightBeat)
  BY <1>1, RemoveAtIs
<1> HIDE DEF pl
<1>7. emptied \in BOOLEAN /\ pl.target \in Nat /\ (pl.emptied => emptied)
  BY <1>1 DEF Plan
<1>6. emptied \/ b # <<>>
  BY <1>5
<1> HIDE DEF b, emptied
<1>8. q \in Drafts(h, n)
  BY <1>1, <1>5, <1>6, <1>7, BeatsReplaced
<1>9. f = ForReview([a EXCEPT !.plan = q])
  <2>1. [a EXCEPT !.plan.beats = b, !.plan.emptied = emptied] = [a EXCEPT !.plan = q]
    BY <1>1, <1>3 DEF Fits, Work, Plan
  <2> QED
    BY <1>4, <2>1
<1> HIDE DEF q
<1> QED
  BY <1>8, <1>9, EditedFits DEF a, f

(* update_visual_plan_beat                                                 *)
LEMMA BeatTrimmedFits ==
  ASSUME NEW h, NEW n \in Nat, NEW e, Fits(e, h, n), NEW k \in DOMAIN e.plan.beats,
         NEW media \in Media \ {"none"}, NEW range \in Trim \cup {0}
  PROVE  Fits(BeatTrimmed(e, k, media, range), h, n)
<1> DEFINE pl == e.plan
           x == [media |-> media, range |-> range,
                 dur |-> IF range > 0 THEN range ELSE pl.beats[k].dur,
                 manual |-> IF media = "video" THEN "pending" ELSE "none", free |-> FALSE]
           b == [pl.beats EXCEPT ![k] = x]
           q == [pl EXCEPT !.beats = b, !.target = pl.target, !.emptied = pl.emptied]
           a == Archived(e)
           f == BeatTrimmed(e, k, media, range)
<1>1. pl \in Plans(h, n) /\ pl \in Plan /\ pl.beats \in Seq(SoundBeat)
  BY WorkIs DEF Fits, Plans, Drafts
<1>2. x \in TightBeat /\ x \in SoundBeat
  <2>1. media \in {"still", "video"} /\ range \in Nat
    BY DurationAssumption
  <2>2. pl.beats[k].dur \in Nat /\ pl.beats[k].dur >= 1
    BY <1>1 DEF SoundBeat, Beat
  <2> HIDE DEF pl
  <2>3. x.dur \in Nat /\ x.dur >= 1 /\ x.manual \in {"none", "pending"}
    BY <2>1, <2>2
  <2>4. x \in Beat
    BY <2>1, <2>2, <2>3 DEF Beat
  <2> HIDE DEF x
  <2> QED
    BY <2>3, <2>4 DEF TightBeat, SoundBeat
<1>3. a.plan = pl /\ Fits(a, h, n)
  BY ArchivedFits
<1>4. f = ForReview([a EXCEPT !.plan.beats = b])
  BY <1>3 DEF BeatTrimmed
<1> HIDE DEF a, f, x
<1>5. /\ b \in Seq(SoundBeat) /\ b # <<>>
      /\ pl.beats \in Seq(TightBeat) => b \in Seq(TightBeat)
  <2> DEFINE s == pl.beats
  <2>1. s \in Seq(SoundBeat) /\ k \in DOMAIN s
    BY <1>1
  <2> HIDE DEF s
  <2>2. [s EXCEPT ![k] = x] \in Seq(SoundBeat) /\ [s EXCEPT ![k] = x] # <<>>
    BY <1>2, <2>1
  <2>3. s \in Seq(TightBeat) => [s EXCEPT ![k] = x] \in Seq(TightBeat)
    BY <1>2, <2>1
  <2> QED
    BY <2>2, <2>3 DEF s
<1> HIDE DEF pl
<1>7. pl.emptied \in BOOLEAN /\ pl.target \in Nat
  BY <1>1 DEF Plan
<1> HIDE DEF b
<1>8. q \in Drafts(h, n)
  BY <1>1, <1>5, <1>7, BeatsReplaced
<1>9. f = ForReview([a EXCEPT !.plan = q])
  <2>1. [a EXCEPT !.plan.beats = b] = [a EXCEPT !.plan = q]
    BY <1>1, <1>3 DEF Fits, Work, Plan
  <2> QED
    BY <1>4, <2>1
<1> HIDE DEF q
<1> QED
  BY <1>8, <1>9, EditedFits DEF a, f

(* approve_visual_plan: it is long enough, for it is covered.              *)
LEMMA ApprovalFits ==
  ASSUME NEW h, NEW n \in Nat, NEW e, Fits(e, h, n), CanApprove(e)
  PROVE  Fits(Approved(e), h, n)
<1> DEFINE S == Plans(h, n)
           V == Recorded(h, n)
           a == Archived(e)
           pl == e.plan
           q == [pl EXCEPT !.status = "approved"]
           g == [a EXCEPT !.plan = q]
<1>1. pl.beats # <<>> /\ Planned(pl) >= pl.target
  BY ReadyIsWatchable DEF CanApprove
<1>2. Fits(a, h, n) /\ a.plan = pl
  BY ArchivedFits
<1>3. pl \in Drafts(h, n) /\ pl \in Plan
  BY WorkIs DEF Fits, Plans, Drafts
<1> HIDE DEF a, pl
<1>4. Approved(e) = g
  BY <1>2, <1>3 DEF Approved, Fits, Work, Plan, a
<1>5. /\ q \in Plan /\ q.beats = pl.beats /\ q.timing = pl.timing /\ q.target = pl.target
      /\ q.remeasured = pl.remeasured /\ q.emptied = pl.emptied /\ q.status = "approved"
  BY <1>3 DEF Plan
<1> HIDE DEF q
<1>6. q \in Drafts(h, n)
  BY <1>3, <1>5 DEF Drafts
<1>7. q \in S
  BY <1>1, <1>5, <1>6 DEF Plans, Planned
<1>8. g \in Work(S, S, V) /\ g.revisions = a.revisions
  BY <1>2, <1>7, PlanReplaced DEF Fits
<1> HIDE DEF g
<1> QED
  BY <1>2, <1>4, <1>8 DEF Fits

(* restore_visual_plan_revision                                            *)
LEMMA RestoredFits ==
  ASSUME NEW h, NEW n \in Nat, NEW e, Fits(e, h, n), NEW i \in DOMAIN e.revisions
  PROVE  Fits(Restored(e, i), h, n)
<1> DEFINE S == Plans(h, n)
           V == Recorded(h, n)
           a == Archived(e)
           q == e.revisions[i]
           g == [a EXCEPT !.plan = q]
           f == Restored(e, i)
<1>1. e.revisions \in Seq(S)
  BY WorkIs DEF Fits
<1>2. q \in S
  BY <1>1
<1>3. q \in Drafts(h, n)
  BY <1>2 DEF Plans
<1>4. Fits(a, h, n)
  BY ArchivedFits
<1>5. f = g \/ f = ForReview(g)
  BY DEF Restored
<1> HIDE DEF q
<1>6. f = ForReview(g) => Fits(f, h, n)
  BY <1>3, EditedFits
<1> HIDE DEF a, f
<1>7. g \in Work(S, S, V) /\ g.revisions = a.revisions
  BY <1>2, <1>4, PlanReplaced DEF Fits
<1>8. Fits(g, h, n)
  BY <1>4, <1>7 DEF Fits
<1> QED
  BY <1>5, <1>6, <1>8 DEF f

(* Every step keeps FInv, one case for each action.                        *)
LEMMA NextFInv == FInv /\ [Next]_vars => FInv'
<1> SUFFICES ASSUME FInv, [Next]_vars PROVE FInv'
  OBVIOUS
<1>1. /\ voices \in 0..MaxVoices /\ voices \in Nat
      /\ profile \in Profile /\ late.p \in Profile /\ requests \in 0..MaxRequests
  BY DurationAssumption DEF FInv
<1>2. PICK h \in [Nat -> Nat] : h[0] = 0 /\ Fits(row, h, voices) /\ Fits(late.e, h, voices)
  BY DEF FInv, Fitted
<1>a. row \in Work(Plans(h, voices), Plans(h, voices), Recorded(h, voices))
  BY <1>2 DEF Fits
<1>3. CASE EditSpoken
  <2>1. PICK v \in Version : Now(SpokenEdited(row, profile, v))
    BY <1>3 DEF EditSpoken
  <2> DEFINE s == [status |-> "review_required", text |-> [script |-> row.script, version |-> v],
                   policy |-> Policy(profile)]
  <2>2. s \in [status : {"none", "review_required", "approved"},
               text : [script : Nat, version : Nat], policy : [spoken : BOOLEAN,
               review : BOOLEAN, words : Nat]]
    <3>1. v \in Nat /\ row.script \in Nat
      BY <1>a, ScriptIs, TextAssumption
    <3> QED
      BY <1>1, <3>1, PolicyIs
  <2>3. SpokenEdited(row, profile, v) = [row EXCEPT !.spoken = s]
    BY DEF SpokenEdited
  <2> HIDE DEF s
  <2>4. Fits(SpokenEdited(row, profile, v), h, voices)
    BY <1>2, <2>2, <2>3, SpokenEditedFits
  <2> QED
    BY <1>2, <2>1, <2>4, NowFits
<1>4. CASE ApproveSpoken
  <2> DEFINE f == [row EXCEPT !.spoken.status = "approved"]
             s == [row.spoken EXCEPT !.status = "approved"]
  <2>1. Now(f)
    BY <1>4 DEF ApproveSpoken
  <2>2. s \in [status : {"none", "review_required", "approved"},
               text : [script : Nat, version : Nat], policy : [spoken : BOOLEAN,
               review : BOOLEAN, words : Nat]]
    BY <1>a DEF Work
  <2>3. f = [row EXCEPT !.spoken = s]
    BY <1>a DEF Work
  <2> HIDE DEF s, f
  <2>4. Fits(f, h, voices)
    BY <1>2, <2>2, <2>3, SpokenEditedFits
  <2> QED
    BY <1>2, <2>1, <2>4, NowFits
<1>5. CASE AddBeat
  <2>1. PICK k \in 1..Len(row.plan.beats) + 1, media \in Media : Now(BeatAdded(row, k, media))
    BY <1>5 DEF AddBeat
  <2>2. Fits(BeatAdded(row, k, media), h, voices)
    BY <1>1, <1>2, BeatAddedFits
  <2> QED
    BY <1>2, <2>1, <2>2, NowFits
<1>6. CASE RemoveBeat
  <2>1. PICK k \in DOMAIN row.plan.beats : Now(BeatRemoved(row, k))
    BY <1>6 DEF RemoveBeat
  <2>2. Fits(BeatRemoved(row, k), h, voices)
    BY <1>1, <1>2, BeatRemovedFits
  <2> QED
    BY <1>2, <2>1, <2>2, NowFits
<1>7. CASE TrimBeat
  <2>1. PICK k \in DOMAIN row.plan.beats, media \in Media \ {"none"}, range \in Trim \cup {0} :
          Now(BeatTrimmed(row, k, media, range))
    BY <1>7 DEF TrimBeat
  <2>2. Fits(BeatTrimmed(row, k, media, range), h, voices)
    BY <1>1, <1>2, BeatTrimmedFits
  <2> QED
    BY <1>2, <2>1, <2>2, NowFits
<1>8. CASE Approve
  <2>1. CanApprove(row) /\ Now(Approved(row))
    BY <1>8 DEF Approve
  <2>2. Fits(Approved(row), h, voices)
    BY <1>1, <1>2, <2>1, ApprovalFits
  <2> QED
    BY <1>2, <2>1, <2>2, NowFits
<1>9. CASE Restore
  <2>1. PICK i \in DOMAIN row.revisions : Now(Restored(row, i))
    BY <1>9 DEF Restore
  <2>2. Fits(Restored(row, i), h, voices)
    BY <1>1, <1>2, RestoredFits
  <2> QED
    BY <1>2, <2>1, <2>2, NowFits
<1>10. CASE ChangeProfile
  <2>1. /\ profile' \in Profile /\ late' = late /\ row' = row /\ voices' = voices
        /\ requests' \in 0..MaxRequests
    BY <1>1, <1>10, DurationAssumption DEF ChangeProfile, Asked
  <2>2. Fitted'
    BY <1>2, <2>1 DEF Fitted
  <2> QED
    BY <1>1, <2>1, <2>2 DEF FInv
<1>11. CASE Load
  <2>1. /\ profile' = profile /\ late'.e = row /\ late'.p = profile /\ row' = row
        /\ voices' = voices /\ requests' \in 0..MaxRequests
    BY <1>1, <1>11, DurationAssumption DEF Load, Asked
  <2>2. Fitted'
    BY <1>2, <2>1 DEF Fitted
  <2> QED
    BY <1>1, <2>1, <2>2 DEF FInv
<1>12. CASE Prompt
  <2>1. PICK e \in Outcomes(row, profile) : Saved(e)
    BY <1>12 DEF Prompt
  <2>2. /\ profile' = profile /\ late' = late /\ requests' \in 0..MaxRequests
    BY <1>1, <1>12, DurationAssumption DEF Prompt, Asked
  <2>3. Saves(e, h)
    BY <1>1, <1>2, OutcomesSave
  <2>4. /\ voices' \in 0..MaxVoices
        /\ \E g \in [Nat -> Nat] : g[0] = 0 /\ Fits(row', g, voices') /\ Fits(late.e, g, voices')
    BY <1>1, <1>2, <2>1, <2>3, SaveFits
  <2> QED
    BY <1>1, <2>2, <2>4 DEF FInv, Fitted
<1>13. CASE Late
  <2>1. PICK e \in Outcomes(late.e, late.p) : Saved(e)
    BY <1>13 DEF Late
  <2>2. /\ profile' = profile /\ late' = NobodyLate /\ requests' \in 0..MaxRequests
    BY <1>1, <1>13, DurationAssumption DEF Late, Asked
  <2>3. Saves(e, h)
    BY <1>1, <1>2, OutcomesSave
  <2>4. voices' \in 0..MaxVoices
    BY <1>1, <1>2, <2>1, <2>3, SaveFits
  <2>5. PICK g \in [Nat -> Nat] : g[0] = 0 /\ Fits(row', g, voices')
    BY <1>1, <1>2, <2>1, <2>3, SaveFits
  <2>6. voices' \in Nat
    BY <2>4, DurationAssumption
  <2>7. Fits(NewEpisode, g, voices')
    BY <2>5, <2>6, NewEpisodeFits
  <2>8. late'.e = NewEpisode /\ late'.p \in Profile
    BY <1>1, <2>2 DEF NobodyLate
  <2> QED
    BY <1>1, <2>2, <2>4, <2>5, <2>7, <2>8 DEF FInv, Fitted
<1>14. CASE UNCHANGED vars
  BY <1>14 DEF vars, FInv, Fitted
<1> QED
  BY <1>3, <1>4, <1>5, <1>6, <1>7, <1>8, <1>9, <1>10, <1>11, <1>12, <1>13, <1>14 DEF Next

(* An episode that fits is one.                                            *)
LEMMA FitsIsEpisode ==
  ASSUME NEW h, NEW n \in Nat, n <= MaxVoices, NEW e, Fits(e, h, n)
  PROVE  e \in Episode
<1> DEFINE S == Plans(h, n)
<1>1. S \subseteq Plan
  BY DEF Plans, Drafts
<1>2. Seq(S) \subseteq Seq(Plan)
  BY <1>1
<1> HIDE DEF S
<1>3. e \in Work(S, S, Recorded(h, n))
  BY DEF Fits, S
<1>4. Recorded(h, n) \subseteq
        [id : 0..MaxVoices, text : [script : Nat, version : Nat], voice : Nat,
         policy : [spoken : BOOLEAN, review : BOOLEAN, words : Nat], dur : Nat]
  <2>1. MaxVoices \in Nat
    BY DurationAssumption
  <2>2. 0..n \subseteq 0..MaxVoices
    BY <2>1
  <2> QED
    BY <2>2 DEF Recorded
<1>5. Shown \subseteq [text : [script : Nat, version : Nat], script : Nat, beats : Seq(Beat),
                       remeasured : BOOLEAN]
  BY DEF Shown
<1> QED
  BY <1>1, <1>2, <1>3, <1>4, <1>5 DEF Work, Episode

(* The types of the stored episode and of the copy that a request holds.   *)
THEOREM PrimerTypes == Spec => []TypeOK
<1>1. FInv => TypeOK
  <2> SUFFICES ASSUME FInv PROVE TypeOK
    OBVIOUS
  <2>1. voices \in Nat /\ voices <= MaxVoices
    BY DurationAssumption DEF FInv
  <2>2. PICK h \in [Nat -> Nat] : Fits(row, h, voices) /\ Fits(late.e, h, voices)
    BY DEF FInv, Fitted
  <2>3. row \in Episode /\ late.e \in Episode
    BY <2>1, <2>2, FitsIsEpisode
  <2> QED
    BY <2>2, <2>3 DEF FInv, TypeOK, Fits
<1> QED
  BY <1>1, InitFInv, NextFInv, PTL DEF Spec

(* Every excerpt of a render that must show nobody was verified, and those *)
(* an editor trimmed last as long as the verified trim, but the last one   *)
(* and those of plans whose demand for a review was taken back.            *)
THEOREM ExcerptsStayReviewed == Spec => []ExcerptsReviewed
<1>1. FInv => ExcerptsReviewed
  <2> SUFFICES ASSUME FInv PROVE ExcerptsReviewed
    OBVIOUS
  <2>1. PICK h \in [Nat -> Nat] : Fits(row, h, voices)
    BY DEF FInv, Fitted
  <2>2. row.render \in Shown
    BY <2>1, WorkIs DEF Fits
  <2> QED
    BY <2>2 DEF ExcerptsReviewed, Shown
<1> QED
  BY <1>1, InitFInv, NextFInv, PTL DEF Spec

(* A plan that stands approved is too short for the recording it was       *)
(* measured with by no more than the tolerance.                            *)
THEOREM ApprovedPlansFit == Spec => []ApprovedFits
<1>1. FInv => ApprovedFits
  <2> SUFFICES ASSUME FInv, row.plan.status = "approved",
                      row.plan.timing.voice = row.narration.id, ~row.plan.emptied
               PROVE  Planned(row.plan) + Tolerance >= row.narration.dur
    BY DEF ApprovedFits
  <2> DEFINE pl == row.plan
             v == row.narration
  <2>1. PICK h \in [Nat -> Nat] : h[0] = 0 /\ Fits(row, h, voices)
    BY DEF FInv, Fitted
  <2>2. pl \in Plans(h, voices) /\ v \in Recorded(h, voices)
    BY <2>1, WorkIs DEF Fits
  <2>3. pl \in Drafts(h, voices) /\ pl \in Plan /\ pl.beats \in Seq(SoundBeat) /\ pl.beats # <<>>
        /\ Planned(pl) >= pl.target
    BY <2>2 DEF Plans, Drafts
  <2>a. pl.timing.voice = v.id /\ ~pl.emptied /\ voices \in Nat
    BY DurationAssumption DEF FInv
  <2>b. pl.timing.dur = h[pl.timing.voice]
    BY <2>3 DEF Drafts
  <2>c. v.id \in 0..voices /\ v.dur = h[v.id]
    BY <2>2 DEF Recorded
  <2>d. (pl.timing.voice # 0 /\ ~pl.emptied) => pl.timing.dur <= pl.target + Tolerance
    BY <2>3 DEF Drafts
  <2>4. v.dur = pl.timing.dur /\ v.id \in Nat /\ v.dur = h[v.id] /\ v.dur \in Nat
    BY <2>1, <2>a, <2>b, <2>c
  <2>5. Planned(pl) \in Nat
    <3> DEFINE d == Durations(pl.beats)
    <3>1. /\ Len(pl.beats) \in Nat /\ Len(d) = Len(pl.beats) /\ Durable(d)
          /\ \A k \in 1..Len(d) : d[k] >= 1
      BY <2>3, DurationsAre
    <3> HIDE DEF d
    <3>2. Len(d) # 0
      BY <2>3, <3>1
    <3>3. Total(d) \in Nat
      BY <3>1, <3>2, TotalPositive
    <3> QED
      BY <3>3 DEF Planned, d
  <2>6. pl.target \in Nat /\ Tolerance \in Nat
    BY <2>3, DurationAssumption DEF Plan
  <2>7. CASE v.id = 0
    <3>1. v.dur = 0
      BY <2>1, <2>4, <2>7
    <3> HIDE DEF pl, v
    <3> QED
      BY <2>5, <2>6, <3>1 DEF pl, v
  <2>8. CASE v.id # 0
    <3>1. pl.timing.dur <= pl.target + Tolerance
      BY <2>8, <2>a, <2>d
    <3>2. v.dur = pl.timing.dur /\ v.dur \in Nat /\ Planned(pl) >= pl.target
      BY <2>3, <2>4
    <3> QED
      BY <2>5, <2>6, <3>1, <3>2
  <2> QED
    BY <2>7, <2>8
<1> QED
  BY <1>1, InitFInv, NextFInv, PTL DEF Spec

=============================================================================
