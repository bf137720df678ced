-------------------------- MODULE CompletionProofs --------------------------
(***************************************************************************)
(* StopsOnlyForPeople and JudgesAgree, for any languages and any number of *)
(* edits.  Both follow from the state alone once it is known that the      *)
(* lists hold what their types say and that a render that counts was not   *)
(* rejected: stage by stage, a stage that finds nothing to do has left     *)
(* behind what the next one, and in the end the gates, ask for.            *)
(***************************************************************************)
EXTENDS Completion, WellFoundedInduction, TLAPS

\* A rejected render is not completed, so it counts no more.
NotRejected ==
  \A i \in DOMAIN renders :
    renders[i].status = "completed" => renders[i].decision # "rejected"

\* The episode starts with a version in its own language and keeps it.
HasSource == 1 \in DOMAIN transcripts /\ transcripts[1].language = Source

IInv == TypeOK /\ HasSource /\ NotRejected

-----------------------------------------------------------------------------
(* The newest entry.                                                       *)

Less == OpToRel(<, Nat)

LEMMA LatestIsNewest ==
  ASSUME NEW n \in Nat, NEW I \in SUBSET (1..n)
  PROVE  /\ Latest(I) \in Nat
         /\ Latest(I) = 0 <=> I = {}
         /\ I # {} => Latest(I) \in I /\ \A j \in I : j <= Latest(I)
<1>1. CASE I = {}
  BY <1>1 DEF Latest
<1>2. CASE I # {}
  <2> DEFINE D == {d \in Nat : \E i \in I : d = n - i}
  <2>1. \A y, m \in Nat : y < m => <<y, m>> \in Less
    BY DEF Less, OpToRel
  <2>2. D \in SUBSET Nat /\ D # {}
    <3>1. PICK k \in I : TRUE
      BY <1>2
    <3>2. k \in 1..n
      OBVIOUS
    <3>3. n - k \in Nat
      BY <3>2
    <3> QED
      BY <3>3
  <2>3. IsWellFoundedOn(Less, Nat)
    BY NatLessThanWellFounded DEF Less
  <2>4. PICK m \in D : \A y \in D : <<y, m>> \notin Less
    BY <2>2, <2>3, WFMin
  <2>5. \A y \in D : ~(y < m)
    BY <2>1, <2>2, <2>4
  <2>6. PICK i \in I : m = n - i
    BY <2>4
  <2>7. \A j \in I : j <= i
    <3> SUFFICES ASSUME NEW j \in I PROVE j <= i
      OBVIOUS
    <3>1. n - j \in D
      OBVIOUS
    <3>2. ~(n - j < m)
      BY <3>1, <2>5
    <3> QED
      BY <3>2, <2>6
  <2>8. Latest(I) \in I /\ \A j \in I : j <= Latest(I)
    BY <1>2, <2>7 DEF Latest
  <2>9. Latest(I) \in 1..n
    BY <2>8
  <2> HIDE DEF D
  <2> QED
    BY <1>2, <2>8, <2>9
<1> QED
  BY <1>1, <1>2

(* Whatever the lists hold, the newest entry of a kind is one of the kind, *)
(* and is 0 only where there is none.                                      *)
LEMMA NewestOfKind ==
  ASSUME NEW s, NEW S, s \in Seq(S), NEW I \in SUBSET DOMAIN s
  PROVE  /\ Latest(I) \in Nat
         /\ Latest(I) = 0 <=> I = {}
         /\ I # {} => Latest(I) \in I /\ \A j \in I : j <= Latest(I)
<1>1. Len(s) \in Nat /\ DOMAIN s = 1..Len(s)
  OBVIOUS
<1> QED
  BY <1>1, LatestIsNewest

(* A list whose entries are changed in place remains one.                  *)
LEMMA ChangedInPlace ==
  ASSUME NEW S, NEW s \in Seq(S), NEW f \in [DOMAIN s -> S]
  PROVE  f \in Seq(S) /\ DOMAIN f = DOMAIN s
<1>1. Len(s) \in Nat /\ DOMAIN s = 1..Len(s)
  OBVIOUS
<1> QED
  BY <1>1

LEMMA EntriesAre ==
  ASSUME IInv
  PROVE  /\ \A v \in DOMAIN transcripts : transcripts[v] \in Transcript
         /\ \A i \in DOMAIN renders : renders[i] \in Render
  BY DEF IInv, TypeOK

LEMMA CanonicalIs ==
  ASSUME IInv
  PROVE  Canonical \in DOMAIN transcripts /\ transcripts[Canonical].language = Source
<1>1. Of(Source) \in SUBSET DOMAIN transcripts /\ Of(Source) # {}
  BY DEF Of, IInv, HasSource
<1>2. Canonical \in Of(Source)
  BY <1>1, NewestOfKind DEF Canonical, IInv, TypeOK
<1> QED
  BY <1>2 DEF Of

LEMMA FirstIsOne ==
  ASSUME IInv, NEW V \in SUBSET DOMAIN transcripts, V # {}
  PROVE  First(V) \in V
<1>1. Latest(V) \in V
  BY NewestOfKind DEF IInv, TypeOK
<1> QED
  BY <1>1 DEF First

(* What the worker tries are versions of the transcript.                   *)
LEMMA CandidatesAre ==
  ASSUME IInv
  PROVE  Candidates \in SUBSET DOMAIN transcripts
<1>1. Canonical \in DOMAIN transcripts
  BY CanonicalIs
<1>2. \A v : Localizations(v) \in SUBSET DOMAIN transcripts
  <2> SUFFICES ASSUME NEW v, NEW l \in Localizations(v) PROVE l \in DOMAIN transcripts
    OBVIOUS
  <2>1. PICK lang \in Language :
          l = Latest({k \in Of(lang) : transcripts[k].status = "approved"
                                        /\ transcripts[k].parent = v})
    BY DEF Localizations
  <2> DEFINE K == {k \in Of(lang) : transcripts[k].status = "approved"
                                     /\ transcripts[k].parent = v}
  <2>2. K \in SUBSET DOMAIN transcripts /\ l # 0
    BY DEF Of, Localizations
  <2>3. l \in K
    BY <2>1, <2>2, NewestOfKind DEF IInv, TypeOK
  <2> QED
    BY <2>2, <2>3
<1> QED
  BY <1>1, <1>2 DEF Candidates

LEMMA TimelineIs ==
  ASSUME IInv, NEW v
  PROVE  /\ TimelineOf(v) \in Nat
         /\ TimelineOf(v) # 0 => /\ TimelineOf(v) \in DOMAIN timelines
                                 /\ timelines[TimelineOf(v)].transcript = v
<1> DEFINE I == {t \in DOMAIN timelines : timelines[t].transcript = v}
<1>1. I \in SUBSET DOMAIN timelines
  OBVIOUS
<1>2. /\ Latest(I) \in Nat
      /\ Latest(I) = 0 <=> I = {}
      /\ I # {} => Latest(I) \in I
  BY <1>1, NewestOfKind DEF IInv, TypeOK
<1> QED
  BY <1>2 DEF TimelineOf

LEMMA RenderIs ==
  ASSUME IInv, NEW type, NEW t
  PROVE  /\ RenderOf(type, t) \in Nat
         /\ RenderOf(type, t) # 0 =>
              /\ RenderOf(type, t) \in DOMAIN renders
              /\ renders[RenderOf(type, t)].type = type
              /\ renders[RenderOf(type, t)].timeline = t
              /\ renders[RenderOf(type, t)].status = "completed"
         /\ \A i \in DOMAIN renders :
              /\ renders[i].type = type /\ renders[i].timeline = t
              /\ renders[i].status = "completed"
              => RenderOf(type, t) # 0 /\ i <= RenderOf(type, t)
<1> DEFINE I == {i \in DOMAIN renders : /\ renders[i].type = type /\ renders[i].timeline = t
                                        /\ renders[i].status = "completed"}
<1>1. I \in SUBSET DOMAIN renders
  OBVIOUS
<1>2. /\ Latest(I) \in Nat
      /\ Latest(I) = 0 <=> I = {}
      /\ I # {} => Latest(I) \in I /\ \A j \in I : j <= Latest(I)
  BY <1>1, NewestOfKind DEF IInv, TypeOK
<1> QED
  BY <1>2 DEF RenderOf

LEMMA FinalIs ==
  ASSUME IInv
  PROVE  /\ NewestFinal \in Nat
         /\ NewestFinal # 0 =>
              /\ NewestFinal \in DOMAIN renders
              /\ renders[NewestFinal].type = "final"
              /\ renders[NewestFinal].status = "completed"
         /\ \A i \in DOMAIN renders :
              renders[i].type = "final" /\ renders[i].status = "completed"
              => NewestFinal # 0 /\ i <= NewestFinal
<1> DEFINE I == {i \in DOMAIN renders : renders[i].type = "final"
                                        /\ renders[i].status = "completed"}
<1>1. I \in SUBSET DOMAIN renders
  OBVIOUS
<1>2. /\ Latest(I) \in Nat
      /\ Latest(I) = 0 <=> I = {}
      /\ I # {} => Latest(I) \in I /\ \A j \in I : j <= Latest(I)
  BY <1>1, NewestOfKind DEF IInv, TypeOK
<1> QED
  BY <1>2 DEF NewestFinal

(* The newest final render of all is that of a timeline, or elsewhere.     *)
LEMMA FinalOfTimeline ==
  ASSUME IInv, NEW t, NewestFinal # 0, renders[NewestFinal].timeline = t
  PROVE  RenderOf("final", t) = NewestFinal
<1> DEFINE f == NewestFinal
           r == RenderOf("final", t)
<1>1. /\ f \in Nat /\ f \in DOMAIN renders
      /\ renders[f].type = "final" /\ renders[f].status = "completed"
  BY FinalIs
<1>2. r # 0 /\ f <= r
  BY <1>1, RenderIs
<1>3. r \in Nat /\ r \in DOMAIN renders /\ renders[r].type = "final" /\ renders[r].status = "completed"
  BY <1>2, RenderIs
<1>4. r <= f
  BY <1>3, FinalIs
<1> QED
  BY <1>1, <1>2, <1>3, <1>4

-----------------------------------------------------------------------------
(* The invariant.                                                          *)

LEMMA InitIInv == Init => IInv
<1> SUFFICES ASSUME Init PROVE IInv
  OBVIOUS
<1>1. NewTranscript(Source, 0) \in Transcript
  BY DEF NewTranscript, Transcript, Decision, Stage
<1>2. transcripts \in Seq(Transcript)
  BY <1>1 DEF Init
<1>3. /\ timelines \in Seq(Timeline) /\ renders \in Seq(Render)
      /\ packages \in Seq(Package)
  <2>1. \A S : <<>> \in Seq(S)
    OBVIOUS
  <2> QED
    BY <2>1 DEF Init
<1>6. completed \in BOOLEAN /\ edits \in 0..MaxEdits
  <2>1. completed \in BOOLEAN
    BY DEF Init
  <2>2. edits \in 0..MaxEdits
    BY EditsAssumption DEF Init
  <2> QED
    BY <2>1, <2>2
<1>4. HasSource
  BY DEF Init, HasSource, NewTranscript
<1>5. NotRejected
  BY DEF Init, NotRejected
<1> QED
  BY <1>2, <1>3, <1>4, <1>5, <1>6 DEF IInv, TypeOK

\* The parts of the invariant, one per list.
Transcripts == transcripts \in Seq(Transcript) /\ HasSource
Renders == renders \in Seq(Render) /\ NotRejected
Others ==
  /\ timelines \in Seq(Timeline) /\ packages \in Seq(Package)
  /\ completed \in BOOLEAN /\ edits \in 0..MaxEdits

LEMMA Parts == IInv <=> Transcripts /\ Renders /\ Others
  BY DEF IInv, TypeOK, Transcripts, Renders, Others

(* A new version or a changed one keeps the transcripts what they are.     *)
LEMMA NewVersion ==
  ASSUME IInv, NEW language \in {Source} \cup Language, NEW parent \in Nat,
         transcripts' = Append(transcripts, NewTranscript(language, parent))
  PROVE  Transcripts'
<1>1. NewTranscript(language, parent) \in Transcript
  BY DEF NewTranscript, Transcript, Decision, Stage
<1>2. transcripts' \in Seq(Transcript)
  BY <1>1 DEF IInv, TypeOK
<1>3. 1 \in DOMAIN transcripts' /\ transcripts'[1] = transcripts[1]
  BY DEF IInv, TypeOK, HasSource
<1> QED
  BY <1>2, <1>3 DEF Transcripts, IInv, HasSource

LEMMA ChangedVersions ==
  ASSUME IInv, transcripts' \in [DOMAIN transcripts -> Transcript],
         \A v \in DOMAIN transcripts : transcripts'[v].language = transcripts[v].language
  PROVE  Transcripts'
<1>1. transcripts' \in Seq(Transcript) /\ DOMAIN transcripts' = DOMAIN transcripts
  BY ChangedInPlace DEF IInv, TypeOK
<1> QED
  BY <1>1 DEF Transcripts, IInv, HasSource

LEMMA ChangedRenders ==
  ASSUME IInv, renders' \in [DOMAIN renders -> Render], NotRejected'
  PROVE  Renders'
<1>1. renders' \in Seq(Render)
  BY ChangedInPlace DEF IInv, TypeOK
<1> QED
  BY <1>1 DEF Renders

(* A render of a timeline, which retires the one before it.                *)
LEMMA NewRender ==
  ASSUME IInv, NEW type \in {"preview", "final"}, NEW t \in DOMAIN timelines,
         renders' = Rendered(type, t)
  PROVE  Renders'
<1> DEFINE old == [i \in DOMAIN renders |->
                     IF i = RenderOf(type, t) THEN [renders[i] EXCEPT !.status = "replaced"]
                     ELSE renders[i]]
           new == [type |-> type, timeline |-> t, media |-> timelines[t].media,
                   status |-> "completed", decision |-> "pending", thumbnail |-> 0]
<1>1. new \in Render
  <2>1. t \in Nat /\ timelines[t] \in Timeline
    BY DEF IInv, TypeOK
  <2> QED
    BY <2>1 DEF Render, Timeline, Decision
<1>2. \A i \in DOMAIN renders : old[i] \in Render /\ (old[i].status = "completed" => old[i] = renders[i])
  <2> SUFFICES ASSUME NEW i \in DOMAIN renders
               PROVE  old[i] \in Render /\ (old[i].status = "completed" => old[i] = renders[i])
    OBVIOUS
  <2>1. renders[i] \in Render
    BY DEF IInv, TypeOK
  <2> QED
    BY <2>1 DEF Render
<1>3. old \in Seq(Render) /\ DOMAIN old = DOMAIN renders
  <2>1. old \in [DOMAIN renders -> Render]
    BY <1>2
  <2> QED
    BY <2>1, ChangedInPlace DEF IInv, TypeOK
<1>4. \A i \in DOMAIN old : old[i].status = "completed" => old[i].decision # "rejected"
  BY <1>2, <1>3 DEF IInv, NotRejected
<1>5. new.decision # "rejected"
  OBVIOUS
<1>6. renders' = Append(old, new)
  BY DEF Rendered
<1> HIDE DEF old, new
<1>7. Append(old, new) \in Seq(Render)
  BY <1>1, <1>3
<1>8. \A i \in DOMAIN renders' : renders'[i] = new \/ (i \in DOMAIN old /\ renders'[i] = old[i])
  BY <1>1, <1>3, <1>6
<1>9. NotRejected'
  BY <1>4, <1>5, <1>8 DEF NotRejected
<1> QED
  BY <1>6, <1>7, <1>9 DEF Renders

LEMMA NewTimeline ==
  ASSUME IInv, NEW v \in DOMAIN transcripts
  PROVE  Built(v) \in Seq(Timeline)
<1>1. v \in Nat /\ transcripts[v] \in Transcript
  BY DEF IInv, TypeOK
<1>2. [transcript |-> v, media |-> transcripts[v].media] \in Timeline
  BY <1>1 DEF Transcript, Timeline
<1> QED
  BY <1>2 DEF Built, IInv, TypeOK

LEMMA ProduceKeeps ==
  ASSUME IInv, NEW stage \in Stage, Produce(stage)
  PROVE  IInv'
<1> DEFINE v == First(Without(stage))
<1>1. \A w \in DOMAIN transcripts : transcripts[w] \in Transcript
  BY DEF IInv, TypeOK
<1>2. transcripts' \in [DOMAIN transcripts -> Transcript]
  <2> DEFINE now(w) == IF w = v
                       THEN [transcripts[w] EXCEPT !.made = @ \cup {stage},
                               !.media = IF stage = "visual" THEN @ + 1 ELSE @]
                       ELSE transcripts[w]
  <2>1. transcripts' = [w \in DOMAIN transcripts |-> now(w)]
    BY DEF Produce
  <2>2. ASSUME NEW w \in DOMAIN transcripts
        PROVE  now(w) \in Transcript
    <3>1. transcripts[w] \in Transcript
      BY <1>1
    <3>2. /\ transcripts[w].made \cup {stage} \in SUBSET Stage
          /\ transcripts[w].media \in Nat
      BY <3>1 DEF Transcript
    <3>3. (IF stage = "visual" THEN transcripts[w].media + 1 ELSE transcripts[w].media) \in Nat
      BY <3>2
    <3> QED
      BY <3>1, <3>2, <3>3 DEF Transcript
  <2> HIDE DEF now
  <2> QED
    BY <2>1, <2>2
<1>3. \A w \in DOMAIN transcripts : transcripts'[w].language = transcripts[w].language
  BY <1>1 DEF Produce, Transcript
<1>4. Transcripts'
  BY <1>2, <1>3, ChangedVersions
<1>5. (Renders /\ Others)'
  BY Parts DEF Produce, Renders, Others, NotRejected
<1> QED
  BY <1>4, <1>5 DEF IInv, TypeOK, Transcripts, Renders, Others

LEMMA LocalizeKeeps == IInv /\ Localize => IInv'
<1> SUFFICES ASSUME IInv, Localize PROVE IInv'
  OBVIOUS
<1>1. PICK lang \in MissingLanguages :
        transcripts' = Append(transcripts, NewTranscript(lang, Canonical))
  BY DEF Localize
<1>2. lang \in {Source} \cup Language
  BY DEF MissingLanguages
<1>3. Canonical \in Nat
  BY CanonicalIs DEF IInv, TypeOK
<1>4. Transcripts'
  BY <1>1, <1>2, <1>3, NewVersion
<1> QED
  BY <1>4 DEF Localize, IInv, TypeOK, Transcripts, NotRejected

LEMMA BuildTimelineKeeps == IInv /\ BuildTimeline => IInv'
<1> SUFFICES ASSUME IInv, BuildTimeline PROVE IInv'
  OBVIOUS
<1>1. WithoutTimeline \in SUBSET DOMAIN transcripts /\ WithoutTimeline # {}
  BY CandidatesAre DEF WithoutTimeline, BuildTimeline, CanBuild
<1>2. First(WithoutTimeline) \in DOMAIN transcripts
  BY <1>1, FirstIsOne
<1>3. timelines' \in Seq(Timeline)
  BY <1>2, NewTimeline DEF BuildTimeline
<1> QED
  BY <1>3 DEF BuildTimeline, IInv, TypeOK, HasSource, NotRejected

LEMMA AdvanceKeeps == IInv /\ AdvanceWorkflow => IInv'
<1> SUFFICES ASSUME IInv, AdvanceWorkflow PROVE IInv'
  OBVIOUS
<1>1. NextRender \in {"preview", "final"} /\ NewestTimeline # 0
  BY DEF AdvanceWorkflow, NextRender
<1>2. NewestTimeline \in DOMAIN timelines
  BY <1>1 DEF NewestTimeline, IInv, TypeOK
<1>3. Renders'
  BY <1>1, <1>2, NewRender DEF AdvanceWorkflow
<1> QED
  BY <1>3 DEF AdvanceWorkflow, IInv, TypeOK, HasSource, Renders

LEMMA PublishKeeps == IInv /\ Publish => IInv'
<1> SUFFICES ASSUME IInv, Publish PROVE IInv'
  OBVIOUS
<1> DEFINE f == NewestFinal
           thumb == IF renders[f].thumbnail = 0 THEN 1 ELSE renders[f].thumbnail
           new == [render |-> f, thumbnail |-> thumb, delivered |-> TRUE]
<1>1. f # 0
  BY DEF Publish, PublishDue, ApprovedRender
<1>2. f \in Nat /\ f \in DOMAIN renders /\ renders[f] \in Render
  BY <1>1, FinalIs DEF IInv, TypeOK
<1>3. thumb \in Nat
  BY <1>2 DEF Render
<1>4. renders' = [renders EXCEPT ![f].thumbnail = thumb]
  BY DEF Publish
<1> HIDE DEF f, thumb
<1>5. \A i \in DOMAIN renders : /\ renders'[i] \in Render
                                /\ renders'[i].status = renders[i].status
                                /\ renders'[i].decision = renders[i].decision
  <2> SUFFICES ASSUME NEW i \in DOMAIN renders
               PROVE  /\ renders'[i] \in Render
                      /\ renders'[i].status = renders[i].status
                      /\ renders'[i].decision = renders[i].decision
    OBVIOUS
  <2>1. renders[i] \in Render
    BY DEF IInv, TypeOK
  <2>2. renders'[i] = IF i = f THEN [renders[i] EXCEPT !.thumbnail = thumb] ELSE renders[i]
    BY <1>4
  <2> QED
    BY <2>1, <2>2, <1>3 DEF Render
<1>6. renders' \in [DOMAIN renders -> Render]
  BY <1>4, <1>5
<1>7. Renders'
  BY <1>5, <1>6, ChangedRenders DEF IInv, NotRejected
<1>8. packages' \in Seq(Package)
  <2>1. CASE packages' = Append(packages, new)
    <3>1. new \in Package
      BY <1>2, <1>3 DEF Package
    <3> HIDE DEF new
    <3> QED
      BY <2>1, <3>1 DEF IInv, TypeOK
  <2>2. CASE packages' = [packages EXCEPT ![PackageOf(f)].delivered = TRUE]
    <3>1. \A k \in DOMAIN packages : packages[k] \in Package
      BY DEF IInv, TypeOK
    <3>2. packages' \in [DOMAIN packages -> Package]
      BY <2>2, <3>1 DEF Package
    <3> QED
      BY <3>2, ChangedInPlace DEF IInv, TypeOK
  <2> QED
    BY <2>1, <2>2 DEF Publish, f, thumb
<1> QED
  BY <1>7, <1>8 DEF Publish, IInv, TypeOK, HasSource, Renders

LEMMA CompleteKeeps == IInv /\ Complete => IInv'
  BY DEF Complete, IInv, TypeOK, HasSource, NotRejected

LEMMA EditCounts == IInv /\ Edit => edits' \in 0..MaxEdits /\ completed' = completed
  BY EditsAssumption DEF Edit, IInv, TypeOK

\* The status of one version, a decision on one render: at most those change.
LEMMA StatusChanged ==
  ASSUME IInv, NEW v, NEW decision \in Decision,
         transcripts' = [transcripts EXCEPT ![v].status = decision]
  PROVE  Transcripts'
<1>1. \A w \in DOMAIN transcripts : transcripts[w] \in Transcript
  BY DEF IInv, TypeOK
<1>2. transcripts' \in [DOMAIN transcripts -> Transcript]
  BY <1>1 DEF Transcript
<1>3. \A w \in DOMAIN transcripts : transcripts'[w].language = transcripts[w].language
  BY <1>1 DEF Transcript
<1> QED
  BY <1>2, <1>3, ChangedVersions

LEMMA ApproveKeeps == IInv /\ Approve => IInv'
<1> SUFFICES ASSUME IInv, Approve PROVE IInv'
  OBVIOUS
<1>1. CASE \E v \in DOMAIN transcripts : ApproveTranscript(v)
  <2>1. PICK v \in DOMAIN transcripts : ApproveTranscript(v)
    BY <1>1
  <2>2. Transcripts'
    BY <2>1, StatusChanged DEF ApproveTranscript, Decision
  <2> QED
    BY <2>1, <2>2 DEF ApproveTranscript, Approve, IInv, TypeOK, Transcripts, NotRejected
<1>2. CASE \E i \in Shown : ApproveRender(i)
  <2>1. PICK i \in Shown : ApproveRender(i)
    BY <1>2
  <2>2. \A j \in DOMAIN renders : renders[j] \in Render
    BY DEF IInv, TypeOK
  <2>3. renders' = [renders EXCEPT ![i].decision = "approved"]
    BY <2>1 DEF ApproveRender
  <2>4. renders' \in [DOMAIN renders -> Render]
    BY <2>2, <2>3 DEF Render, Decision
  <2>5. NotRejected'
    BY <2>2, <2>3 DEF IInv, NotRejected, Render
  <2>6. Renders'
    BY <2>4, <2>5, ChangedRenders
  <2> QED
    BY <2>1, <2>6 DEF ApproveRender, Approve, IInv, TypeOK, HasSource, Renders
<1> QED
  BY <1>1, <1>2 DEF Approve

LEMMA DecideTranscriptKeeps == IInv /\ DecideTranscript => IInv'
<1> SUFFICES ASSUME IInv, DecideTranscript PROVE IInv'
  OBVIOUS
<1>1. PICK v \in DOMAIN transcripts, decision \in {"approved", "rejected"} :
        transcripts' = [transcripts EXCEPT ![v].status = decision]
  BY DEF DecideTranscript
<1>2. Transcripts'
  BY <1>1, StatusChanged DEF Decision
<1> QED
  BY <1>2, EditCounts DEF DecideTranscript, IInv, TypeOK, Transcripts, NotRejected

LEMMA DecideRenderKeeps == IInv /\ DecideRender => IInv'
<1> SUFFICES ASSUME IInv, DecideRender PROVE IInv'
  OBVIOUS
<1>1. PICK i \in DOMAIN renders, decision \in {"approved", "rejected"} :
        renders' = [renders EXCEPT ![i].decision = decision,
          ![i].status = IF decision = "rejected" THEN "rejected"
                        ELSE IF @ = "rejected" THEN "completed" ELSE @]
  BY DEF DecideRender
<1> DEFINE now == [renders[i] EXCEPT !.decision = decision,
                     !.status = IF decision = "rejected" THEN "rejected"
                                ELSE IF @ = "rejected" THEN "completed" ELSE @]
<1>2. \A j \in DOMAIN renders : renders[j] \in Render
  BY DEF IInv, TypeOK
<1>3. now \in Render /\ (now.status = "completed" => now.decision # "rejected")
  <2>1. renders[i] \in Render
    BY <1>2
  <2> QED
    BY <2>1 DEF Render, Decision
<1>4. renders' = [j \in DOMAIN renders |-> IF j = i THEN now ELSE renders[j]]
  BY <1>1
<1> HIDE DEF now
<1>5. renders' \in [DOMAIN renders -> Render]
  BY <1>2, <1>3, <1>4
<1>6. NotRejected'
  BY <1>3, <1>4 DEF IInv, NotRejected
<1>7. Renders'
  BY <1>5, <1>6, ChangedRenders
<1> QED
  BY <1>7, EditCounts DEF DecideRender, IInv, TypeOK, HasSource, Renders

LEMMA ReviseKeeps == IInv /\ Revise => IInv'
<1> SUFFICES ASSUME IInv, Revise PROVE IInv'
  OBVIOUS
<1>1. Canonical \in Nat
  BY CanonicalIs DEF IInv, TypeOK
<1>2. Transcripts'
  BY <1>1, NewVersion DEF Revise
<1> QED
  BY <1>2, EditCounts DEF Revise, IInv, TypeOK, Transcripts, NotRejected

LEMMA LocalizeAgainKeeps == IInv /\ LocalizeAgain => IInv'
<1> SUFFICES ASSUME IInv, LocalizeAgain PROVE IInv'
  OBVIOUS
<1>1. Canonical \in Nat
  BY CanonicalIs DEF IInv, TypeOK
<1>2. Transcripts'
  BY <1>1, NewVersion DEF LocalizeAgain
<1> QED
  BY <1>2, EditCounts DEF LocalizeAgain, IInv, TypeOK, Transcripts, NotRejected

LEMMA ReplaceAssetKeeps == IInv /\ ReplaceAsset => IInv'
<1> SUFFICES ASSUME IInv, ReplaceAsset PROVE IInv'
  OBVIOUS
<1>1. PICK v \in DOMAIN transcripts, counts \in BOOLEAN :
        /\ transcripts' = [transcripts EXCEPT
                             ![v].media = @ + 1,
                             ![v].made = IF counts THEN @ ELSE @ \ {"visual"}]
        /\ timelines' = NamingReplacement(v)
  BY DEF ReplaceAsset
<1>2. \A w \in DOMAIN transcripts : transcripts[w] \in Transcript
  BY DEF IInv, TypeOK
<1> DEFINE made == IF counts THEN transcripts[v].made ELSE transcripts[v].made \ {"visual"}
           now == [transcripts[v] EXCEPT !.media = @ + 1, !.made = made]
<1>3. now \in Transcript /\ now.language = transcripts[v].language
  <2>1. transcripts[v] \in Transcript
    BY <1>2
  <2>2. transcripts[v].made \in SUBSET Stage /\ transcripts[v].made \ {"visual"} \in SUBSET Stage
    BY <2>1 DEF Transcript
  <2>3. made \in SUBSET Stage
    BY <2>2, Zenon
  <2>4. transcripts[v].media + 1 \in Nat
    BY <2>1 DEF Transcript
  <2> HIDE DEF made
  <2> QED
    BY <2>1, <2>3, <2>4 DEF Transcript
<1>4. transcripts' = [w \in DOMAIN transcripts |-> IF w = v THEN now ELSE transcripts[w]]
  BY <1>1
<1> HIDE DEF now
<1>5. transcripts' \in [DOMAIN transcripts -> Transcript]
  BY <1>2, <1>3, <1>4
<1>6. \A w \in DOMAIN transcripts : transcripts'[w].language = transcripts[w].language
  BY <1>3, <1>4
<1>7. Transcripts'
  BY <1>5, <1>6, ChangedVersions
<1>8. \A t \in DOMAIN timelines : timelines[t] \in Timeline
  BY DEF IInv, TypeOK
<1>9. timelines' \in [DOMAIN timelines -> Timeline]
  BY <1>1, <1>8 DEF NamingReplacement, Timeline
<1>10. timelines' \in Seq(Timeline)
  BY <1>9, ChangedInPlace DEF IInv, TypeOK
<1> QED
  BY <1>7, <1>10, EditCounts DEF ReplaceAsset, IInv, TypeOK, Transcripts, NotRejected

LEMMA RebuildTimelineKeeps == IInv /\ RebuildTimeline => IInv'
<1> SUFFICES ASSUME IInv, RebuildTimeline PROVE IInv'
  OBVIOUS
<1>1. timelines' \in Seq(Timeline)
  BY NewTimeline DEF RebuildTimeline
<1> QED
  BY <1>1, EditCounts DEF RebuildTimeline, IInv, TypeOK, HasSource, NotRejected

LEMMA RenderAgainKeeps == IInv /\ RenderAgain => IInv'
<1> SUFFICES ASSUME IInv, RenderAgain PROVE IInv'
  OBVIOUS
<1>1. PICK type \in {"preview", "final"}, v \in DOMAIN transcripts :
        TimelineOf(v) # 0 /\ renders' = Rendered(type, TimelineOf(v))
  BY DEF RenderAgain
<1>2. TimelineOf(v) \in DOMAIN timelines
  BY <1>1, TimelineIs
<1>3. Renders'
  BY <1>1, <1>2, NewRender
<1> QED
  BY <1>3, EditCounts DEF RenderAgain, IInv, TypeOK, HasSource, Renders

LEMMA GenerateThumbnailKeeps == IInv /\ GenerateThumbnail => IInv'
<1> SUFFICES ASSUME IInv, GenerateThumbnail PROVE IInv'
  OBVIOUS
<1>1. PICK i \in DOMAIN renders : renders' = [renders EXCEPT ![i].thumbnail = @ + 1]
  BY DEF GenerateThumbnail
<1>2. \A j \in DOMAIN renders : renders[j] \in Render
  BY DEF IInv, TypeOK
<1>3. renders' \in [DOMAIN renders -> Render]
  <2> DEFINE now == [renders[i] EXCEPT !.thumbnail = @ + 1]
  <2>1. now \in Render
    <3>1. renders[i] \in Render
      BY <1>2
    <3>2. renders[i].thumbnail + 1 \in Nat
      BY <3>1 DEF Render
    <3> QED
      BY <3>1, <3>2 DEF Render
  <2>2. renders' = [j \in DOMAIN renders |-> IF j = i THEN now ELSE renders[j]]
    BY <1>1
  <2> HIDE DEF now
  <2> QED
    BY <1>2, <2>1, <2>2
<1>4. NotRejected'
  BY <1>1, <1>2 DEF IInv, NotRejected, Render
<1>5. Renders'
  BY <1>3, <1>4, ChangedRenders
<1> QED
  BY <1>5, EditCounts DEF GenerateThumbnail, IInv, TypeOK, HasSource, Renders

LEMMA ExportPackageKeeps == IInv /\ ExportPackage => IInv'
<1> SUFFICES ASSUME IInv, ExportPackage PROVE IInv'
  OBVIOUS
<1>1. PICK i \in DOMAIN renders :
        packages' = Append(packages, [render |-> i, thumbnail |-> renders[i].thumbnail,
                                      delivered |-> FALSE])
  BY DEF ExportPackage
<1>2. i \in Nat /\ renders[i] \in Render
  BY DEF IInv, TypeOK
<1>3. [render |-> i, thumbnail |-> renders[i].thumbnail, delivered |-> FALSE] \in Package
  BY <1>2 DEF Render, Package
<1>4. packages' \in Seq(Package)
  BY <1>1, <1>3 DEF IInv, TypeOK
<1> QED
  BY <1>4, EditCounts DEF ExportPackage, IInv, TypeOK, HasSource, NotRejected

LEMMA NextIInv == IInv /\ [Next]_vars => IInv'
<1> SUFFICES ASSUME IInv, [Next]_vars PROVE IInv'
  OBVIOUS
<1>1. CASE Worker
  BY <1>1, ProduceKeeps, LocalizeKeeps, BuildTimelineKeeps, PublishKeeps, CompleteKeeps
     DEF Worker
<1>2. CASE Approve \/ AdvanceWorkflow
  BY <1>2, ApproveKeeps, AdvanceKeeps
<1>3. CASE DecideTranscript \/ DecideRender \/ Revise \/ LocalizeAgain \/ ReplaceAsset
  BY <1>3, DecideTranscriptKeeps, DecideRenderKeeps, ReviseKeeps, LocalizeAgainKeeps,
     ReplaceAssetKeeps
<1>4. CASE RebuildTimeline \/ RenderAgain \/ GenerateThumbnail \/ ExportPackage
  BY <1>4, RebuildTimelineKeeps, RenderAgainKeeps, GenerateThumbnailKeeps, ExportPackageKeeps
<1>5. CASE UNCHANGED vars
  BY <1>5 DEF vars, IInv, TypeOK, HasSource, NotRejected
<1> QED
  BY <1>1, <1>2, <1>3, <1>4, <1>5 DEF Next

-----------------------------------------------------------------------------
(* The invariant holds in every reachable state.                           *)
THEOREM InvariantHolds == Spec => []IInv
<1> QED
  BY InitIInv, NextIInv, PTL DEF Spec

(* The episode's lists hold what the code puts into them, in every         *)
(* reachable state and for any languages and edits.                        *)
THEOREM TypesHold == Spec => []TypeOK
<1>1. IInv => TypeOK
  BY DEF IInv
<1> QED
  BY <1>1, InvariantHolds, PTL

-----------------------------------------------------------------------------
(* Where the newest final render is of the canonical version's timeline,   *)
(* gates and report ask the same of it.                                    *)
LEMMA GatesAreReported == IInv /\ Gates => Handoff = "delivery_ready"
<1> SUFFICES ASSUME IInv, Gates PROVE Handoff = "delivery_ready"
  OBVIOUS
<1> DEFINE t == TimelineOf(Canonical)
<1>1. /\ MediaReady /\ NewestFinal # 0 /\ renders[NewestFinal].timeline = t
      /\ DeliveryReady(NewestFinal)
  BY DEF Gates
<1>2. RenderOf("final", t) = NewestFinal
  BY <1>1, FinalOfTimeline
<1> QED
  BY <1>1, <1>2 DEF Handoff, DeliveryReady

LEMMA ReportMeansGates ==
  IInv /\ Handoff = "delivery_ready" =>
    \/ Gates \/ ~ApprovedRender(RenderOf("preview", TimelineOf(Canonical)))
    \/ NewestElsewhere
<1> SUFFICES ASSUME IInv, Handoff = "delivery_ready",
                    ApprovedRender(RenderOf("preview", TimelineOf(Canonical))),
                    ~NewestElsewhere
             PROVE  Gates
  OBVIOUS
<1> DEFINE final == RenderOf("final", TimelineOf(Canonical))
<1>1. MediaReady /\ final # 0 /\ DeliveryReady(final)
  BY DEF Handoff
<1>2. NewestFinal # 0
  BY <1>1, RenderIs, FinalIs
<1>3. renders[NewestFinal].timeline = TimelineOf(Canonical)
  BY <1>2 DEF NewestElsewhere
<1>4. final = NewestFinal
  BY <1>2, <1>3, FinalOfTimeline
<1> QED
  BY <1>1, <1>2, <1>3, <1>4 DEF Gates

(* completion_readiness and _talkshow_production_handoff agree in every    *)
(* reachable state, up to the two differences that JudgesAgree names.      *)
THEOREM JudgesAlwaysAgree == Spec => []JudgesAgree
<1>1. IInv => JudgesAgree
  BY GatesAreReported, ReportMeansGates DEF JudgesAgree
<1> QED
  BY <1>1, InvariantHolds, PTL

-----------------------------------------------------------------------------
(* The stages are followed from the transcript to the gates: each that     *)
(* finds nothing to do, while nobody is asked and nothing was refused, has *)
(* made what it makes for every version that the gates look at.            *)

LEMMA QuietIsReviewed ==
  ASSUME IInv, Quiet, ~WaitsForReview, ~Refused
  PROVE  CanonicalApproved /\ LocalizedReady
<1>1. \A v \in Required : v \in DOMAIN transcripts => transcripts[v].status = "approved"
  <2> SUFFICES ASSUME NEW v \in Required, v \in DOMAIN transcripts
               PROVE  transcripts[v].status = "approved"
    OBVIOUS
  <2>1. transcripts[v] \in Transcript
    BY EntriesAre
  <2>2. transcripts[v].status \in Decision
    BY <2>1 DEF Transcript
  <2> QED
    BY <2>2 DEF WaitsForReview, Refused, Decision
<1>2. CanonicalApproved
  BY <1>1, CanonicalIs DEF Required, CanonicalApproved
<1>3. MissingLanguages = {}
  BY <1>2 DEF Quiet, CanLocalize
<1>4. ASSUME NEW lang \in Language
      PROVE  Of(lang) # {} /\ transcripts[Latest(Of(lang))].status = "approved"
  <2>1. Of(lang) # {} /\ Of(lang) \in SUBSET DOMAIN transcripts
    BY <1>3 DEF MissingLanguages, Of
  <2>2. Latest(Of(lang)) \in DOMAIN transcripts /\ Latest(Of(lang)) # 0
    BY <2>1, NewestOfKind DEF IInv, TypeOK
  <2> QED
    BY <1>1, <2>1, <2>2 DEF Required
<1> QED
  BY <1>2, <1>4 DEF LocalizedReady

LEMMA QuietIsMade ==
  ASSUME IInv, Quiet, CanonicalApproved
  PROVE  transcripts[Canonical].made = Stage /\ TimelineOf(Canonical) # 0
<1>1. Canonical \in Candidates /\ Candidates \in SUBSET DOMAIN transcripts
  BY CandidatesAre DEF Candidates
<1>2. \A stage \in Stage : Without(stage) \in SUBSET Candidates
  BY DEF Without
<1>3. Without("audio") = {}
  BY DEF Quiet, CanProduce, Requires, Stage
<1>4. ASSUME NEW stage \in {"visual", "subtitles"} PROVE Without(stage) = {}
  <2> SUFFICES ASSUME Without(stage) # {} PROVE FALSE
    OBVIOUS
  <2>1. stage \in Stage /\ stage # "audio"
    BY DEF Stage
  <2>2. First(Without(stage)) \in Candidates
    <3>1. First(Without(stage)) \in Without(stage)
      BY <1>1, <1>2, <2>1, FirstIsOne
    <3> QED
      BY <1>2, <2>1, <3>1
  <2>3. "audio" \in transcripts[First(Without(stage))].made
    BY <1>3, <2>2 DEF Without
  <2> QED
    BY <2>1, <2>3 DEF Quiet, CanProduce, Requires
<1>5. ASSUME NEW v \in Candidates PROVE Stage \subseteq transcripts[v].made
  BY <1>3, <1>4 DEF Without, Stage
<1>6. transcripts[Canonical].made = Stage
  <2>1. transcripts[Canonical] \in Transcript
    BY CanonicalIs, EntriesAre
  <2>2. transcripts[Canonical].made \in SUBSET Stage
    BY <2>1 DEF Transcript
  <2> QED
    BY <1>1, <1>5, <2>2
<1>7. WithoutTimeline = {}
  <2> SUFFICES ASSUME WithoutTimeline # {} PROVE FALSE
    OBVIOUS
  <2>1. WithoutTimeline \in SUBSET Candidates
    BY DEF WithoutTimeline
  <2>2. First(WithoutTimeline) \in Candidates
    BY <1>1, <2>1, FirstIsOne
  <2> QED
    BY <1>5, <2>2 DEF Quiet, CanBuild, Stage
<1> QED
  BY <1>1, <1>6, <1>7 DEF WithoutTimeline

LEMMA ShownIsApproved ==
  ASSUME IInv, ~WaitsForReview, NEW type \in {"preview", "final"},
         RenderOf(type, TimelineOf(Canonical)) # 0
  PROVE  ApprovedRender(RenderOf(type, TimelineOf(Canonical)))
<1> DEFINE i == RenderOf(type, TimelineOf(Canonical))
<1>1. i \in Shown
  BY DEF Shown
<1>2. i \in DOMAIN renders /\ renders[i].status = "completed"
  BY RenderIs
<1>3. renders[i].decision \in Decision
  <2>1. renders[i] \in Render
    BY <1>2, EntriesAre
  <2> QED
    BY <2>1 DEF Render
<1>4. renders[i].decision # "rejected"
  BY <1>2 DEF IInv, NotRejected
<1> QED
  BY <1>1, <1>3, <1>4 DEF WaitsForReview, ApprovedRender, Decision

LEMMA QuietIsGated ==
  ASSUME IInv, Quiet, ~WaitsForReview, ~Refused, NextRender = "none", ~NewestElsewhere
  PROVE  ThumbnailAhead
<1> DEFINE t == TimelineOf(Canonical)
<1>1. CanonicalApproved /\ LocalizedReady
  BY QuietIsReviewed
<1>2. transcripts[Canonical].made = Stage /\ t # 0
  BY <1>1, QuietIsMade
<1>3. MediaReady
  BY <1>1, <1>2 DEF MediaReady
<1>4. NewestTimeline = t
  BY DEF NewestElsewhere
<1>5. RenderOf("preview", t) # 0
  BY <1>2, <1>4 DEF NextRender
<1>6. ApprovedRender(RenderOf("preview", t))
  BY <1>5, ShownIsApproved
<1>7. RenderOf("final", t) # 0
  BY <1>2, <1>4, <1>5, <1>6 DEF NextRender
<1>8. ApprovedRender(RenderOf("final", t))
  BY <1>7, ShownIsApproved
<1>9. NewestFinal # 0 /\ renders[NewestFinal].timeline = t
  BY <1>7, RenderIs, FinalIs DEF NewestElsewhere
<1>10. RenderOf("final", t) = NewestFinal
  BY <1>9, FinalOfTimeline
<1>11. renders[NewestFinal].thumbnail # 0 /\ Delivered(NewestFinal)
  BY <1>8, <1>10 DEF Quiet, PublishDue
<1>12. ~DeliveryReady(NewestFinal)
  BY <1>3, <1>6, <1>9 DEF Quiet, Gates
<1> QED
  BY <1>8, <1>9, <1>10, <1>11, <1>12 DEF DeliveryReady, ThumbnailAhead, Delivered

(* When the worker finds nothing to do, the episode is completed, a review *)
(* waits or was refused, a render waits for an operator to queue it, or    *)
(* one of the two named corners is reached: in every reachable state, for  *)
(* any languages and any edits.                                            *)
THEOREM HeldUpByPeopleOnly == Spec => []StopsOnlyForPeople
<1>1. IInv => StopsOnlyForPeople
  BY QuietIsGated DEF StopsOnlyForPeople
<1> QED
  BY <1>1, InvariantHolds, PTL

=============================================================================
