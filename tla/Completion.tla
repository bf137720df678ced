----------------------------- MODULE Completion -----------------------------
(***************************************************************************)
(* From the approved transcript to the completed episode: how the stages   *)
(* of the workflow worker find their next piece of work by looking at what *)
(* the episode has, what reviewers and operators do meanwhile, and the     *)
(* gates that decide that nothing is left to do.  The worker never queues  *)
(* a render on its own: an operator who advances the workflow does.        *)
(*                                                                         *)
(* The parts have modules of their own (Speech, VisualJobs, Delivery); a   *)
(* stage is one step here and what it makes passes its quality check.  The *)
(* visuals of a transcript have a generation, raised when they are made or *)
(* replaced.  Entries are numbered in the order of the episode's lists.    *)
(* The model ends with completion.                                         *)
(***************************************************************************)
EXTENDS Naturals, Sequences, FiniteSets

CONSTANTS
  Source,   \* the source language of the episode
  Language, \* the languages of its other outputs
  MaxEdits  \* bound: what people do beyond approving what waits for them

ASSUME LanguageAssumption == Source \notin Language /\ IsFiniteSet(Language)
ASSUME EditsAssumption == MaxEdits \in Nat

VARIABLES
  transcripts, \* broadcast and localized versions, with the media made for them
  timelines,
  renders,     \* with the number of thumbnails taken from each
  packages,
  completed,
  edits

vars == <<transcripts, timelines, renders, packages, completed, edits>>

Stage == {"audio", "visual", "subtitles"}
Decision == {"pending", "approved", "rejected"}

Transcript ==
  [language : {Source} \cup Language,
   parent : Nat,          \* the broadcast version that was localized
   status : Decision,
   made : SUBSET Stage,   \* the stages with all their assets completed
   media : Nat]           \* the generation of its newest visuals

Timeline == [transcript : Nat, media : Nat]  \* generation of the assets it names
Render ==
  [type : {"preview", "final"}, timeline : Nat, media : Nat,
   status : {"completed", "rejected", "replaced"}, decision : Decision,
   thumbnail : Nat]

\* A manifest and a publish job follow a package in one pass of the worker.
Package == [render : Nat, thumbnail : Nat, delivered : BOOLEAN]

NewTranscript(language, parent) ==
  [language |-> language, parent |-> parent, status |-> "pending", made |-> {},
   media |-> 0]

-----------------------------------------------------------------------------
(* What the episode has.  The newest entry of a kind is the one that       *)
(* counts, 0 when there is none: making one again retires the one before.  *)

Latest(I) == IF I = {} THEN 0 ELSE CHOOSE i \in I : \A j \in I : j <= i

Of(language) == {v \in DOMAIN transcripts : transcripts[v].language = language}
Canonical == Latest(Of(Source))
CanonicalApproved == transcripts[Canonical].status = "approved"

TimelineOf(v) == Latest({t \in DOMAIN timelines : timelines[t].transcript = v})
NewestTimeline == Len(timelines)

RenderOf(type, t) ==
  Latest({i \in DOMAIN renders : /\ renders[i].type = type /\ renders[i].timeline = t
                                 /\ renders[i].status = "completed"})

\* _latest_final_render_asset: of any timeline.
NewestFinal ==
  Latest({i \in DOMAIN renders : renders[i].type = "final"
                                 /\ renders[i].status = "completed"})

PackageOf(i) == Latest({k \in DOMAIN packages : packages[k].render = i})

Delivered(i) == PackageOf(i) # 0 /\ packages[PackageOf(i)].delivered

ApprovedRender(i) == i # 0 /\ renders[i].decision = "approved"

\* The approved localizations of a version, the newest of each language.
Localizations(v) ==
  {Latest({l \in Of(lang) : transcripts[l].status = "approved"
                            /\ transcripts[l].parent = v}) : lang \in Language} \ {0}

\* _production_transcript_candidates: without an approved canonical version, all
\* that ever were approved.
Candidates ==
  IF CanonicalApproved THEN {Canonical} \cup Localizations(Canonical)
  ELSE {v \in DOMAIN transcripts : transcripts[v].status = "approved"}

\* The candidates are tried in order: the canonical one first, else the newest.
First(V) == IF Canonical \in V THEN Canonical ELSE Latest(V)

-----------------------------------------------------------------------------
(* The next work of each stage.                                            *)

Requires(stage) == IF stage = "audio" THEN {} ELSE {"audio"}

\* The candidate a stage is at; an unmet prerequisite makes it wait, also when a
\* later candidate would be ready.
Without(stage) == {v \in Candidates : stage \notin transcripts[v].made}

CanProduce(stage) ==
  /\ Without(stage) # {}
  /\ Requires(stage) \subseteq transcripts[First(Without(stage))].made

WithoutTimeline == {v \in Candidates : TimelineOf(v) = 0}

CanBuild ==
  /\ WithoutTimeline # {}
  /\ {"audio", "visual"} \subseteq transcripts[First(WithoutTimeline)].made

\* _missing_localized_languages: a localization of any version counts.
MissingLanguages == {lang \in Language : Of(lang) = {}}

CanLocalize == CanonicalApproved /\ MissingLanguages # {}

\* Mutant: a final render is queued beside a preview nobody has approved yet, and
\* not after it.
NextRenderEarly ==
  IF NewestTimeline = 0 THEN "none"
  ELSE IF RenderOf("preview", NewestTimeline) = 0 THEN "preview"
  ELSE IF /\ RenderOf("final", NewestTimeline) = 0
          /\ ~ApprovedRender(RenderOf("preview", NewestTimeline)) THEN "final"
  ELSE "none"

\* The render that queue_render_worker_once queues, of the newest timeline, in a pass
\* with auto_queue_renders: those of the polling loops are without.
NextRender ==
  IF NewestTimeline = 0 THEN "none"
  ELSE IF RenderOf("preview", NewestTimeline) = 0 THEN "preview"
  ELSE IF /\ RenderOf("final", NewestTimeline) = 0
          /\ ApprovedRender(RenderOf("preview", NewestTimeline)) THEN "final"
  ELSE "none"

\* Mutant: a package is made only together with the first thumbnail.
PublishDueByThumbnail ==
  /\ ApprovedRender(NewestFinal)
  /\ ~(renders[NewestFinal].thumbnail # 0 /\
        (PackageOf(NewestFinal) = 0 \/ Delivered(NewestFinal)))

\* run_publishing_worker_once: what is there is not made again.
PublishDue ==
  /\ ApprovedRender(NewestFinal)
  /\ ~(renders[NewestFinal].thumbnail # 0 /\ Delivered(NewestFinal))

-----------------------------------------------------------------------------
(* The two judgements of the whole episode.                                *)

LocalizedReady ==
  \A lang \in Language :
    Of(lang) # {} /\ transcripts[Latest(Of(lang))].status = "approved"

\* Transcript, media and timeline, which both judgements ask for alike.
MediaReady ==
  /\ CanonicalApproved /\ transcripts[Canonical].made = Stage
  /\ TimelineOf(Canonical) # 0
  /\ LocalizedReady

\* The package of a final render shows its newest thumbnail and was delivered.
DeliveryReady(i) ==
  /\ ApprovedRender(i) /\ renders[i].thumbnail # 0
  /\ Delivered(i) /\ packages[PackageOf(i)].thumbnail = renders[i].thumbnail

\* Mutant: the final render may be one of another timeline.
GatesOfAnyTimeline ==
  /\ MediaReady
  /\ ApprovedRender(RenderOf("preview", TimelineOf(Canonical)))
  /\ NewestFinal # 0 /\ DeliveryReady(NewestFinal)

\* completion_readiness.  Whether the sources of a render are fresh is read from
\* the check made when it was rendered, when they always were.
Gates ==
  /\ MediaReady
  /\ ApprovedRender(RenderOf("preview", TimelineOf(Canonical)))
  /\ NewestFinal # 0 /\ renders[NewestFinal].timeline = TimelineOf(Canonical)
  /\ DeliveryReady(NewestFinal)

\* _talkshow_production_handoff, which the worker reports to operators.
Handoff ==
  LET preview == RenderOf("preview", TimelineOf(Canonical))
      final == RenderOf("final", TimelineOf(Canonical))
      blocked == \/ ~MediaReady
                 \/ preview = 0 /\ final = 0
                 \/ /\ ApprovedRender(final)
                    /\ \/ renders[final].thumbnail = 0
                       \/ /\ PackageOf(final) # 0
                          /\ packages[PackageOf(final)].thumbnail # renders[final].thumbnail
  IN IF blocked THEN "blocked"
     ELSE IF final # 0 /\ DeliveryReady(final) THEN "delivery_ready" ELSE "review_ready"

-----------------------------------------------------------------------------
Init ==
  /\ transcripts = <<NewTranscript(Source, 0)>>
  /\ timelines = <<>> /\ renders = <<>> /\ packages = <<>>
  /\ completed = FALSE
  /\ edits = 0

(* The stages of the worker.  Each is one pass over the one episode.       *)

Produce(stage) ==
  /\ ~completed /\ CanProduce(stage)
  /\ transcripts' = [transcripts EXCEPT
                       ![First(Without(stage))].made = @ \cup {stage},
                       ![First(Without(stage))].media = IF stage = "visual" THEN @ + 1 ELSE @]
  /\ UNCHANGED <<timelines, renders, packages, completed, edits>>

Localize ==
  /\ ~completed /\ CanLocalize
  /\ \E lang \in MissingLanguages :
       transcripts' = Append(transcripts, NewTranscript(lang, Canonical))
  /\ UNCHANGED <<timelines, renders, packages, completed, edits>>

Built(v) == Append(timelines, [transcript |-> v, media |-> transcripts[v].media])

BuildTimeline ==
  /\ ~completed /\ CanBuild
  /\ timelines' = Built(First(WithoutTimeline))
  /\ UNCHANGED <<transcripts, renders, packages, completed, edits>>

\* A render shows the assets its timeline names at that time.
Rendered(type, t) ==
  Append([i \in DOMAIN renders |->
            IF i = RenderOf(type, t) THEN [renders[i] EXCEPT !.status = "replaced"]
            ELSE renders[i]],
         [type |-> type, timeline |-> t, media |-> timelines[t].media,
          status |-> "completed", decision |-> "pending", thumbnail |-> 0])

Publish ==
  LET f == NewestFinal
      thumb == IF renders[f].thumbnail = 0 THEN 1 ELSE renders[f].thumbnail
  IN /\ ~completed /\ PublishDue
     /\ renders' = [renders EXCEPT ![f].thumbnail = thumb]
     /\ packages' = IF PackageOf(f) = 0
                    THEN Append(packages, [render |-> f, thumbnail |-> thumb,
                                           delivered |-> TRUE])
                    ELSE [packages EXCEPT ![PackageOf(f)].delivered = TRUE]
     /\ UNCHANGED <<transcripts, timelines, completed, edits>>

Complete ==
  /\ ~completed /\ Gates
  /\ completed' = TRUE
  /\ UNCHANGED <<transcripts, timelines, renders, packages, edits>>

-----------------------------------------------------------------------------
(* Reviewers and operators.                                                *)

\* The renders whose approval the episode shows: of the canonical version only.
Shown == {RenderOf(type, TimelineOf(Canonical)) : type \in {"preview", "final"}} \ {0}

ApproveTranscript(v) ==
  /\ v = Canonical \/ transcripts[v].language # Source
  /\ transcripts[v].status = "pending"
  /\ transcripts' = [transcripts EXCEPT ![v].status = "approved"]
  /\ UNCHANGED <<timelines, renders, packages, completed, edits>>

ApproveRender(i) ==
  /\ i \in Shown /\ renders[i].decision = "pending"
  /\ renders' = [renders EXCEPT ![i].decision = "approved"]
  /\ UNCHANGED <<transcripts, timelines, packages, completed, edits>>

Approve ==
  /\ ~completed
  /\ (\E v \in DOMAIN transcripts : ApproveTranscript(v)) \/ (\E i \in Shown : ApproveRender(i))

\* The render stage of the pass that advance_episode_workflow and
\* run_episode_workflow_until_blocked make; the render worker composes what is queued.
AdvanceWorkflow ==
  /\ ~completed /\ NextRender # "none"
  /\ renders' = Rendered(NextRender, NewestTimeline)
  /\ UNCHANGED <<transcripts, timelines, packages, completed, edits>>

Edit == ~completed /\ edits < MaxEdits /\ edits' = edits + 1 /\ UNCHANGED completed

\* record_approval_decision: a decision may be taken again at any time.
DecideTranscript ==
  /\ Edit
  /\ \E v \in DOMAIN transcripts, decision \in {"approved", "rejected"} :
       /\ v = Canonical \/ transcripts[v].language # Source
       /\ transcripts' = [transcripts EXCEPT ![v].status = decision]
  /\ UNCHANGED <<timelines, renders, packages>>

DecideRender ==
  /\ Edit
  /\ \E i \in DOMAIN renders, decision \in {"approved", "rejected"} :
       /\ decision = "approved" /\ renders[i].type = "preview" =>
            renders[i].timeline = TimelineOf(timelines[renders[i].timeline].transcript)
       /\ renders' = [renders EXCEPT ![i].decision = decision,
            ![i].status = IF decision = "rejected" THEN "rejected"
                          ELSE IF @ = "rejected" THEN "completed" ELSE @]
  /\ UNCHANGED <<transcripts, timelines, packages>>

\* _append_broadcast_revision: only a version that is not approved is revised.
Revise ==
  /\ Edit /\ ~CanonicalApproved
  /\ transcripts' = Append(transcripts, NewTranscript(Source, Canonical))
  /\ UNCHANGED <<timelines, renders, packages>>

\* create_language_variants with regenerate
LocalizeAgain ==
  /\ Edit /\ CanonicalApproved
  /\ \E lang \in Language :
       transcripts' = Append(transcripts, NewTranscript(lang, Canonical))
  /\ UNCHANGED <<timelines, renders, packages>>

\* _rewrite_active_timeline_references
NamingReplacement(v) ==
  [t \in DOMAIN timelines |->
     IF t = TimelineOf(v) /\ timelines[t].media = transcripts[v].media
     THEN [timelines[t] EXCEPT !.media = @ + 1] ELSE timelines[t]]

\* replace_asset: the replacement takes the place of an asset in the timeline.  It
\* counts for its turn only if the request says to which version it belongs.
ReplaceAsset ==
  /\ Edit
  /\ \E v \in DOMAIN transcripts, counts \in BOOLEAN :
       /\ "visual" \in transcripts[v].made
       /\ transcripts' = [transcripts EXCEPT
                            ![v].media = @ + 1,
                            ![v].made = IF counts THEN @ ELSE @ \ {"visual"}]
       /\ timelines' = NamingReplacement(v)
  /\ UNCHANGED <<renders, packages>>

\* build_timeline with regenerate
RebuildTimeline ==
  /\ Edit
  /\ \E v \in DOMAIN transcripts :
       /\ TimelineOf(v) # 0 /\ transcripts[v].status = "approved"
       /\ timelines' = Built(v)
  /\ UNCHANGED <<transcripts, renders, packages>>

\* A render request of an operator, with regenerate.
RenderAgain ==
  /\ Edit
  /\ \E type \in {"preview", "final"}, v \in DOMAIN transcripts :
       /\ TimelineOf(v) # 0
       /\ type = "final" => ApprovedRender(RenderOf("preview", TimelineOf(v)))
       /\ renders' = Rendered(type, TimelineOf(v))
  /\ UNCHANGED <<transcripts, timelines, packages>>

GenerateThumbnail ==
  /\ Edit
  /\ \E i \in DOMAIN renders :
       /\ renders[i].type = "final" /\ renders[i].status = "completed"
       /\ renders' = [renders EXCEPT ![i].thumbnail = @ + 1]
  /\ UNCHANGED <<transcripts, timelines, packages>>

ExportPackage ==
  /\ Edit
  /\ \E i \in DOMAIN renders :
       /\ renders[i].type = "final" /\ renders[i].status = "completed" /\ ApprovedRender(i)
       /\ packages' = Append(packages, [render |-> i, thumbnail |-> renders[i].thumbnail,
                                        delivered |-> FALSE])
  /\ UNCHANGED <<transcripts, timelines, renders>>

-----------------------------------------------------------------------------
Worker ==
  \/ \E stage \in Stage : Produce(stage)
  \/ Localize \/ BuildTimeline \/ Publish \/ Complete

Next ==
  \/ Worker \/ Approve \/ AdvanceWorkflow
  \/ DecideTranscript \/ DecideRender \/ Revise \/ LocalizeAgain \/ ReplaceAsset
  \/ RebuildTimeline \/ RenderAgain \/ GenerateThumbnail \/ ExportPackage

\* The worker polls, and reviewers answer what waits for them.  Nothing makes an
\* operator advance the workflow.
Spec == Init /\ [][Next]_vars /\ WF_vars(Worker) /\ WF_vars(Approve)

-----------------------------------------------------------------------------
(* Properties.                                                             *)

TypeOK ==
  /\ transcripts \in Seq(Transcript) /\ timelines \in Seq(Timeline)
  /\ renders \in Seq(Render) /\ packages \in Seq(Package)
  /\ completed \in BOOLEAN /\ edits \in 0..MaxEdits

\* No stage of the worker finds anything to do.
Quiet ==
  /\ \A stage \in Stage : ~CanProduce(stage)
  /\ ~CanLocalize /\ ~CanBuild /\ ~PublishDue /\ ~Gates

Required == {Canonical} \cup ({Latest(Of(lang)) : lang \in Language} \ {0})

WaitsForReview ==
  \/ \E v \in Required : transcripts[v].status = "pending"
  \/ \E i \in Shown : renders[i].decision = "pending"

Refused == \E v \in Required : transcripts[v].status = "rejected"

\* The newest timeline or the newest final render is not the canonical version's:
\* the queue and the packaging look there, the gates do not.
NewestElsewhere ==
  \/ NewestTimeline # TimelineOf(Canonical)
  \/ NewestFinal # 0 /\ renders[NewestFinal].timeline # TimelineOf(Canonical)

\* A thumbnail taken after the package was made is not put into it.
ThumbnailAhead ==
  LET f == NewestFinal
  IN f # 0 /\ PackageOf(f) # 0 /\ packages[PackageOf(f)].thumbnail # renders[f].thumbnail

(* An episode never lies between the stages, each of which waits for       *)
(* another: whatever people edit and in whichever order the stages run,    *)
(* when the worker finds nothing to do the episode is completed, or it is  *)
(* a person's turn: a review waits or was refused, the next render waits   *)
(* to be queued, or the episode is in one of the two corners named above.  *)
StopsOnlyForPeople ==
  ~completed /\ Quiet =>
    WaitsForReview \/ Refused \/ NextRender # "none" \/ NewestElsewhere \/ ThumbnailAhead

(* The gates and the handoff report judge the same episode in two pieces   *)
(* of code of their own.  What passes the gates is never reported as       *)
(* blocked or in review; what is reported as ready for delivery passes the *)
(* gates, unless its preview lost its approval or a final render of        *)
(* another timeline is newer.                                              *)
JudgesAgree ==
  /\ Gates => Handoff = "delivery_ready"
  /\ Handoff = "delivery_ready" =>
       Gates \/ ~ApprovedRender(RenderOf("preview", TimelineOf(Canonical)))
             \/ NewestElsewhere

(* When people have stopped editing and answer what is shown to them, and  *)
(* an operator advances the workflow as often as a render is due, the      *)
(* worker brings the episode to its completion, outside the corners named  *)
(* above: no stage undoes, or forever repeats, what another one did.       *)
ReachesCompletion ==
  []<>(NextRender = "none") => <>[](completed \/ Refused \/ NewestElsewhere \/ ThumbnailAhead)

(* docs/timeline-and-rendering.md: completion cannot reuse a render whose  *)
(* inputs have drifted after rendering.  The code compares them only while *)
(* it renders: after a replacement the old render passes the gates.        *)
CompletedShowsItsTimeline ==
  [][Complete => renders[NewestFinal].media = timelines[TimelineOf(Canonical)].media]_vars

=============================================================================
