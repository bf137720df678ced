------------------------------ MODULE Delivery ------------------------------
(***************************************************************************)
(* From the timeline to the published episode: the queue of render         *)
(* requests, the decisions on renders, packages, the production manifest   *)
(* and publish jobs of one episode.                                        *)
(*                                                                         *)
(* A handler is an operator from the episode as it was loaded to the       *)
(* episode it saves.  Requests load and save in one step here              *)
(* (EpisodeStore has what can happen between); a render and a delivery     *)
(* take minutes, so the render worker, the publishing worker and a publish *)
(* request keep the episode they loaded, and save it as a whole at the end *)
(* through the plain repository, which compares nothing.                   *)
(*                                                                         *)
(* One transcript, one preset and one publisher target; the id of an asset *)
(* is its place in the episode's list.  Thumbnails, files and wording are  *)
(* left out, and of a quality result only whether it fails.                *)
(***************************************************************************)
EXTENDS Naturals, Sequences, FiniteSets

CONSTANTS
  Sender,        \* processes that deliver: publishing workers and publish requests
  RenderRequest, \* the render requests that are made: type and flags
  PreviewExport, \* the values of allow_preview_render in requests
  AutoLive,      \* publisher_automated_live_enabled, and a target that allows it
  MaxTimelines,  \* bounds: timelines built or edited,
  MaxRenders,    \* render requests,
  MaxPackages,   \* packages and
  MaxJobs,       \* publish jobs of an episode,
  MaxCrashes     \* processes killed, or ended by an error that nobody catches

ASSUME DeliveryAssumption ==
  /\ IsFiniteSet(Sender)
  /\ RenderRequest \subseteq [type : {"preview", "final"}, regenerate : BOOLEAN,
                              unapproved : BOOLEAN]
  /\ PreviewExport \subseteq BOOLEAN
  /\ AutoLive \in BOOLEAN
  /\ MaxTimelines \in Nat /\ MaxRenders \in Nat /\ MaxPackages \in Nat
  /\ MaxJobs \in Nat /\ MaxCrashes \in Nat

VARIABLES
  row,      \* the stored episode
  composer, \* the render worker: the render it is at and the episode it loaded
  sender,   \* the deliveries under way, each with the episode it will save
  sent,     \* live deliveries made
  lost,     \* a delivery was made of which no record came into the row, or stayed
  crashes

vars == <<row, composer, sender, sent, lost, crashes>>

Queued == {"submitted", "running"}
RenderStatus == Queued \cup {"completed", "rejected", "failed", "replaced"}
Decision == {"none", "pending", "approved", "rejected"}

Render == [type : {"preview", "final"}, timeline : Nat, status : RenderStatus,
           decision : Decision, regenerate : BOOLEAN, unapproved : BOOLEAN]
Package == [render : Nat, status : {"completed", "replaced"}, passed : BOOLEAN]
Job == [package : Nat, live : BOOLEAN, status : {"completed", "failed", "replaced"}]

Episode ==
  [completed : BOOLEAN,         \* the status is COMPLETED; no other matters here
   control : {"open", "paused", "cancelled"},
   timeline : Nat,              \* the completed timeline, 0 before the first
   sound : BOOLEAN,             \* its integrity result does not fail
   renders : Seq(Render),
   packages : Seq(Package),
   manifest : [package : Nat, jobs : Nat],  \* the completed one: package, jobs embedded
   jobs : Seq(Job)]

NewEpisode ==
  [completed |-> FALSE, control |-> "open", timeline |-> 0, sound |-> FALSE,
   renders |-> <<>>, packages |-> <<>>, manifest |-> [package |-> 0, jobs |-> 0],
   jobs |-> <<>>]

Idle == [busy |-> FALSE, copy |-> NewEpisode, render |-> 0]
Unsent == [busy |-> FALSE, copy |-> NewEpisode, seen |-> 0, live |-> FALSE]

-----------------------------------------------------------------------------
(* Looking assets up: the latest one wins, 0 when there is none.           *)

Latest(I) == IF I = {} THEN 0 ELSE CHOOSE i \in I : \A j \in I : j <= i

Blocked(e) == e.control # "open"

RendersOf(e, type, t, statuses) ==
  {i \in DOMAIN e.renders : /\ e.renders[i].type = type
                            /\ e.renders[i].timeline = t
                            /\ e.renders[i].status \in statuses}

\* Mutant: a render that is being composed is not looked for.
ActiveSubmitted(e, type) ==
  Latest(RendersOf(e, type, e.timeline, {"submitted", "completed"}))

\* _active_render_asset: what a new request has to reckon with.
Active(e, type) == Latest(RendersOf(e, type, e.timeline, Queued \cup {"completed"}))

Existing(e, i) ==
  Latest(RendersOf(e, e.renders[i].type, e.renders[i].timeline, {"completed"}))

\* _ensure_preview_approved looks at the latest preview of the timeline only.
PreviewApproved(e) ==
  LET p == Latest(RendersOf(e, "preview", e.timeline, {"completed"}))
  IN p # 0 /\ e.renders[p].decision = "approved"

\* Mutant: a render left running by a killed worker is not taken up again.
NextQueuedSubmitted(e) ==
  Latest({i \in DOMAIN e.renders : e.renders[i].status = "submitted"})

\* The newest request first; a render left running by a killed worker again.
NextQueued(e) == Latest({i \in DOMAIN e.renders : e.renders[i].status \in Queued})

\* Of any timeline: packaging does not ask whether the timeline is current.
LatestFinal(e) ==
  Latest({i \in DOMAIN e.renders : e.renders[i].type = "final"
                                   /\ e.renders[i].status = "completed"})

LatestPackage(e, i) ==
  Latest({p \in DOMAIN e.packages : e.packages[p].render = i
                                    /\ e.packages[p].status = "completed"})

JobsOf(e, p) == {j \in DOMAIN e.jobs : e.jobs[j].package = p}
Standing(e, p) == {j \in JobsOf(e, p) : e.jobs[j].status # "replaced"}

LiveJobs(e) == Cardinality({j \in DOMAIN e.jobs : e.jobs[j].live})

ReplacedAt(assets, i) ==
  [k \in DOMAIN assets |-> IF k = i THEN [assets[k] EXCEPT !.status = "replaced"]
                                    ELSE assets[k]]

-----------------------------------------------------------------------------
(* The handlers, from episode to episode.                                  *)

\* enqueue_render: a request that is already queued changes nothing.
CanEnqueue(e, r) ==
  /\ e.timeline # 0 /\ e.sound
  /\ r.type = "final" /\ ~r.unapproved => PreviewApproved(e)
  /\ Active(e, r.type) # 0 => /\ e.renders[Active(e, r.type)].status \notin Queued
                              /\ r.regenerate

Enqueued(e, r) ==
  [e EXCEPT !.completed = FALSE,
            !.renders = Append(ReplacedAt(@, Active(e, r.type)),
              [type |-> r.type, timeline |-> e.timeline, status |-> "submitted",
               decision |-> "none", regenerate |-> r.regenerate,
               unapproved |-> r.unapproved])]

Started(e, i) == [e EXCEPT !.renders[i].status = "running"]

\* Mutant: the preview is checked only when the request is queued.
StillFitsTimeline(e, i) ==
  /\ e.renders[i].timeline = e.timeline /\ e.sound
  /\ Existing(e, i) # 0 => e.renders[i].regenerate

\* What render_episode checks again when the request's turn has come.
StillFits(e, i) ==
  /\ e.renders[i].timeline = e.timeline /\ e.sound
  /\ e.renders[i].type = "final" /\ ~e.renders[i].unapproved => PreviewApproved(e)
  /\ Existing(e, i) # 0 => e.renders[i].regenerate

\* A render that fails its quality check is rejected, without an approval.
Rendered(e, i, passed) ==
  [e EXCEPT !.completed = FALSE,
            !.renders = [ReplacedAt(@, Existing(e, i)) EXCEPT
              ![i].status = IF passed THEN "completed" ELSE "rejected",
              ![i].decision = IF passed THEN "pending" ELSE "none"]]

\* The render that existed has been replaced by then, if the checks passed.
RenderFailed(e, i) ==
  [e EXCEPT !.completed = FALSE,
            !.renders = [ReplacedAt(@, IF StillFits(e, i) THEN Existing(e, i) ELSE 0)
                           EXCEPT ![i].status = "failed"]]

\* record_approval_decision: any decision may be taken again, on any render that
\* has an approval; a preview must show the completed timeline.
CanDecide(e, i, decision) ==
  /\ e.renders[i].decision # "none"
  /\ decision = "approved" /\ e.renders[i].type = "preview" =>
       e.renders[i].timeline = e.timeline

Decided(e, i, decision) ==
  [e EXCEPT !.renders[i].decision = decision,
            !.renders[i].status = IF decision = "rejected" THEN "rejected"
                                  ELSE IF @ = "rejected" THEN "completed" ELSE @]

\* export_youtube_package; a request may allow a preview to be packaged.
CanExport(e, i, regenerate, preview) ==
  /\ e.renders[i].status = "completed"
  /\ preview \/ (e.renders[i].type = "final" /\ e.renders[i].decision = "approved")
  /\ LatestPackage(e, i) # 0 => regenerate

Exported(e, i, passed) ==
  [e EXCEPT !.packages = Append(ReplacedAt(@, LatestPackage(e, i)),
              [render |-> i, status |-> "completed", passed |-> passed])]

\* generate_production_manifest replaces the manifests of all packages.
CanManifest(e, p, regenerate) ==
  /\ e.packages[p].status = "completed" /\ e.packages[p].passed
  /\ e.renders[e.packages[p].render].status = "completed"
  /\ e.manifest.package = p => regenerate

Manifested(e, p) == [e EXCEPT !.manifest = [package |-> p, jobs |-> Len(e.jobs)]]

\* publish_package; only a live delivery needs the manifest.
CanPublish(e, p, live, regenerate) ==
  /\ e.packages[p].status = "completed" /\ e.packages[p].passed
  /\ live => e.manifest.package = p
  /\ Standing(e, p) # {} => regenerate

\* Mutant: a failed delivery leaves no job.
PublishedIfCompleted(e, p, live, result) ==
  IF result = "failed" THEN e
  ELSE [e EXCEPT !.completed = @ \/ live,
                 !.jobs = Append(ReplacedAt(@, Latest(JobsOf(e, p))),
                                 [package |-> p, live |-> live, status |-> result])]

Published(e, p, live, result) ==
  [e EXCEPT !.completed = @ \/ (live /\ result = "completed"),
            !.jobs = Append(ReplacedAt(@, Latest(JobsOf(e, p))),
                            [package |-> p, live |-> live, status |-> result])]

\* The part of completion_readiness that is about delivery.
Gates(e) ==
  LET f == LatestFinal(e)
      p == LatestPackage(e, f)
      j == Latest(Standing(e, p))
  IN /\ e.timeline # 0 /\ e.sound /\ PreviewApproved(e)
     /\ f # 0 /\ e.renders[f].timeline = e.timeline /\ e.renders[f].decision = "approved"
     /\ p # 0 /\ e.packages[p].passed /\ e.manifest.package = p
     /\ j # 0 /\ e.jobs[j].status = "completed" /\ j <= e.manifest.jobs
     /\ \A i \in DOMAIN e.renders :
          e.renders[i].timeline = e.timeline => e.renders[i].status # "failed"

-----------------------------------------------------------------------------
Init ==
  /\ row = NewEpisode
  /\ composer = Idle
  /\ sender = [s \in Sender |-> Unsent]
  /\ sent = 0
  /\ lost = FALSE
  /\ crashes = 0

Request(e) == row' = e /\ UNCHANGED <<composer, sender, sent, lost, crashes>>

\* build_timeline and update_timeline: the timeline before it is replaced.
BuildTimeline ==
  /\ row.timeline < MaxTimelines
  /\ \E sound \in BOOLEAN, completed \in {FALSE, row.completed} :
       Request([row EXCEPT !.timeline = @ + 1, !.sound = sound, !.completed = completed])

EnqueueRender ==
  /\ Len(row.renders) < MaxRenders
  /\ \E r \in RenderRequest : CanEnqueue(row, r) /\ Request(Enqueued(row, r))

Decide ==
  \E i \in DOMAIN row.renders, decision \in {"approved", "rejected"} :
    CanDecide(row, i, decision) /\ Request(Decided(row, i, decision))

ExportPackage ==
  /\ Len(row.packages) < MaxPackages
  /\ \E i \in DOMAIN row.renders, preview \in PreviewExport,
        regenerate, passed \in BOOLEAN :
       CanExport(row, i, regenerate, preview) /\ Request(Exported(row, i, passed))

GenerateManifest ==
  \E p \in DOMAIN row.packages, regenerate \in BOOLEAN :
    CanManifest(row, p, regenerate) /\ Request(Manifested(row, p))

\* pause, resume and cancel of WorkflowControl, as far as they matter here.
Steer ==
  \E control \in {"open", "paused", "cancelled"} :
    /\ row.control # "cancelled" /\ control # row.control
    /\ Request([row EXCEPT !.control = control])

\* run_completion_worker_once, or the complete action.
Complete ==
  /\ ~Blocked(row) /\ ~row.completed /\ Gates(row)
  /\ Request([row EXCEPT !.completed = TRUE])

-----------------------------------------------------------------------------
(* The render worker.  A preview may have been requested with              *)
(* allow_paused_episode, which holds for a pause and not for a             *)
(* cancellation.                                                           *)

RenderStart ==
  /\ ~composer.busy
  /\ NextQueued(row) # 0
  /\ \/ ~Blocked(row)
     \/ row.control = "paused" /\ row.renders[NextQueued(row)].type = "preview"
  /\ row' = Started(row, NextQueued(row))
  /\ composer' = [busy |-> TRUE, copy |-> row', render |-> NextQueued(row)]
  /\ UNCHANGED <<sender, sent, lost, crashes>>

\* The row has a live delivery that the episode about to be saved does not know.
Overwrites(known) == LiveJobs(row) # known

RenderEnd ==
  LET e == composer.copy
      i == composer.render
  IN /\ composer.busy
     /\ \/ StillFits(e, i) /\ \E passed \in BOOLEAN : row' = Rendered(e, i, passed)
        \/ row' = RenderFailed(e, i)
     /\ lost' = (lost \/ Overwrites(LiveJobs(e)))
     /\ composer' = Idle
     /\ UNCHANGED <<sender, sent, crashes>>

RenderCrash ==
  /\ composer.busy /\ crashes < MaxCrashes
  /\ composer' = Idle
  /\ crashes' = crashes + 1
  /\ UNCHANGED <<row, sender, sent, lost>>

-----------------------------------------------------------------------------
(* Deliveries.  A target may fail, and a failed delivery may have reached  *)
(* it; either way the attempt is made now and recorded by the save.        *)

Deliver(s, e, live) ==
  /\ sender' = [sender EXCEPT ![s] =
                  [busy |-> TRUE, copy |-> e, seen |-> LiveJobs(row), live |-> live]]
  /\ sent' = IF live THEN sent + 1 ELSE sent
  /\ UNCHANGED <<row, composer, lost, crashes>>

PublishRequest(s) ==
  /\ ~sender[s].busy
  /\ Len(row.jobs) < MaxJobs
  /\ \E p \in DOMAIN row.packages, live, regenerate \in BOOLEAN,
        result \in {"completed", "failed"} :
       /\ CanPublish(row, p, live, regenerate)
       /\ ~live => result = "completed"
       /\ Deliver(s, Published(row, p, live, result), live)

\* run_publishing_worker_once up to its publish job: the package and the
\* manifest are made if they are missing.
WithPackage(e, f) ==
  IF LatestPackage(e, f) # 0 THEN {e} ELSE {Exported(e, f, passed) : passed \in BOOLEAN}

\* A package whose quality check failed ends the pass without a save.
WithManifest(e, p) ==
  IF e.manifest.package = p THEN {e}
  ELSE IF e.packages[p].passed THEN {Manifested(e, p)} ELSE {}

\* The pass makes a publish job unless one stands or no target is enabled, and
\* embeds it in a new manifest.
PublishPass(s) ==
  LET f == LatestFinal(row)
  IN /\ ~sender[s].busy
     /\ ~Blocked(row)
     /\ f # 0 /\ row.renders[f].decision = "approved"
     /\ LatestPackage(row, f) # 0 \/ Len(row.packages) < MaxPackages
     /\ \E packed \in WithPackage(row, f) :
        \E ready \in WithManifest(packed, LatestPackage(packed, f)) :
          LET p == LatestPackage(ready, f)
          IN \/ /\ Standing(ready, p) = {} /\ Len(row.jobs) < MaxJobs
                /\ \E result \in IF AutoLive THEN {"completed", "failed"} ELSE {"completed"} :
                     Deliver(s, Manifested(Published(ready, p, AutoLive, result), p), AutoLive)
             \/ ready # row /\ Deliver(s, ready, FALSE)

DeliverySave(s) ==
  /\ sender[s].busy
  /\ row' = sender[s].copy
  /\ lost' = (lost \/ Overwrites(sender[s].seen))
  /\ sender' = [sender EXCEPT ![s] = Unsent]
  /\ UNCHANGED <<composer, sent, crashes>>

DeliveryCrash(s) ==
  /\ sender[s].busy /\ crashes < MaxCrashes
  /\ lost' = (lost \/ sender[s].live)
  /\ sender' = [sender EXCEPT ![s] = Unsent]
  /\ crashes' = crashes + 1
  /\ UNCHANGED <<row, composer, sent>>

-----------------------------------------------------------------------------
Next ==
  \/ BuildTimeline \/ EnqueueRender \/ Decide \/ ExportPackage \/ GenerateManifest
  \/ Steer \/ Complete
  \/ RenderStart \/ RenderEnd \/ RenderCrash
  \/ \E s \in Sender :
       PublishRequest(s) \/ PublishPass(s) \/ DeliverySave(s) \/ DeliveryCrash(s)

Spec == Init /\ [][Next]_vars

\* The render worker polls and comes to the end of what it began; so do the
\* deliveries, each with a time limit.
FairSpec ==
  /\ Spec
  /\ WF_vars(RenderStart) /\ WF_vars(RenderEnd)
  /\ \A s \in Sender : WF_vars(DeliverySave(s))

-----------------------------------------------------------------------------
(* Properties.                                                             *)

TypeOK ==
  /\ row \in Episode
  /\ composer \in [busy : BOOLEAN, copy : Episode, render : Nat]
  /\ sender \in [Sender -> [busy : BOOLEAN, copy : Episode, seen : Nat, live : BOOLEAN]]
  /\ sent \in Nat /\ lost \in BOOLEAN /\ crashes \in Nat

(* However requests, retries, decisions taken back and stale saves follow  *)
(* each other, a timeline has at most one preview and one final render in  *)
(* the queue: the render worker never composes the same request twice.     *)
OneRequestPerRender ==
  \A type \in {"preview", "final"}, t \in 1..row.timeline :
    Cardinality(RendersOf(row, type, t, Queued)) <= 1

(* A live delivery can be missing from the episode, and so be made again   *)
(* by the next pass, in two cases only: the process ended between the      *)
(* delivery and the save, or an older copy of the episode was saved over   *)
(* the record of a delivery.                                               *)
DeliveriesOnRecord ==
  ~lost => sent = LiveJobs(row) + Cardinality({s \in Sender : sender[s].live})

(* A final render is completed only from the current timeline of the       *)
(* episode it was made from, with the latest preview approved at that      *)
(* time, unless the request waived it: what was checked when the request   *)
(* was queued may have been undone since.                                  *)
FinalFollowsReview ==
  [][RenderEnd =>
       LET done == row'.renders[composer.render]
       IN done.type = "final" /\ done.status = "completed" /\ ~done.unapproved
            => done.timeline = row'.timeline /\ PreviewApproved(row')]_vars

(* Every queued render is dealt with in the end, whatever crashes and      *)
(* whichever request is newer, unless the episode is paused or cancelled.  *)
QueueDrains ==
  []<>(Blocked(row) \/ \A i \in DOMAIN row.renders : row.renders[i].status \notin Queued)

=============================================================================
