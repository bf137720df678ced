--------------------------- MODULE DeliveryProofs ---------------------------
(***************************************************************************)
(* OneRequestPerRender, FinalFollowsReview and DeliveriesOnRecord, for any *)
(* processes, requests and bounds.  The render worker, the publishing      *)
(* worker and publish requests save the episode they loaded over           *)
(* everything since, so the invariant is a property of an episode by       *)
(* itself: it holds of the row and of every copy.                          *)
(***************************************************************************)
EXTENDS Delivery, FiniteSetTheorems, WellFoundedInduction, TLAPS

\* A queued request is the last render of its type and timeline.
Alike(e, i, j) ==
  e.renders[i].type = e.renders[j].type /\ e.renders[i].timeline = e.renders[j].timeline

QueuedIsLast(e) ==
  \A i, j \in DOMAIN e.renders :
    e.renders[i].status \in Queued /\ Alike(e, i, j) => j <= i

Sound(e) == e \in Episode /\ QueuedIsLast(e)

IInv ==
  /\ TypeOK
  /\ Sound(row)
  /\ Sound(composer.copy)
  /\ composer.busy => composer.render \in DOMAIN composer.copy.renders
  /\ \A s \in Sender : Sound(sender[s].copy)

-----------------------------------------------------------------------------
Less == OpToRel(<, Nat)

(* The latest asset of a kind is one of the kind, 0 if there is none.      *)
LEMMA LatestIsLast ==
  ASSUME NEW n \in Nat, NEW I \in SUBSET (1..n)
  PROVE  /\ Latest(I) \in Nat
         /\ Latest(I) # 0 => Latest(I) \in I
         /\ \A i \in I : Latest(I) # 0 /\ i <= Latest(I)
<1>1. CASE I = {}
  BY <1>1 DEF Latest
<1>2. CASE I # {}
  <2> DEFINE Below == {d \in Nat : \E i \in I : d = n - i}
  <2>1. \A y, m \in Nat : y < m => <<y, m>> \in Less
    BY DEF Less, OpToRel
  <2>2. Below \in SUBSET Nat /\ Below # {}
    <3>1. PICK k \in I : TRUE
      BY <1>2
    <3>2. k \in 1..n
      OBVIOUS
    <3>3. n - k \in Nat
      BY <3>2
    <3> QED
      BY <3>3
  <2>3. IsWellFoundedOn(Less, Nat)
    BY NatLessThanWellFounded DEF Less
  <2>4. PICK m \in Below : \A y \in Below : <<y, m>> \notin Less
    BY <2>2, <2>3, WFMin
  <2>5. \A y \in Below : ~(y < m)
    BY <2>1, <2>2, <2>4
  <2>6. PICK i \in I : m = n - i
    BY <2>4
  <2>7. \A j \in I : j <= i
    <3> SUFFICES ASSUME NEW j \in I PROVE j <= i
      OBVIOUS
    <3>1. n - j \in Below
      OBVIOUS
    <3>2. ~(n - j < m)
      BY <3>1, <2>5
    <3> QED
      BY <3>2, <2>6
  <2>8. Latest(I) \in I /\ \A j \in I : j <= Latest(I)
    BY <1>2, <2>7 DEF Latest
  <2>9. Latest(I) \in 1..n
    BY <2>8
  <2> HIDE DEF Below
  <2> QED
    BY <2>8, <2>9
<1> QED
  BY <1>1, <1>2

LEMMA LatestOfList ==
  ASSUME NEW S, NEW s \in Seq(S), NEW I \in SUBSET DOMAIN s
  PROVE  /\ Latest(I) \in Nat
         /\ Latest(I) # 0 => Latest(I) \in I
         /\ \A i \in I : Latest(I) # 0 /\ i <= Latest(I)
<1>1. Len(s) \in Nat /\ DOMAIN s = 1..Len(s)
  OBVIOUS
<1> QED
  BY <1>1, LatestIsLast

LEMMA ChangedInPlace ==
  ASSUME NEW S, NEW s \in Seq(S), NEW f \in [DOMAIN s -> S]
  PROVE  f \in Seq(S) /\ DOMAIN f = DOMAIN s
<1>1. Len(s) \in Nat /\ DOMAIN s = 1..Len(s)
  OBVIOUS
<1> QED
  BY <1>1

-----------------------------------------------------------------------------
(* The handlers.                                                           *)

\* What a handler that makes no new request may do to the renders.
SameRequests(old, new) ==
  /\ DOMAIN new = DOMAIN old
  /\ \A i \in DOMAIN old :
       /\ new[i].type = old[i].type /\ new[i].timeline = old[i].timeline
       /\ new[i].status \in Queued => old[i].status \in Queued

LEMMA SameRequestsSound ==
  ASSUME NEW e, Sound(e), NEW f \in Episode, SameRequests(e.renders, f.renders)
  PROVE  Sound(f)
  BY DEF Sound, QueuedIsLast, Alike, SameRequests

LEMMA ReplacedRenders ==
  ASSUME NEW s \in Seq(Render), NEW k
  PROVE  ReplacedAt(s, k) \in Seq(Render) /\ SameRequests(s, ReplacedAt(s, k))
<1> DEFINE r == ReplacedAt(s, k)
<1>1. \A i \in DOMAIN s : s[i] \in Render
  OBVIOUS
<1>2. \A i \in DOMAIN s : /\ r[i] \in Render
                          /\ r[i].type = s[i].type /\ r[i].timeline = s[i].timeline
                          /\ r[i].status \in Queued => s[i].status \in Queued
  BY <1>1 DEF ReplacedAt, Render, RenderStatus, Queued
<1>3. r \in [DOMAIN s -> Render]
  BY <1>2 DEF ReplacedAt
<1> QED
  BY <1>2, <1>3, ChangedInPlace DEF SameRequests

LEMMA EnqueuedSound ==
  ASSUME NEW e, Sound(e), NEW r \in RenderRequest, CanEnqueue(e, r)
  PROVE  Sound(Enqueued(e, r))
<1> DEFINE a == Active(e, r.type)
           old == ReplacedAt(e.renders, a)
           new == [type |-> r.type, timeline |-> e.timeline, status |-> "submitted",
                   decision |-> "none", regenerate |-> r.regenerate,
                   unapproved |-> r.unapproved]
           f == Enqueued(e, r)
<1>1. e \in Episode /\ e.renders \in Seq(Render) /\ e.timeline \in Nat
  BY DEF Sound, Episode
<1>2. r \in [type : {"preview", "final"}, regenerate : BOOLEAN, unapproved : BOOLEAN]
  BY DeliveryAssumption
<1>3. new \in Render
  BY <1>1, <1>2 DEF Render, RenderStatus, Queued, Decision
<1>4. old \in Seq(Render) /\ SameRequests(e.renders, old)
  BY <1>1, ReplacedRenders
<1>5. f = [e EXCEPT !.completed = FALSE, !.renders = Append(old, new)]
  BY DEF Enqueued
<1> DEFINE K == RendersOf(e, r.type, e.timeline, Queued \cup {"completed"})
<1>6. /\ a # 0 => a \in K
      /\ \A i \in K : a # 0 /\ i <= a
  <2>1. K \in SUBSET DOMAIN e.renders
    BY DEF RendersOf
  <2> QED
    BY <1>1, <2>1, LatestOfList DEF Active
<1>7. \A i \in DOMAIN e.renders :
        e.renders[i].type = r.type /\ e.renders[i].timeline = e.timeline
        => e.renders[i].status \notin Queued
  <2> SUFFICES ASSUME NEW i \in DOMAIN e.renders, e.renders[i].type = r.type,
                      e.renders[i].timeline = e.timeline, e.renders[i].status \in Queued
               PROVE  FALSE
    OBVIOUS
  <2>1. i \in K
    BY DEF RendersOf
  <2>2. a # 0 /\ a \in K /\ i <= a
    BY <2>1, <1>6
  <2>3. a \in DOMAIN e.renders /\ Alike(e, i, a)
    BY <2>2 DEF RendersOf, Alike
  <2>4. a <= i
    BY <2>3 DEF Sound, QueuedIsLast
  <2>5. a = i
    BY <1>1, <2>2, <2>3, <2>4
  <2> QED
    BY <2>2, <2>5 DEF CanEnqueue
<1> HIDE DEF old, new, a
<1>8. f \in Episode /\ f.renders = Append(old, new)
  <2>1. Append(old, new) \in Seq(Render)
    BY <1>3, <1>4
  <2> HIDE DEF f
  <2> QED
    BY <1>1, <1>5, <2>1 DEF Episode
<1>9. new.type = r.type /\ new.timeline = e.timeline
  BY DEF new
<1>10. DOMAIN old = DOMAIN e.renders /\ DOMAIN e.renders = 1..Len(e.renders)
       /\ Len(e.renders) \in Nat /\ Len(old) = Len(e.renders)
  BY <1>1, <1>4 DEF SameRequests
<1>11. /\ DOMAIN f.renders = 1..(Len(e.renders) + 1)
       /\ f.renders[Len(e.renders) + 1] = new
       /\ \A i \in DOMAIN e.renders : f.renders[i] = old[i]
  BY <1>3, <1>4, <1>8, <1>10
<1> HIDE DEF f
<1>12. ASSUME NEW i \in DOMAIN f.renders, NEW j \in DOMAIN f.renders,
              f.renders[i].status \in Queued, Alike(f, i, j)
       PROVE  j <= i
  <2>1. CASE i = Len(e.renders) + 1
    BY <2>1, <1>10, <1>11
  <2>2. CASE i # Len(e.renders) + 1 /\ j = Len(e.renders) + 1
    <3>1. i \in DOMAIN e.renders
      BY <2>2, <1>10, <1>11
    <3>2. /\ e.renders[i].type = r.type /\ e.renders[i].timeline = e.timeline
          /\ e.renders[i].status \in Queued
      BY <1>4, <1>9, <1>11, <1>12, <2>2, <3>1 DEF Alike, SameRequests
    <3> QED
      BY <3>1, <3>2, <1>7
  <2>3. CASE i # Len(e.renders) + 1 /\ j # Len(e.renders) + 1
    <3>1. i \in DOMAIN e.renders /\ j \in DOMAIN e.renders
      BY <2>3, <1>10, <1>11
    <3>2. e.renders[i].status \in Queued /\ Alike(e, i, j)
      BY <1>4, <1>11, <1>12, <3>1 DEF Alike, SameRequests
    <3> QED
      BY <3>1, <3>2 DEF Sound, QueuedIsLast
  <2> QED
    BY <2>1, <2>2, <2>3
<1>13. Sound(f)
  BY <1>8, <1>12 DEF Sound, QueuedIsLast
<1> QED
  BY <1>13 DEF f

(* A handler that changes renders in place, and nothing else but the       *)
(* status of the episode, keeps it sound.                                  *)
LEMMA RendersChanged ==
  ASSUME NEW e, Sound(e), NEW renders \in Seq(Render), SameRequests(e.renders, renders),
         NEW completed \in BOOLEAN
  PROVE  Sound([e EXCEPT !.completed = completed, !.renders = renders])
<1> DEFINE f == [e EXCEPT !.completed = completed, !.renders = renders]
<1>1. f \in Episode /\ f.renders = renders
  BY DEF Sound, Episode
<1> QED
  BY <1>1, SameRequestsSound

\* One render with another status and decision; queued only if it was.
LEMMA RenderChanged ==
  ASSUME NEW s \in Seq(Render), NEW i, NEW status \in RenderStatus, NEW decision \in Decision,
         i \in DOMAIN s /\ status \in Queued => s[i].status \in Queued
  PROVE  LET r == [s EXCEPT ![i].status = status, ![i].decision = decision]
         IN r \in Seq(Render) /\ SameRequests(s, r)
<1> DEFINE r == [s EXCEPT ![i].status = status, ![i].decision = decision]
<1>1. \A k \in DOMAIN s : s[k] \in Render
  OBVIOUS
<1>2. ASSUME NEW k \in DOMAIN s
      PROVE  /\ r[k] \in Render
             /\ r[k].type = s[k].type /\ r[k].timeline = s[k].timeline
             /\ r[k].status \in Queued => s[k].status \in Queued
  <2>1. s[k] \in Render
    BY <1>1
  <2>2. r[k] = IF k = i THEN [s[k] EXCEPT !.status = status, !.decision = decision] ELSE s[k]
    OBVIOUS
  <2> HIDE DEF r
  <2> QED
    BY <2>1, <2>2 DEF Render
<1>3. r \in [DOMAIN s -> Render]
  BY <1>2
<1>4. r \in Seq(Render) /\ DOMAIN r = DOMAIN s
  BY <1>3, ChangedInPlace
<1> QED
  BY <1>2, <1>4 DEF SameRequests

LEMMA SameRequestsTwice ==
  ASSUME NEW a, NEW b, NEW c, SameRequests(a, b), SameRequests(b, c)
  PROVE  SameRequests(a, c)
  BY DEF SameRequests

LEMMA StartedSound ==
  ASSUME NEW e, Sound(e), NEW i, i \in DOMAIN e.renders, e.renders[i].status \in Queued
  PROVE  Sound(Started(e, i)) /\ DOMAIN Started(e, i).renders = DOMAIN e.renders
<1> DEFINE r == [e.renders EXCEPT ![i].status = "running"]
           f == Started(e, i)
<1>1. e \in Episode /\ e.renders \in Seq(Render)
  BY DEF Sound, Episode
<1>2. \A k \in DOMAIN e.renders : e.renders[k] \in Render
  BY <1>1
<1>3. ASSUME NEW k \in DOMAIN e.renders
      PROVE  /\ r[k] \in Render
             /\ r[k].type = e.renders[k].type /\ r[k].timeline = e.renders[k].timeline
             /\ r[k].status \in Queued => e.renders[k].status \in Queued
  <2>1. e.renders[k] \in Render
    BY <1>2
  <2>2. r[k] = IF k = i THEN [e.renders[k] EXCEPT !.status = "running"] ELSE e.renders[k]
    OBVIOUS
  <2> HIDE DEF r
  <2> QED
    BY <2>1, <2>2 DEF Render, RenderStatus, Queued
<1>4. r \in Seq(Render) /\ DOMAIN r = DOMAIN e.renders
  <2>1. r \in [DOMAIN e.renders -> Render]
    BY <1>3
  <2> QED
    BY <1>1, <2>1, ChangedInPlace
<1>5. f \in Episode /\ f.renders = r
  BY <1>1, <1>4 DEF Started, Episode
<1>6. SameRequests(e.renders, f.renders)
  BY <1>3, <1>4, <1>5 DEF SameRequests
<1> QED
  BY <1>4, <1>5, <1>6, SameRequestsSound

LEMMA RenderedSound ==
  ASSUME NEW e, Sound(e), NEW i, NEW passed \in BOOLEAN
  PROVE  Sound(Rendered(e, i, passed))
<1> DEFINE old == ReplacedAt(e.renders, Existing(e, i))
           status == IF passed THEN "completed" ELSE "rejected"
           decision == IF passed THEN "pending" ELSE "none"
           new == [old EXCEPT ![i].status = status, ![i].decision = decision]
<1>1. e.renders \in Seq(Render)
  BY DEF Sound, Episode
<1>2. old \in Seq(Render) /\ SameRequests(e.renders, old)
  BY <1>1, ReplacedRenders
<1>3. status \in RenderStatus /\ status \notin Queued /\ decision \in Decision
  BY DEF RenderStatus, Queued, Decision
<1> HIDE DEF old, status, decision
<1>4. new \in Seq(Render) /\ SameRequests(old, new)
  BY <1>2, <1>3, RenderChanged
<1>5. SameRequests(e.renders, new)
  BY <1>2, <1>4, SameRequestsTwice
<1>6. Rendered(e, i, passed) = [e EXCEPT !.completed = FALSE, !.renders = new]
  BY DEF Rendered, old, status, decision
<1> HIDE DEF new
<1>7. Sound([e EXCEPT !.completed = FALSE, !.renders = new])
  BY <1>4, <1>5, RendersChanged
<1> QED
  BY <1>6, <1>7

LEMMA RenderFailedSound ==
  ASSUME NEW e, Sound(e), NEW i
  PROVE  Sound(RenderFailed(e, i))
<1> DEFINE k == IF StillFits(e, i) THEN Existing(e, i) ELSE 0
           old == ReplacedAt(e.renders, k)
           new == [old EXCEPT ![i].status = "failed"]
<1>1. e.renders \in Seq(Render)
  BY DEF Sound, Episode
<1>2. old \in Seq(Render) /\ SameRequests(e.renders, old)
  BY <1>1, ReplacedRenders
<1>3. RenderFailed(e, i) = [e EXCEPT !.completed = FALSE, !.renders = new]
  BY DEF RenderFailed
<1> HIDE DEF old, k
<1>4. \A j \in DOMAIN old : old[j] \in Render
  BY <1>2
<1>5. ASSUME NEW j \in DOMAIN old
      PROVE  /\ new[j] \in Render
             /\ new[j].type = old[j].type /\ new[j].timeline = old[j].timeline
             /\ new[j].status \in Queued => old[j].status \in Queued
  <2>1. old[j] \in Render
    BY <1>4
  <2>2. new[j] = IF j = i THEN [old[j] EXCEPT !.status = "failed"] ELSE old[j]
    OBVIOUS
  <2> HIDE DEF new
  <2> QED
    BY <2>1, <2>2 DEF Render, RenderStatus, Queued
<1>6. new \in [DOMAIN old -> Render]
  BY <1>5
<1>7. new \in Seq(Render) /\ SameRequests(old, new)
  BY <1>2, <1>5, <1>6, ChangedInPlace DEF SameRequests
<1>8. SameRequests(e.renders, new)
  BY <1>2, <1>7, SameRequestsTwice
<1> HIDE DEF new
<1> QED
  BY <1>3, <1>7, <1>8, RendersChanged

LEMMA DecidedSound ==
  ASSUME NEW e, Sound(e), NEW i \in DOMAIN e.renders, NEW decision \in {"approved", "rejected"}
  PROVE  Sound(Decided(e, i, decision))
<1> DEFINE was == e.renders[i].status
           status == IF decision = "rejected" THEN "rejected"
                     ELSE IF was = "rejected" THEN "completed" ELSE was
           new == [e.renders EXCEPT ![i].status = status, ![i].decision = decision]
<1>1. e \in Episode /\ e.renders \in Seq(Render)
  BY DEF Sound, Episode
<1>2. was \in RenderStatus
  <2>1. e.renders[i] \in Render
    BY <1>1
  <2> QED
    BY <2>1 DEF Render
<1>3. /\ status \in RenderStatus /\ decision \in Decision
      /\ status \in Queued => was \in Queued
  BY <1>2 DEF RenderStatus, Queued, Decision
<1>4. Decided(e, i, decision) = [e EXCEPT !.renders = new]
  BY <1>1 DEF Decided
<1> HIDE DEF status
<1>5. new \in Seq(Render) /\ SameRequests(e.renders, new)
  BY <1>1, <1>3, RenderChanged
<1> HIDE DEF new
<1>6. [e EXCEPT !.renders = new] \in Episode /\ [e EXCEPT !.renders = new].renders = new
  BY <1>1, <1>5 DEF Episode
<1> QED
  BY <1>4, <1>5, <1>6, SameRequestsSound

(* A handler that leaves the renders alone keeps the episode sound.        *)
LEMMA SameRendersSound ==
  ASSUME NEW e, Sound(e), NEW f \in Episode, f.renders = e.renders
  PROVE  Sound(f)
<1>1. SameRequests(e.renders, f.renders)
  BY DEF SameRequests
<1> QED
  BY <1>1, SameRequestsSound

LEMMA ReplacedPackages ==
  ASSUME NEW s \in Seq(Package), NEW k
  PROVE  ReplacedAt(s, k) \in Seq(Package)
<1>1. \A i \in DOMAIN s : s[i] \in Package
  OBVIOUS
<1>2. ReplacedAt(s, k) \in [DOMAIN s -> Package]
  BY <1>1 DEF ReplacedAt, Package
<1> QED
  BY <1>2, ChangedInPlace

LEMMA ReplacedJobs ==
  ASSUME NEW s \in Seq(Job), NEW k
  PROVE  ReplacedAt(s, k) \in Seq(Job)
<1>1. \A i \in DOMAIN s : s[i] \in Job
  OBVIOUS
<1>2. ReplacedAt(s, k) \in [DOMAIN s -> Job]
  BY <1>1 DEF ReplacedAt, Job
<1> QED
  BY <1>2, ChangedInPlace

LEMMA ExportedSound ==
  ASSUME NEW e, Sound(e), NEW i \in Nat, NEW passed \in BOOLEAN
  PROVE  Sound(Exported(e, i, passed))
<1> DEFINE new == [render |-> i, status |-> "completed", passed |-> passed]
           old == ReplacedAt(e.packages, LatestPackage(e, i))
           f == Exported(e, i, passed)
<1>1. e \in Episode /\ e.packages \in Seq(Package)
  BY DEF Sound, Episode
<1>2. new \in Package
  BY DEF Package
<1>3. old \in Seq(Package)
  BY <1>1, ReplacedPackages
<1>4. f = [e EXCEPT !.packages = Append(old, new)]
  BY DEF Exported
<1> HIDE DEF old, new
<1>5. Append(old, new) \in Seq(Package)
  BY <1>2, <1>3
<1> HIDE DEF f
<1>6. f \in Episode /\ f.renders = e.renders
  BY <1>1, <1>4, <1>5 DEF Episode
<1> QED
  BY <1>6, SameRendersSound DEF f

LEMMA ManifestedSound ==
  ASSUME NEW e, Sound(e), NEW p \in Nat
  PROVE  Sound(Manifested(e, p))
<1> DEFINE f == Manifested(e, p)
<1>1. e \in Episode /\ e.jobs \in Seq(Job)
  BY DEF Sound, Episode
<1>2. Len(e.jobs) \in Nat
  BY <1>1
<1>3. f \in Episode /\ f.renders = e.renders
  BY <1>1, <1>2 DEF Manifested, Episode
<1> QED
  BY <1>3, SameRendersSound

LEMMA PublishedSound ==
  ASSUME NEW e, Sound(e), NEW p \in Nat, NEW live \in BOOLEAN,
         NEW result \in {"completed", "failed"}
  PROVE  Sound(Published(e, p, live, result))
<1> DEFINE new == [package |-> p, live |-> live, status |-> result]
           old == ReplacedAt(e.jobs, Latest(JobsOf(e, p)))
           completed == e.completed \/ (live /\ result = "completed")
           f == Published(e, p, live, result)
<1>1. e \in Episode /\ e.jobs \in Seq(Job)
  BY DEF Sound, Episode
<1>2. new \in Job
  BY DEF Job
<1>3. old \in Seq(Job)
  BY <1>1, ReplacedJobs
<1>4. completed \in BOOLEAN
  OBVIOUS
<1>5. f = [e EXCEPT !.completed = completed, !.jobs = Append(old, new)]
  BY DEF Published
<1> HIDE DEF old, new, completed
<1>6. Append(old, new) \in Seq(Job)
  BY <1>2, <1>3
<1> HIDE DEF f
<1>7. f \in Episode /\ f.renders = e.renders
  BY <1>1, <1>4, <1>5, <1>6 DEF Episode
<1> QED
  BY <1>7, SameRendersSound DEF f

LEMMA LatestPackageInNat ==
  ASSUME NEW e \in Episode, NEW i
  PROVE  LatestPackage(e, i) \in Nat
<1> DEFINE K == {p \in DOMAIN e.packages : e.packages[p].render = i
                                           /\ e.packages[p].status = "completed"}
<1>1. e.packages \in Seq(Package) /\ K \in SUBSET DOMAIN e.packages
  BY DEF Episode
<1> QED
  BY <1>1, LatestOfList DEF LatestPackage

LEMMA LatestFinalInNat ==
  ASSUME NEW e \in Episode
  PROVE  LatestFinal(e) \in Nat
<1> DEFINE K == {i \in DOMAIN e.renders : e.renders[i].type = "final"
                                          /\ e.renders[i].status = "completed"}
<1>1. e.renders \in Seq(Render) /\ K \in SUBSET DOMAIN e.renders
  BY DEF Episode
<1> QED
  BY <1>1, LatestOfList DEF LatestFinal

(* The render the worker takes up is in the queue.                         *)
LEMMA NextIsQueued ==
  ASSUME NEW e \in Episode, NextQueued(e) # 0
  PROVE  /\ NextQueued(e) \in DOMAIN e.renders
         /\ e.renders[NextQueued(e)].status \in Queued
         /\ NextQueued(e) \in Nat
<1> DEFINE K == {i \in DOMAIN e.renders : e.renders[i].status \in Queued}
<1>1. e.renders \in Seq(Render) /\ K \in SUBSET DOMAIN e.renders
  BY DEF Episode
<1>2. NextQueued(e) = Latest(K)
  BY DEF NextQueued
<1>3. Latest(K) \in Nat /\ Latest(K) \in K
  BY <1>1, <1>2, LatestOfList
<1> QED
  BY <1>2, <1>3

LEMMA LiveJobsInNat ==
  ASSUME NEW e \in Episode
  PROVE  LiveJobs(e) \in Nat
<1> DEFINE J == {j \in DOMAIN e.jobs : e.jobs[j].live}
<1>1. e.jobs \in Seq(Job)
  BY DEF Episode
<1>2. DOMAIN e.jobs = 1..Len(e.jobs) /\ Len(e.jobs) \in Nat
  BY <1>1
<1>3. IsFiniteSet(1..Len(e.jobs))
  BY <1>2, FS_Interval
<1>4. J \in SUBSET (1..Len(e.jobs))
  BY <1>2
<1>5. IsFiniteSet(J)
  BY <1>3, <1>4, FS_Subset
<1> QED
  BY <1>5, FS_CardinalityType DEF LiveJobs

-----------------------------------------------------------------------------
(* The actions.                                                            *)

LEMMA NewEpisodeSound == Sound(NewEpisode)
<1>1. /\ <<>> \in Seq(Render) /\ <<>> \in Seq(Package) /\ <<>> \in Seq(Job)
      /\ DOMAIN NewEpisode.renders = {}
  BY DEF NewEpisode
<1>2. NewEpisode \in Episode
  BY <1>1 DEF NewEpisode, Episode
<1> QED
  BY <1>1, <1>2 DEF Sound, QueuedIsLast

LEMMA InitIInv == Init => IInv
<1> SUFFICES ASSUME Init PROVE IInv
  OBVIOUS
<1>1. Sound(NewEpisode) /\ NewEpisode \in Episode
  BY NewEpisodeSound DEF Sound
<1>2. composer.copy = NewEpisode /\ ~composer.busy
  BY DEF Init, Idle
<1>3. \A s \in Sender : sender[s].copy = NewEpisode
  BY DEF Init, Unsent
<1>4. TypeOK
  BY <1>1 DEF Init, TypeOK, Idle, Unsent
<1>5. row = NewEpisode
  BY DEF Init
<1> QED
  BY <1>1, <1>2, <1>3, <1>4, <1>5 DEF IInv

LEMMA RequestIInv ==
  ASSUME IInv, NEW e, Sound(e), Request(e)
  PROVE  IInv'
<1>1. e \in Episode
  BY DEF Sound
<1>2. TypeOK'
  BY <1>1 DEF IInv, TypeOK, Request
<1>3. Sound(row')
  BY DEF Request
<1>4. /\ Sound(composer'.copy)
      /\ composer'.busy => composer'.render \in DOMAIN composer'.copy.renders
      /\ \A s \in Sender : Sound(sender'[s].copy)
  BY DEF IInv, Request
<1> QED
  BY <1>2, <1>3, <1>4 DEF IInv, Sound, QueuedIsLast, Alike

LEMMA BuiltSound ==
  ASSUME NEW e, Sound(e), NEW t \in Nat, NEW sound \in BOOLEAN, NEW completed \in BOOLEAN
  PROVE  Sound([e EXCEPT !.timeline = t, !.sound = sound, !.completed = completed])
<1> DEFINE f == [e EXCEPT !.timeline = t]
           g == [f EXCEPT !.sound = sound]
           h == [g EXCEPT !.completed = completed]
<1>1. e \in Episode
  BY DEF Sound
<1>2. f \in Episode /\ f.renders = e.renders
  BY <1>1 DEF Episode
<1>3. g \in Episode /\ g.renders = f.renders
  <2> HIDE DEF f
  <2> QED
    BY <1>2 DEF Episode
<1>4. h \in Episode /\ h.renders = g.renders
  <2> HIDE DEF g
  <2> QED
    BY <1>3 DEF Episode
<1>5. Sound(h)
  <2> HIDE DEF f, g, h
  <2> QED
    BY <1>2, <1>3, <1>4, SameRendersSound
<1>6. h = [e EXCEPT !.timeline = t, !.sound = sound, !.completed = completed]
  BY Zenon
<1> QED
  BY <1>5, <1>6

LEMMA BuildTimelineIInv == ASSUME IInv, BuildTimeline PROVE IInv'
<1>1. PICK sound \in BOOLEAN, completed \in {FALSE, row.completed} :
        Request([row EXCEPT !.timeline = @ + 1, !.sound = sound, !.completed = completed])
  BY DEF BuildTimeline
<1> DEFINE f == [row EXCEPT !.timeline = row.timeline + 1, !.sound = sound,
                            !.completed = completed]
<1>2. Sound(row) /\ row \in Episode
  BY DEF IInv, Sound
<1>3. completed \in BOOLEAN /\ row.timeline + 1 \in Nat
  <2>1. row.completed \in BOOLEAN /\ row.timeline \in Nat
    BY <1>2 DEF Episode
  <2>2. row.timeline + 1 \in Nat
    BY <2>1
  <2>3. completed \in BOOLEAN
    BY <2>1, Zenon
  <2> QED
    BY <2>2, <2>3
<1>4. Sound(f)
  BY <1>2, <1>3, BuiltSound
<1>5. Request(f)
  BY <1>1
<1> HIDE DEF f
<1> QED
  BY <1>4, <1>5, RequestIInv

LEMMA SteerIInv == ASSUME IInv, Steer PROVE IInv'
<1>1. PICK control \in {"open", "paused", "cancelled"} :
        Request([row EXCEPT !.control = control])
  BY DEF Steer
<1> DEFINE f == [row EXCEPT !.control = control]
<1>2. Sound(row) /\ row \in Episode
  BY DEF IInv, Sound
<1>3. f \in Episode /\ f.renders = row.renders
  BY <1>2 DEF Episode
<1>4. Sound(f)
  BY <1>2, <1>3, SameRendersSound
<1> QED
  BY <1>1, <1>4, RequestIInv

LEMMA CompleteIInv == ASSUME IInv, Complete PROVE IInv'
<1> DEFINE f == [row EXCEPT !.completed = TRUE]
<1>1. Request(f)
  BY DEF Complete
<1>2. Sound(row) /\ row \in Episode
  BY DEF IInv, Sound
<1>3. f \in Episode /\ f.renders = row.renders
  BY <1>2 DEF Episode
<1>4. Sound(f)
  BY <1>2, <1>3, SameRendersSound
<1> HIDE DEF f
<1> QED
  BY <1>1, <1>4, RequestIInv

LEMMA EnqueueRenderIInv == ASSUME IInv, EnqueueRender PROVE IInv'
<1>1. PICK r \in RenderRequest : CanEnqueue(row, r) /\ Request(Enqueued(row, r))
  BY DEF EnqueueRender
<1>2. Sound(Enqueued(row, r))
  BY <1>1, EnqueuedSound DEF IInv
<1> QED
  BY <1>1, <1>2, RequestIInv

LEMMA DecideIInv == ASSUME IInv, Decide PROVE IInv'
<1>1. PICK i \in DOMAIN row.renders, decision \in {"approved", "rejected"} :
        Request(Decided(row, i, decision))
  BY DEF Decide
<1>2. Sound(Decided(row, i, decision))
  BY <1>1, DecidedSound DEF IInv
<1> QED
  BY <1>1, <1>2, RequestIInv

LEMMA ExportPackageIInv == ASSUME IInv, ExportPackage PROVE IInv'
<1>1. PICK i \in DOMAIN row.renders, passed \in BOOLEAN :
        Request(Exported(row, i, passed))
  BY DEF ExportPackage
<1>2. row.renders \in Seq(Render)
  BY DEF IInv, Sound, Episode
<1>3. i \in Nat
  BY <1>2
<1>4. Sound(Exported(row, i, passed))
  BY <1>3, ExportedSound DEF IInv
<1> QED
  BY <1>1, <1>4, RequestIInv

LEMMA GenerateManifestIInv == ASSUME IInv, GenerateManifest PROVE IInv'
<1>1. PICK p \in DOMAIN row.packages : Request(Manifested(row, p))
  BY DEF GenerateManifest
<1>2. row.packages \in Seq(Package)
  BY DEF IInv, Sound, Episode
<1>3. p \in Nat
  BY <1>2
<1>4. Sound(Manifested(row, p))
  BY <1>3, ManifestedSound DEF IInv
<1> QED
  BY <1>1, <1>4, RequestIInv

LEMMA RenderStartIInv == ASSUME IInv, RenderStart PROVE IInv'
<1> DEFINE i == NextQueued(row)
           f == Started(row, i)
<1>1. Sound(row) /\ row \in Episode
  BY DEF IInv, Sound
<1>2. i \in DOMAIN row.renders /\ row.renders[i].status \in Queued /\ i \in Nat
  BY <1>1, NextIsQueued DEF RenderStart
<1>3. Sound(f) /\ DOMAIN f.renders = DOMAIN row.renders
  BY <1>1, <1>2, StartedSound
<1>4. /\ row' = f /\ composer' = [busy |-> TRUE, copy |-> f, render |-> i]
      /\ UNCHANGED <<sender, sent, lost, crashes>>
  BY DEF RenderStart
<1>5. f \in Episode
  BY <1>3 DEF Sound
<1> HIDE DEF f, i
<1>6. TypeOK'
  BY <1>2, <1>4, <1>5 DEF IInv, TypeOK
<1>7. /\ composer'.copy = f /\ composer'.render = i /\ sender' = sender
  BY <1>4
<1> QED
  BY <1>2, <1>3, <1>4, <1>6, <1>7 DEF IInv, Sound, QueuedIsLast, Alike

LEMMA RenderEndIInv == ASSUME IInv, RenderEnd PROVE IInv'
<1> DEFINE e == composer.copy
           i == composer.render
<1>1. Sound(e)
  BY DEF IInv
<1>2. Sound(row')
  BY <1>1, RenderedSound, RenderFailedSound DEF RenderEnd
<1>3. row' \in Episode
  BY <1>2 DEF Sound
<1>4. /\ composer' = Idle /\ UNCHANGED <<sender, sent, crashes>>
      /\ lost' = (lost \/ Overwrites(LiveJobs(e)))
  BY DEF RenderEnd
<1>5. lost' \in BOOLEAN
  BY <1>4
<1>6. NewEpisode \in Episode /\ Sound(NewEpisode)
  BY NewEpisodeSound DEF Sound
<1>7. TypeOK'
  BY <1>3, <1>4, <1>5, <1>6 DEF IInv, TypeOK, Idle
<1>8. Sound(composer'.copy) /\ ~composer'.busy
  BY <1>4, <1>6 DEF Idle
<1>9. \A s \in Sender : Sound(sender'[s].copy)
  BY <1>4 DEF IInv
<1> QED
  BY <1>2, <1>7, <1>8, <1>9 DEF IInv, Sound, QueuedIsLast, Alike

LEMMA RenderCrashIInv == ASSUME IInv, RenderCrash PROVE IInv'
<1>1. /\ composer' = Idle /\ crashes' = crashes + 1
      /\ UNCHANGED <<row, sender, sent, lost>>
  BY DEF RenderCrash
<1>2. NewEpisode \in Episode /\ Sound(NewEpisode)
  BY NewEpisodeSound DEF Sound
<1>3. TypeOK'
  BY <1>1, <1>2 DEF IInv, TypeOK, Idle
<1>4. Sound(composer'.copy) /\ ~composer'.busy
  BY <1>1, <1>2 DEF Idle
<1>5. Sound(row') /\ \A s \in Sender : Sound(sender'[s].copy)
  BY <1>1 DEF IInv
<1> QED
  BY <1>3, <1>4, <1>5 DEF IInv, Sound, QueuedIsLast, Alike

LEMMA DeliverIInv ==
  ASSUME IInv, NEW s \in Sender, NEW e, Sound(e), NEW live \in BOOLEAN, Deliver(s, e, live)
  PROVE  IInv'
<1> DEFINE entry == [busy |-> TRUE, copy |-> e, seen |-> LiveJobs(row), live |-> live]
<1>1. /\ sender' = [sender EXCEPT ![s] = entry]
      /\ sent' = IF live THEN sent + 1 ELSE sent
      /\ UNCHANGED <<row, composer, lost, crashes>>
  BY DEF Deliver
<1>2. LiveJobs(row) \in Nat
  BY LiveJobsInNat DEF IInv, Sound
<1>3. entry \in [busy : BOOLEAN, copy : Episode, seen : Nat, live : BOOLEAN] /\ entry.copy = e
  BY <1>2 DEF Sound
<1> HIDE DEF entry
<1>4. TypeOK'
  BY <1>1, <1>3 DEF IInv, TypeOK
<1>5. \A t \in Sender : Sound(sender'[t].copy)
  <2> SUFFICES ASSUME NEW t \in Sender PROVE Sound(sender'[t].copy)
    OBVIOUS
  <2>1. sender'[t] = IF t = s THEN entry ELSE sender[t]
    BY <1>1 DEF IInv, TypeOK
  <2> QED
    BY <1>3, <2>1 DEF IInv
<1>6. /\ Sound(row') /\ Sound(composer'.copy)
      /\ composer'.busy => composer'.render \in DOMAIN composer'.copy.renders
  BY <1>1 DEF IInv
<1> QED
  BY <1>4, <1>5, <1>6 DEF IInv, Sound, QueuedIsLast, Alike

LEMMA PublishRequestIInv ==
  ASSUME IInv, NEW s \in Sender, PublishRequest(s) PROVE IInv'
<1>1. PICK p \in DOMAIN row.packages, live \in BOOLEAN, result \in {"completed", "failed"} :
        Deliver(s, Published(row, p, live, result), live)
  BY DEF PublishRequest
<1>2. row.packages \in Seq(Package)
  BY DEF IInv, Sound, Episode
<1>3. p \in Nat
  BY <1>2
<1>4. Sound(Published(row, p, live, result))
  BY <1>3, PublishedSound DEF IInv
<1> QED
  BY <1>1, <1>4, DeliverIInv

LEMMA PublishPassIInv ==
  ASSUME IInv, NEW s \in Sender, PublishPass(s) PROVE IInv'
<1> DEFINE f == LatestFinal(row)
<1>1. PICK packed \in WithPackage(row, f) :
        \E ready \in WithManifest(packed, LatestPackage(packed, f)) :
          LET p == LatestPackage(ready, f)
          IN \/ \E result \in {"completed", "failed"} :
                  Deliver(s, Manifested(Published(ready, p, AutoLive, result), p), AutoLive)
             \/ Deliver(s, ready, FALSE)
  BY DEF PublishPass
<1>2. PICK ready \in WithManifest(packed, LatestPackage(packed, f)) :
        \/ \E result \in {"completed", "failed"} :
             Deliver(s, Manifested(Published(ready, LatestPackage(ready, f), AutoLive, result),
                                   LatestPackage(ready, f)), AutoLive)
        \/ Deliver(s, ready, FALSE)
  BY <1>1
<1>3. f \in Nat
  BY LatestFinalInNat DEF IInv, Sound
<1> HIDE DEF f
<1>4. Sound(packed)
  BY <1>3, ExportedSound DEF WithPackage, IInv
<1>5. LatestPackage(packed, f) \in Nat
  BY <1>4, LatestPackageInNat DEF Sound
<1>6. Sound(ready)
  BY <1>4, <1>5, ManifestedSound DEF WithManifest
<1>7. LatestPackage(ready, f) \in Nat
  BY <1>6, LatestPackageInNat DEF Sound
<1>8. ASSUME NEW result \in {"completed", "failed"}
      PROVE  Sound(Manifested(Published(ready, LatestPackage(ready, f), AutoLive, result),
                              LatestPackage(ready, f)))
  <2>1. Sound(Published(ready, LatestPackage(ready, f), AutoLive, result))
    BY <1>6, <1>7, PublishedSound, DeliveryAssumption
  <2> QED
    BY <1>7, <2>1, ManifestedSound
<1>9. AutoLive \in BOOLEAN /\ FALSE \in BOOLEAN
  BY DeliveryAssumption
<1>10. CASE Deliver(s, ready, FALSE)
  BY <1>6, <1>9, <1>10, DeliverIInv
<1>11. CASE \E result \in {"completed", "failed"} :
              Deliver(s, Manifested(Published(ready, LatestPackage(ready, f), AutoLive, result),
                                    LatestPackage(ready, f)), AutoLive)
  BY <1>8, <1>9, <1>11, DeliverIInv
<1> QED
  BY <1>2, <1>10, <1>11

LEMMA EndedIInv ==
  ASSUME IInv, NEW s \in Sender, sender' = [sender EXCEPT ![s] = Unsent],
         row' = row \/ row' = sender[s].copy, UNCHANGED <<composer, sent>>,
         lost' \in BOOLEAN, crashes' \in Nat
  PROVE  IInv'
<1>1. Sound(NewEpisode) /\ Sound(row') /\ Sound(sender[s].copy)
  BY NewEpisodeSound DEF IInv
<1>2. Unsent \in [busy : BOOLEAN, copy : Episode, seen : Nat, live : BOOLEAN]
      /\ Unsent.copy = NewEpisode
  BY <1>1 DEF Unsent, Sound
<1>3. TypeOK'
  BY <1>1, <1>2 DEF IInv, TypeOK, Sound
<1>4. \A t \in Sender : Sound(sender'[t].copy)
  <2> SUFFICES ASSUME NEW t \in Sender PROVE Sound(sender'[t].copy)
    OBVIOUS
  <2>1. sender'[t] = IF t = s THEN Unsent ELSE sender[t]
    BY DEF IInv, TypeOK
  <2> QED
    BY <1>1, <1>2, <2>1 DEF IInv
<1>5. /\ Sound(composer'.copy)
      /\ composer'.busy => composer'.render \in DOMAIN composer'.copy.renders
  BY DEF IInv
<1> QED
  BY <1>1, <1>3, <1>4, <1>5 DEF IInv, Sound, QueuedIsLast, Alike

LEMMA DeliverySaveIInv ==
  ASSUME IInv, NEW s \in Sender, DeliverySave(s) PROVE IInv'
<1>1. /\ sender' = [sender EXCEPT ![s] = Unsent]
      /\ row' = sender[s].copy /\ UNCHANGED <<composer, sent, crashes>>
  BY DEF DeliverySave
<1>2. lost' = (lost \/ Overwrites(sender[s].seen))
  BY DEF DeliverySave
<1>3. lost' \in BOOLEAN
  BY <1>2
<1>4. crashes' \in Nat
  BY <1>1 DEF IInv, TypeOK
<1> QED
  BY <1>1, <1>3, <1>4, EndedIInv

LEMMA DeliveryCrashIInv ==
  ASSUME IInv, NEW s \in Sender, DeliveryCrash(s) PROVE IInv'
<1>1. /\ sender' = [sender EXCEPT ![s] = Unsent]
      /\ crashes' = crashes + 1 /\ UNCHANGED <<row, composer, sent>>
  BY DEF DeliveryCrash
<1>2. lost' = (lost \/ sender[s].live)
  BY DEF DeliveryCrash
<1>3. lost' \in BOOLEAN
  BY <1>2
<1>4. crashes' \in Nat
  BY <1>1 DEF IInv, TypeOK
<1> QED
  BY <1>1, <1>3, <1>4, EndedIInv

LEMMA StutterIInv == ASSUME IInv, UNCHANGED vars PROVE IInv'
<1>1. UNCHANGED <<row, composer, sender, sent, lost, crashes>>
  BY DEF vars
<1>2. TypeOK'
  BY <1>1 DEF IInv, TypeOK
<1> QED
  BY <1>1, <1>2 DEF IInv, Sound, QueuedIsLast, Alike

LEMMA NextIInv == IInv /\ [Next]_vars => IInv'
<1> SUFFICES ASSUME IInv, [Next]_vars PROVE IInv'
  OBVIOUS
<1>1. CASE BuildTimeline \/ EnqueueRender \/ Decide \/ ExportPackage \/ GenerateManifest
           \/ Steer \/ Complete
  BY <1>1, BuildTimelineIInv, EnqueueRenderIInv, DecideIInv, ExportPackageIInv,
     GenerateManifestIInv, SteerIInv, CompleteIInv
<1>2. CASE RenderStart \/ RenderEnd \/ RenderCrash
  BY <1>2, RenderStartIInv, RenderEndIInv, RenderCrashIInv
<1>3. ASSUME NEW s \in Sender,
             PublishRequest(s) \/ PublishPass(s) \/ DeliverySave(s) \/ DeliveryCrash(s)
      PROVE  IInv'
  BY <1>3, PublishRequestIInv, PublishPassIInv, DeliverySaveIInv, DeliveryCrashIInv
<1>4. CASE UNCHANGED vars
  BY <1>4, StutterIInv
<1> QED
  BY <1>1, <1>2, <1>3, <1>4 DEF Next

(* The inductive invariant: the stored episode and every copy that a       *)
(* process will save over it have each request only as the last render of  *)
(* its type and timeline.                                                  *)
THEOREM InvariantHolds == Spec => []IInv
<1> QED
  BY InitIInv, NextIInv, PTL DEF Spec

(* Renders, packages, manifest and jobs keep their shape through every     *)
(* handler and every save of an older copy.                                *)
THEOREM TypesHold == Spec => []TypeOK
<1>1. IInv => TypeOK
  BY DEF IInv
<1> QED
  BY <1>1, InvariantHolds, PTL

LEMMA AtMostOne ==
  ASSUME NEW S, \A x, y \in S : x = y
  PROVE  Cardinality(S) <= 1
<1>1. CASE S = {}
  BY <1>1, FS_EmptySet
<1>2. CASE S # {}
  <2>1. PICK x \in S : S = {x}
    BY <1>2
  <2> QED
    BY <2>1, FS_Singleton
<1> QED
  BY <1>1, <1>2

(* OneRequestPerRender: the render worker never has two requests for one   *)
(* type of render of one timeline, whichever saves went over which.        *)
THEOREM QueueHoldsOneRequest == Spec => []OneRequestPerRender
<1>1. ASSUME IInv PROVE OneRequestPerRender
  <2> SUFFICES ASSUME NEW type \in {"preview", "final"}, NEW t \in 1..row.timeline
               PROVE  Cardinality(RendersOf(row, type, t, Queued)) <= 1
    BY DEF OneRequestPerRender
  <2>1. row.renders \in Seq(Render)
    BY <1>1 DEF IInv, Sound, Episode
  <2>2. \A i, j \in RendersOf(row, type, t, Queued) : i = j
    <3> SUFFICES ASSUME NEW i \in RendersOf(row, type, t, Queued),
                        NEW j \in RendersOf(row, type, t, Queued)
                 PROVE  i = j
      OBVIOUS
    <3>1. /\ i \in DOMAIN row.renders /\ j \in DOMAIN row.renders
          /\ row.renders[i].status \in Queued /\ row.renders[j].status \in Queued
          /\ Alike(row, i, j) /\ Alike(row, j, i)
      BY DEF RendersOf, Alike
    <3>2. j <= i /\ i <= j
      BY <1>1, <3>1 DEF IInv, Sound, QueuedIsLast
    <3>3. i \in Nat /\ j \in Nat
      BY <2>1, <3>1
    <3> QED
      BY <3>2, <3>3
  <2> QED
    BY <2>2, AtMostOne
<1> QED
  BY <1>1, InvariantHolds, PTL

\* A render left as it was: the previews, when a final render is completed.
LEMMA SamePreviews ==
  ASSUME NEW e, NEW f, e.renders \in Seq(Render), f.timeline = e.timeline,
         DOMAIN f.renders = DOMAIN e.renders,
         \A k \in DOMAIN e.renders :
           e.renders[k].type = "preview" \/ f.renders[k].type = "preview"
             => f.renders[k] = e.renders[k],
         PreviewApproved(e)
  PROVE  PreviewApproved(f)
<1> DEFINE K(x) == RendersOf(x, "preview", x.timeline, {"completed"})
<1>1. K(f) = K(e)
  BY DEF RendersOf
<1>2. K(e) \in SUBSET DOMAIN e.renders
  BY DEF RendersOf
<1>3. Latest(K(e)) # 0 => Latest(K(e)) \in K(e)
  BY <1>2, LatestOfList
<1>4. Latest(K(e)) # 0 /\ e.renders[Latest(K(e))].decision = "approved"
  BY DEF PreviewApproved
<1>5. /\ Latest(K(e)) \in DOMAIN e.renders
      /\ e.renders[Latest(K(e))].type = "preview"
  BY <1>3, <1>4 DEF RendersOf
<1>6. f.renders[Latest(K(e))] = e.renders[Latest(K(e))]
  BY <1>5
<1> QED
  BY <1>1, <1>4, <1>6 DEF PreviewApproved

LEMMA RenderedFollowsReview ==
  ASSUME NEW e, Sound(e), NEW i \in DOMAIN e.renders, StillFits(e, i),
         NEW passed \in BOOLEAN, NEW f, f = Rendered(e, i, passed),
         f.renders[i].type = "final", ~f.renders[i].unapproved
  PROVE  f.renders[i].timeline = f.timeline /\ PreviewApproved(f)
<1> DEFINE x == Existing(e, i)
           old == ReplacedAt(e.renders, x)
           status == IF passed THEN "completed" ELSE "rejected"
           decision == IF passed THEN "pending" ELSE "none"
           new == [old EXCEPT ![i].status = status, ![i].decision = decision]
<1>1. e \in Episode /\ e.renders \in Seq(Render)
  BY DEF Sound, Episode
<1>2. f = [e EXCEPT !.completed = FALSE, !.renders = new]
  BY DEF Rendered
<1>3. f.renders = new /\ f.timeline = e.timeline
  BY <1>1, <1>2 DEF Episode
<1>4. /\ x # 0 => x \in DOMAIN e.renders /\ e.renders[x].type = e.renders[i].type
  <2> DEFINE K == RendersOf(e, e.renders[i].type, e.renders[i].timeline, {"completed"})
  <2>1. K \in SUBSET DOMAIN e.renders
    BY DEF RendersOf
  <2>2. Latest(K) # 0 => Latest(K) \in K
    BY <1>1, <2>1, LatestOfList
  <2>3. x = Latest(K)
    BY DEF Existing
  <2> QED
    BY <2>2, <2>3 DEF RendersOf
<1>5. \A k \in DOMAIN e.renders : e.renders[k] \in Render
  BY <1>1
<1> HIDE DEF x, status, decision
<1>6. DOMAIN old = DOMAIN e.renders /\ DOMAIN new = DOMAIN e.renders
  BY DEF ReplacedAt
<1>7. ASSUME NEW k \in DOMAIN e.renders
      PROVE  /\ new[k].type = e.renders[k].type
             /\ new[k].timeline = e.renders[k].timeline
             /\ new[k].unapproved = e.renders[k].unapproved
             /\ k # i /\ k # x => new[k] = e.renders[k]
  <2>1. old[k] = IF k = x THEN [e.renders[k] EXCEPT !.status = "replaced"] ELSE e.renders[k]
    BY DEF ReplacedAt
  <2>2. new[k] = IF k = i THEN [old[k] EXCEPT !.status = status, !.decision = decision]
                 ELSE old[k]
    BY <1>6
  <2>3. e.renders[k] \in Render
    BY <1>5
  <2> HIDE DEF old, new
  <2> QED
    BY <2>1, <2>2, <2>3 DEF Render
<1> HIDE DEF old, new
<1>8. e.renders[i].type = "final" /\ ~e.renders[i].unapproved
  BY <1>3, <1>7
<1>9. e.renders[i].timeline = e.timeline /\ PreviewApproved(e)
  BY <1>8 DEF StillFits
<1>10. ASSUME NEW k \in DOMAIN e.renders,
              e.renders[k].type = "preview" \/ f.renders[k].type = "preview"
       PROVE  f.renders[k] = e.renders[k]
  <2>1. e.renders[k].type = "preview"
    BY <1>3, <1>7, <1>10
  <2>2. k # i /\ k # x
    <3>1. k # 0
      BY <1>1
    <3> QED
      BY <1>4, <1>8, <2>1, <3>1
  <2> QED
    BY <1>3, <1>7, <2>2
<1>11. PreviewApproved(f)
  BY <1>1, <1>3, <1>6, <1>9, <1>10, SamePreviews
<1> QED
  BY <1>3, <1>7, <1>9, <1>11

LEMMA FailedIsFailed ==
  ASSUME NEW e, Sound(e), NEW i \in DOMAIN e.renders
  PROVE  RenderFailed(e, i).renders[i].status = "failed"
<1> DEFINE k == IF StillFits(e, i) THEN Existing(e, i) ELSE 0
           old == ReplacedAt(e.renders, k)
           new == [old EXCEPT ![i].status = "failed"]
<1>1. e \in Episode /\ e.renders \in Seq(Render)
  BY DEF Sound, Episode
<1>2. RenderFailed(e, i) = [e EXCEPT !.completed = FALSE, !.renders = new]
  BY DEF RenderFailed
<1> HIDE DEF k
<1>3. old \in Seq(Render) /\ DOMAIN old = DOMAIN e.renders
  BY <1>1, ReplacedRenders DEF SameRequests
<1> HIDE DEF old
<1>4. old[i] \in Render
  BY <1>3
<1>5. new[i] = [old[i] EXCEPT !.status = "failed"]
  BY <1>3
<1>6. new[i].status = "failed"
  BY <1>4, <1>5 DEF Render
<1> HIDE DEF new
<1> QED
  BY <1>1, <1>2, <1>6 DEF Episode

(* FinalFollowsReview: the checks of a queued request are made again at    *)
(* its end, so a final render is completed only from a reviewed timeline.  *)
THEOREM FinalsFollowReview == Spec => FinalFollowsReview
<1> DEFINE done == row'.renders[composer.render]
           Follows == done.type = "final" /\ done.status = "completed" /\ ~done.unapproved
                        => done.timeline = row'.timeline /\ PreviewApproved(row')
<1>1. ASSUME IInv, RenderEnd PROVE Follows
  <2> DEFINE e == composer.copy
             i == composer.render
  <2>1. Sound(e) /\ i \in DOMAIN e.renders
    BY <1>1 DEF IInv, RenderEnd
  <2>2. CASE StillFits(e, i) /\ \E passed \in BOOLEAN : row' = Rendered(e, i, passed)
    <3>1. PICK passed \in BOOLEAN : row' = Rendered(e, i, passed)
      BY <2>2
    <3>2. StillFits(e, i)
      BY <2>2
    <3> HIDE DEF e, i
    <3>3. row'.renders[i].type = "final" /\ ~row'.renders[i].unapproved
            => row'.renders[i].timeline = row'.timeline /\ PreviewApproved(row')
      BY <2>1, <3>1, <3>2, RenderedFollowsReview
    <3> QED
      BY <3>3 DEF i
  <2>3. CASE row' = RenderFailed(e, i)
    <3>1. row'.renders[i].status = "failed"
      BY <2>1, <2>3, FailedIsFailed
    <3> QED
      BY <3>1
  <2> QED
    BY <1>1, <2>2, <2>3 DEF RenderEnd
<1>2. IInv /\ [Next]_vars => [RenderEnd => Follows]_vars
  BY <1>1
<1> QED
  BY <1>2, InvariantHolds, PTL DEF FinalFollowsReview, Spec

-----------------------------------------------------------------------------
(* Deliveries and their records.                                           *)

InHand == {s \in Sender : sender[s].live}

\* A delivery under way: what it will save knows one live delivery more than the row did,
\* if it is live.
Reckoned(d) ==
  /\ d.live => d.busy
  /\ d.busy /\ d.live => LiveJobs(d.copy) = d.seen + 1
  /\ d.busy /\ ~d.live => LiveJobs(d.copy) = d.seen

DInv ==
  /\ \A s \in Sender : Reckoned(sender[s])
  /\ DeliveriesOnRecord

LEMMA SameLiveJobs ==
  ASSUME NEW e, NEW f, f.jobs = e.jobs
  PROVE  LiveJobs(f) = LiveJobs(e)
  BY DEF LiveJobs

LEMMA JobsKept ==
  ASSUME NEW e \in Episode
  PROVE  /\ \A r : Enqueued(e, r).jobs = e.jobs
         /\ \A i, decision : Decided(e, i, decision).jobs = e.jobs
         /\ \A i : Started(e, i).jobs = e.jobs /\ RenderFailed(e, i).jobs = e.jobs
         /\ \A i, passed : Rendered(e, i, passed).jobs = e.jobs
         /\ \A i, passed : Exported(e, i, passed).jobs = e.jobs
         /\ \A p : Manifested(e, p).jobs = e.jobs
<1>1. \A r : Enqueued(e, r).jobs = e.jobs
  BY DEF Episode, Enqueued
<1>2. \A i, decision : Decided(e, i, decision).jobs = e.jobs
  BY DEF Episode, Decided
<1>3. \A i : Started(e, i).jobs = e.jobs
  BY DEF Episode, Started
<1>4. \A i : RenderFailed(e, i).jobs = e.jobs
  BY DEF Episode, RenderFailed
<1>5. \A i, passed : Rendered(e, i, passed).jobs = e.jobs
  BY DEF Episode, Rendered
<1>6. \A i, passed : Exported(e, i, passed).jobs = e.jobs
  BY DEF Episode, Exported
<1>7. \A p : Manifested(e, p).jobs = e.jobs
  BY DEF Episode, Manifested
<1> QED
  BY <1>1, <1>2, <1>3, <1>4, <1>5, <1>6, <1>7

LEMMA PublishedLive ==
  ASSUME NEW e \in Episode, NEW p, NEW live \in BOOLEAN, NEW result
  PROVE  /\ live => LiveJobs(Published(e, p, live, result)) = LiveJobs(e) + 1
         /\ ~live => LiveJobs(Published(e, p, live, result)) = LiveJobs(e)
<1> DEFINE new == [package |-> p, live |-> live, status |-> result]
           old == ReplacedAt(e.jobs, Latest(JobsOf(e, p)))
           f == Published(e, p, live, result)
           n == Len(e.jobs)
           J == {j \in DOMAIN e.jobs : e.jobs[j].live}
           K == {j \in DOMAIN f.jobs : f.jobs[j].live}
<1>1. e.jobs \in Seq(Job) /\ n \in Nat /\ DOMAIN e.jobs = 1..n
  BY DEF Episode
<1>2. f.jobs = Append(old, new)
  BY DEF Published, Episode
<1>3. old \in Seq(Job) /\ DOMAIN old = DOMAIN e.jobs
  BY <1>1, ReplacedJobs DEF ReplacedAt
<1>4. \A j \in DOMAIN e.jobs : old[j].live = e.jobs[j].live
  <2> TAKE j \in DOMAIN e.jobs
  <2>1. e.jobs[j] \in Job
    BY <1>1
  <2>2. old[j] = e.jobs[j] \/ old[j] = [e.jobs[j] EXCEPT !.status = "replaced"]
    BY DEF ReplacedAt
  <2> HIDE DEF old
  <2> QED
    BY <2>1, <2>2 DEF Job
<1>5. new.live = live
  OBVIOUS
<1> HIDE DEF old, new, f
<1>6. Len(old) = n
  BY <1>1, <1>3
<1>7. /\ DOMAIN f.jobs = 1..(n + 1) /\ f.jobs[n + 1] = new
      /\ \A j \in 1..n : f.jobs[j] = old[j]
  BY <1>1, <1>2, <1>3, <1>6
<1>8. n + 1 \notin J /\ \A j : j \in 1..(n + 1) <=> j \in 1..n \/ j = n + 1
  BY <1>1
<1>9. K = IF live THEN J \cup {n + 1} ELSE J
  BY <1>1, <1>4, <1>5, <1>7, <1>8
<1>10. IsFiniteSet(J)
  <2>1. IsFiniteSet(1..n)
    BY <1>1, FS_Interval
  <2> QED
    BY <1>1, <2>1, FS_Subset
<1> HIDE DEF n
<1>11. LiveJobs(e) = Cardinality(J) /\ LiveJobs(f) = Cardinality(K)
  BY DEF LiveJobs
<1> HIDE DEF J, K
<1>12. Cardinality(J \cup {n + 1}) = Cardinality(J) + 1
  BY <1>8, <1>10, FS_AddElement
<1>13. /\ live => LiveJobs(f) = LiveJobs(e) + 1
       /\ ~live => LiveJobs(f) = LiveJobs(e)
  BY <1>9, <1>11, <1>12
<1> QED
  BY <1>13 DEF f

LEMMA InitRecorded == Init => DInv
<1> SUFFICES ASSUME Init PROVE DInv
  OBVIOUS
<1>1. \A s \in Sender : ~sender[s].live /\ ~sender[s].busy
  BY DEF Init, Unsent
<1>2. InHand = {}
  BY <1>1 DEF InHand
<1>3. LiveJobs(row) = 0
  <2>1. {j \in DOMAIN row.jobs : row.jobs[j].live} = {}
    BY DEF Init, NewEpisode
  <2> QED
    BY <2>1, FS_EmptySet DEF LiveJobs
<1>4. Cardinality(InHand) = 0 /\ sent = 0
  BY <1>2, FS_EmptySet DEF Init
<1>5. DeliveriesOnRecord
  BY <1>3, <1>4 DEF DeliveriesOnRecord, InHand
<1> QED
  BY <1>1, <1>5 DEF DInv, Reckoned

\* What changes neither the deliveries nor how many are on record.
LEMMA RecordKept ==
  ASSUME DInv, LiveJobs(row') = LiveJobs(row), UNCHANGED <<sender, sent>>, ~lost' => ~lost
  PROVE  DInv'
<1>1. \A s \in Sender : Reckoned(sender'[s])
  BY DEF DInv
<1>2. DeliveriesOnRecord'
  BY DEF DInv, DeliveriesOnRecord
<1> QED
  BY <1>1, <1>2 DEF DInv, Reckoned

LEMMA RequestRecorded ==
  ASSUME DInv, NEW e, e.jobs = row.jobs, Request(e)
  PROVE  DInv'
<1>1. LiveJobs(row') = LiveJobs(row)
  BY SameLiveJobs DEF Request
<1> QED
  BY <1>1, RecordKept DEF Request

LEMMA RequestsRecorded ==
  ASSUME IInv, DInv,
         BuildTimeline \/ EnqueueRender \/ Decide \/ ExportPackage \/ GenerateManifest
           \/ Steer \/ Complete
  PROVE  DInv'
<1>1. row \in Episode
  BY DEF IInv, TypeOK
<1>2. PICK e : e.jobs = row.jobs /\ Request(e)
  <2>1. CASE BuildTimeline
    BY <1>1, <2>1 DEF BuildTimeline, Episode
  <2>2. CASE EnqueueRender
    <3>1. PICK r \in RenderRequest : Request(Enqueued(row, r))
      BY <2>2 DEF EnqueueRender
    <3>2. Enqueued(row, r).jobs = row.jobs
      BY <1>1, JobsKept
    <3> QED
      BY <3>1, <3>2
  <2>3. CASE Decide
    BY <1>1, <2>3, JobsKept DEF Decide
  <2>4. CASE ExportPackage
    BY <1>1, <2>4, JobsKept DEF ExportPackage
  <2>5. CASE GenerateManifest
    BY <1>1, <2>5, JobsKept DEF GenerateManifest
  <2>6. CASE Steer
    BY <1>1, <2>6 DEF Steer, Episode
  <2>7. CASE Complete
    BY <1>1, <2>7 DEF Complete, Episode
  <2> QED
    BY <2>1, <2>2, <2>3, <2>4, <2>5, <2>6, <2>7
<1> QED
  BY <1>2, RequestRecorded

LEMMA ComposerRecorded ==
  ASSUME IInv, DInv, RenderStart \/ RenderEnd \/ RenderCrash
  PROVE  DInv'
<1>1. CASE RenderStart
  <2>1. row'.jobs = row.jobs
    BY <1>1, JobsKept DEF RenderStart, IInv, TypeOK
  <2> QED
    BY <1>1, <2>1, SameLiveJobs, RecordKept DEF RenderStart
<1>2. CASE RenderEnd /\ ~lost'
  <2>1. composer.copy \in Episode
    BY DEF IInv, Sound
  <2>2. row'.jobs = composer.copy.jobs
    BY <1>2, <2>1, JobsKept DEF RenderEnd
  <2>3. LiveJobs(row) = LiveJobs(composer.copy) /\ ~lost
    BY <1>2 DEF RenderEnd, Overwrites
  <2>4. LiveJobs(row') = LiveJobs(row)
    BY <2>2, <2>3, SameLiveJobs
  <2> QED
    BY <1>2, <2>3, <2>4, RecordKept DEF RenderEnd
<1>3. CASE RenderEnd /\ lost'
  BY <1>3 DEF RenderEnd, DInv, DeliveriesOnRecord, Reckoned
<1>4. CASE RenderCrash
  BY <1>4, RecordKept DEF RenderCrash
<1> QED
  BY <1>1, <1>2, <1>3, <1>4

LEMMA DeliverRecorded ==
  ASSUME IInv, DInv, NEW s \in Sender, NEW e, NEW live \in BOOLEAN,
         ~sender[s].busy, Deliver(s, e, live),
         live => LiveJobs(e) = LiveJobs(row) + 1, ~live => LiveJobs(e) = LiveJobs(row)
  PROVE  DInv'
<1> DEFINE entry == [busy |-> TRUE, copy |-> e, seen |-> LiveJobs(row), live |-> live]
<1>1. /\ sender' = [sender EXCEPT ![s] = entry] /\ sent' = IF live THEN sent + 1 ELSE sent
      /\ row' = row /\ lost' = lost
  BY DEF Deliver
<1>2. Reckoned(entry) /\ entry.live = live
  BY DEF Reckoned
<1> HIDE DEF entry
<1>3. \A t \in Sender : sender'[t] = IF t = s THEN entry ELSE sender[t]
  BY <1>1 DEF IInv, TypeOK
<1>4. s \notin InHand
  BY DEF InHand, DInv, Reckoned
<1>5. InHand' = IF live THEN InHand \cup {s} ELSE InHand
  <2>1. \A t \in Sender : sender'[t].live <=> IF t = s THEN live ELSE sender[t].live
    BY <1>2, <1>3
  <2> QED
    BY <1>4, <2>1 DEF InHand
<1>6. IsFiniteSet(InHand)
  BY DeliveryAssumption, FS_Subset DEF InHand, DeliveryAssumption
<1>7. Cardinality(InHand \cup {s}) = Cardinality(InHand) + 1 /\ Cardinality(InHand) \in Nat
  BY <1>4, <1>6, FS_AddElement, FS_CardinalityType
<1>8. LiveJobs(row) \in Nat /\ sent \in Nat
  BY LiveJobsInNat DEF IInv, TypeOK
<1>9. ~lost' => sent' = LiveJobs(row') + Cardinality(InHand')
  <2>1. ~lost => sent = LiveJobs(row) + Cardinality(InHand)
    BY DEF DInv, DeliveriesOnRecord, InHand
  <2> QED
    BY <1>1, <1>5, <1>7, <1>8, <2>1
<1>10. \A t \in Sender : Reckoned(sender'[t])
  BY <1>2, <1>3 DEF DInv
<1> QED
  BY <1>9, <1>10 DEF DInv, DeliveriesOnRecord, InHand, Reckoned

LEMMA PublishRequestRecorded ==
  ASSUME IInv, DInv, NEW s \in Sender, PublishRequest(s) PROVE DInv'
<1>1. PICK p \in DOMAIN row.packages, live \in BOOLEAN, result \in {"completed", "failed"} :
        Deliver(s, Published(row, p, live, result), live)
  BY DEF PublishRequest
<1>2. row \in Episode /\ ~sender[s].busy
  BY DEF IInv, Sound, PublishRequest
<1> QED
  BY <1>1, <1>2, PublishedLive, DeliverRecorded

LEMMA PublishPassRecorded ==
  ASSUME IInv, DInv, NEW s \in Sender, PublishPass(s) PROVE DInv'
<1> DEFINE f == LatestFinal(row)
<1>1. PICK packed \in WithPackage(row, f) :
        \E ready \in WithManifest(packed, LatestPackage(packed, f)) :
          LET p == LatestPackage(ready, f)
          IN \/ \E result \in {"completed", "failed"} :
                  Deliver(s, Manifested(Published(ready, p, AutoLive, result), p), AutoLive)
             \/ Deliver(s, ready, FALSE)
  BY DEF PublishPass
<1>2. PICK ready \in WithManifest(packed, LatestPackage(packed, f)) :
        \/ \E result \in {"completed", "failed"} :
             Deliver(s, Manifested(Published(ready, LatestPackage(ready, f), AutoLive, result),
                                   LatestPackage(ready, f)), AutoLive)
        \/ Deliver(s, ready, FALSE)
  BY <1>1
<1>3. f \in Nat
  BY LatestFinalInNat DEF IInv, Sound
<1> HIDE DEF f
<1>4. Sound(packed) /\ packed.jobs = row.jobs
  <2>1. row \in Episode /\ Sound(row)
    BY DEF IInv, Sound
  <2>2. packed = row \/ \E passed \in BOOLEAN : packed = Exported(row, f, passed)
    BY DEF WithPackage
  <2> QED
    BY <1>3, <2>1, <2>2, ExportedSound, JobsKept
<1>5. LatestPackage(packed, f) \in Nat
  BY <1>4, LatestPackageInNat DEF Sound
<1>6. Sound(ready) /\ ready.jobs = packed.jobs
  <2>1. ready = packed \/ ready = Manifested(packed, LatestPackage(packed, f))
    BY DEF WithManifest
  <2>2. packed \in Episode
    BY <1>4 DEF Sound
  <2> QED
    BY <1>4, <1>5, <2>1, <2>2, ManifestedSound, JobsKept
<1>7. LatestPackage(ready, f) \in Nat
  BY <1>6, LatestPackageInNat DEF Sound
<1>8. LiveJobs(ready) = LiveJobs(row) /\ ~sender[s].busy
  BY <1>4, <1>6, SameLiveJobs DEF PublishPass
<1>9. CASE Deliver(s, ready, FALSE)
  <2>1. PICK live \in BOOLEAN : ~live /\ Deliver(s, ready, live)
    BY <1>9
  <2> QED
    BY <1>8, <2>1, DeliverRecorded
<1>10. ASSUME NEW result \in {"completed", "failed"},
              Deliver(s, Manifested(Published(ready, LatestPackage(ready, f), AutoLive, result),
                                    LatestPackage(ready, f)), AutoLive)
       PROVE  DInv'
  <2> DEFINE done == Published(ready, LatestPackage(ready, f), AutoLive, result)
             e == Manifested(done, LatestPackage(ready, f))
  <2>1. AutoLive \in BOOLEAN
    BY DeliveryAssumption DEF DeliveryAssumption
  <2>2. Sound(done)
    BY <1>6, <1>7, <2>1, PublishedSound
  <2>3. /\ AutoLive => LiveJobs(done) = LiveJobs(ready) + 1
        /\ ~AutoLive => LiveJobs(done) = LiveJobs(ready)
    BY <1>6, <2>1, PublishedLive DEF Sound
  <2> HIDE DEF done
  <2>4. e.jobs = done.jobs
    BY <2>2, JobsKept DEF Sound
  <2>5. LiveJobs(e) = LiveJobs(done)
    BY <2>4, SameLiveJobs
  <2>6. Deliver(s, e, AutoLive)
    BY <1>10 DEF done
  <2> HIDE DEF e
  <2> QED
    BY <1>8, <2>1, <2>3, <2>5, <2>6, DeliverRecorded
<1> QED
  BY <1>2, <1>9, <1>10

\* A delivery that leaves, live with a record in the row, or not live.
LEMMA EndedRecorded ==
  ASSUME IInv, DInv, NEW s \in Sender, sender' = [sender EXCEPT ![s] = Unsent], sent' = sent,
         ~lost' => /\ ~lost /\ row' \in Episode
                   /\ sender[s].live => LiveJobs(row') = LiveJobs(row) + 1
                   /\ ~sender[s].live => LiveJobs(row') = LiveJobs(row)
  PROVE  DInv'
<1>1. \A t \in Sender : sender'[t] = IF t = s THEN Unsent ELSE sender[t]
  BY DEF IInv, TypeOK
<1>2. ~Unsent.live /\ ~Unsent.busy /\ Reckoned(Unsent)
  BY DEF Unsent, Reckoned
<1>3. InHand' = InHand \ {s}
  <2>1. \A t \in Sender : sender'[t].live <=> t # s /\ sender[t].live
    BY <1>1, <1>2
  <2> QED
    BY <2>1 DEF InHand
<1>4. IsFiniteSet(InHand) /\ Cardinality(InHand) \in Nat
  <2>1. IsFiniteSet(InHand)
    BY DeliveryAssumption, FS_Subset DEF InHand, DeliveryAssumption
  <2> QED
    BY <2>1, FS_CardinalityType
<1>5. /\ s \in InHand => Cardinality(InHand') = Cardinality(InHand) - 1
      /\ s \notin InHand => Cardinality(InHand') = Cardinality(InHand)
  BY <1>3, <1>4, FS_RemoveElement
<1>6. s \in InHand <=> sender[s].live
  BY DEF InHand
<1>7. LiveJobs(row) \in Nat /\ sent \in Nat
  BY LiveJobsInNat DEF IInv, TypeOK
<1>8. ~lost' => sent' = LiveJobs(row') + Cardinality(InHand')
  <2> SUFFICES ASSUME ~lost' PROVE sent' = LiveJobs(row') + Cardinality(InHand')
    OBVIOUS
  <2>1. sent = LiveJobs(row) + Cardinality(InHand)
    BY DEF DInv, DeliveriesOnRecord, InHand
  <2> QED
    BY <1>4, <1>5, <1>6, <1>7, <2>1
<1>9. \A t \in Sender : Reckoned(sender'[t])
  BY <1>1, <1>2 DEF DInv
<1> QED
  BY <1>8, <1>9 DEF DInv, DeliveriesOnRecord, InHand, Reckoned

LEMMA DeliverySaveRecorded ==
  ASSUME IInv, DInv, NEW s \in Sender, DeliverySave(s) PROVE DInv'
<1>1. /\ sender' = [sender EXCEPT ![s] = Unsent] /\ sent' = sent
      /\ row' = sender[s].copy /\ sender[s].busy
      /\ ~lost' => ~lost /\ LiveJobs(row) = sender[s].seen
  BY DEF DeliverySave, Overwrites
<1>2. row' \in Episode
  BY <1>1 DEF IInv, Sound
<1>3. Reckoned(sender[s])
  BY DEF DInv
<1>4. /\ ~lost' /\ sender[s].live => LiveJobs(row') = LiveJobs(row) + 1
      /\ ~lost' /\ ~sender[s].live => LiveJobs(row') = LiveJobs(row)
  BY <1>1, <1>3 DEF Reckoned
<1> QED
  BY <1>1, <1>2, <1>4, EndedRecorded

LEMMA DeliveryCrashRecorded ==
  ASSUME IInv, DInv, NEW s \in Sender, DeliveryCrash(s) PROVE DInv'
<1>1. /\ sender' = [sender EXCEPT ![s] = Unsent] /\ sent' = sent
      /\ row' = row /\ (~lost' => ~lost /\ ~sender[s].live)
  BY DEF DeliveryCrash
<1>2. row' \in Episode
  BY <1>1 DEF IInv, Sound
<1>3. LiveJobs(row') = LiveJobs(row)
  BY <1>1
<1> QED
  BY <1>1, <1>2, <1>3, EndedRecorded

(* DeliveriesOnRecord: every live delivery is on record or under way,      *)
(* unless a process ended between the delivery and its save, or an older   *)
(* copy was saved over the record.                                         *)
THEOREM RecordsAreKept == Spec => []DeliveriesOnRecord
<1>1. Init => IInv /\ DInv
  BY InitIInv, InitRecorded
<1>2. IInv /\ DInv /\ [Next]_vars => IInv' /\ DInv'
  <2> SUFFICES ASSUME IInv, DInv, [Next]_vars PROVE DInv'
    BY NextIInv
  <2>1. ASSUME NEW s \in Sender,
               PublishRequest(s) \/ PublishPass(s) \/ DeliverySave(s) \/ DeliveryCrash(s)
        PROVE  DInv'
    BY <2>1, PublishRequestRecorded, PublishPassRecorded, DeliverySaveRecorded,
       DeliveryCrashRecorded
  <2>2. CASE UNCHANGED vars
    BY <2>2 DEF vars, DInv, DeliveriesOnRecord, Reckoned
  <2> QED
    BY <2>1, <2>2, RequestsRecorded, ComposerRecorded DEF Next
<1>3. DInv => DeliveriesOnRecord
  BY DEF DInv
<1> QED
  BY <1>1, <1>2, <1>3, PTL DEF Spec

=============================================================================
