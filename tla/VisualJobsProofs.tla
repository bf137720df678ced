-------------------------- MODULE VisualJobsProofs --------------------------
(***************************************************************************)
(* TypeOK, PlateSeen and CancelStands, for any plans, jobs, requests and   *)
(* faults.  A pass saves its copy over whatever came since, so what the    *)
(* first two need is a property of an episode by itself: it holds of the   *)
(* row and of the copy of every pass, and a save only moves it.  The third *)
(* needs the two together: a pass that no save has outdated, and that was  *)
(* not asked to generate, agrees with the row about what was given up.     *)
(***************************************************************************)
EXTENDS VisualJobs, WellFoundedInduction, TLAPS

Copy == UNION {[D -> Asset] : D \in SUBSET Id}

Pass == [busy : BOOLEAN, kind : Kind, copy : Copy, todo : SUBSET Id,
         named : BOOLEAN, stale : BOOLEAN]

\* A plate under way has lost its approval, an approved one is the picture that was seen.
PlateReviewed(a) ==
  /\ a.status = "submitted" => a.approval # "approved"
  /\ a.status = "completed" /\ a.approval = "approved" => a.pic = a.seen

\* Asset a, in whichever copy; J are the provider's jobs.
Fits(i, a, J, rp) ==
  /\ a.job \in {0} \cup J
  /\ i.role = "plate" /\ ~rp => PlateReviewed(a)

\* What stands has its clip.
HasClip(e) == Standing(e) # {} => \E i \in Standing(e) : i.role = "clip"

Sound(e, J, rp, n) ==
  /\ e \in Copy /\ HasClip(e)
  /\ \A i \in DOMAIN e : i.plan <= n /\ Fits(i, e[i], J, rp)

\* Generates, Due and Turn of a pass q.
GeneratesIn(q) == q.kind \in {"generate", "regenerate"}

DueIn(q, i) ==
  /\ i \in q.todo
  /\ q.kind = "generate" => q.copy[i].status # "completed"
  /\ GeneratesIn(q) => Clear(q.copy, i)

TurnIn(q, i) == q.busy /\ DueIn(q, i) /\ \A j \in q.todo : DueIn(q, j) => Rank(i) <= Rank(j)

\* A job was cancelled to make room for the next, which is not submitted yet.
Vacant(a) == a.status = "submitted" /\ a.job = 0

PassSound(q, J, rp, n) ==
  /\ Sound(q.copy, J, rp, n)
  /\ q.todo \subseteq Standing(q.copy)
  /\ \A i \in DOMAIN q.copy : Vacant(q.copy[i]) => q.kind = "regenerate" /\ TurnIn(q, i)
  /\ ~GeneratesIn(q) => \A i \in q.todo : q.copy[i].status = "submitted"

\* The worker, the adapter, and requests that are not to generate.
KeepsOff(p, q) == p = "request" => ~GeneratesIn(q)

\* Their passes on a row that has not changed since leave alone what was given up.
StandsOff(p, q, e) ==
  q.busy /\ ~q.stale /\ KeepsOff(p, q)
    => \A i \in DOMAIN e \cap DOMAIN q.copy :
         GivenUp(e[i]) => i \notin q.todo /\ q.copy[i] = e[i]

Types ==
  /\ pass \in [Process -> Pass] /\ jobs \in Seq(Job)
  /\ plans \in 0..MaxPlans /\ requests \in 0..MaxRequests /\ faults \in 0..MaxFaults
  /\ uncast \in BOOLEAN /\ replayed \in BOOLEAN

RowSound ==
  /\ Sound(row, DOMAIN jobs, replayed, plans)
  /\ \A i \in DOMAIN row : ~Vacant(row[i])

PassesSound == \A p \in Process : PassSound(pass[p], DOMAIN jobs, replayed, plans)

AllStandOff == uncast \/ \A p \in Process : StandsOff(p, pass[p], row)

IInv == Types /\ RowSound /\ PassesSound /\ AllStandOff

-----------------------------------------------------------------------------
(* Episodes and their assets.                                              *)

LEMMA CopyIs ==
  ASSUME NEW e \in Copy
  PROVE  /\ DOMAIN e \subseteq Id /\ e \in [DOMAIN e -> Asset]
         /\ \A i \in DOMAIN e : e[i] \in Asset
<1>1. PICK D \in SUBSET Id : e \in [D -> Asset]
  BY DEF Copy
<1> QED
  BY <1>1

LEMMA CopyMade ==
  ASSUME NEW D \in SUBSET Id, NEW f \in [D -> Asset]
  PROVE  f \in Copy
  BY DEF Copy

LEMMA EmptyCopy == <<>> \in Copy /\ DOMAIN <<>> = {} /\ HasClip(<<>>)
<1>1. DOMAIN <<>> = {} /\ <<>> = [i \in {} |-> <<>>[i]]
  OBVIOUS
<1>2. <<>> \in [{} -> Asset]
  BY <1>1
<1>3. <<>> \in Copy
  BY <1>2, CopyMade
<1> QED
  BY <1>1, <1>3 DEF HasClip, Standing

LEMMA RoleFields ==
  /\ \A i \in Id : i.role \in {"plate", "master", "clip"} /\ i.plan \in 1..MaxPlans /\ i.plan \in Nat
  /\ \A i, j \in Id : i.role = j.role /\ i.plan = j.plan => i = j
  BY VisualAssumption DEF Id, VisualAssumption

LEMMA AssetFields ==
  ASSUME NEW a \in Asset
  PROVE  /\ a.dep \in Nat /\ a.job \in Nat /\ a.pic \in Nat /\ a.tries \in Nat /\ a.seen \in Nat
         /\ a.status \in Status /\ a.retry \in {"unset", "yes", "no"}
         /\ a.approval \in {"none", "pending", "approved", "rejected"}
         /\ a.mustCancel \in BOOLEAN
  BY DEF Asset

\* One asset changed in place.
LEMMA CopyUpdated ==
  ASSUME NEW e \in Copy, NEW i \in Standing(e), NEW a \in Asset, a.status # "replaced",
         NEW f, f = [e EXCEPT ![i] = a]
  PROVE  /\ f \in Copy /\ DOMAIN f = DOMAIN e /\ Standing(f) = Standing(e)
         /\ f[i] = a /\ \A j \in DOMAIN e : j # i => f[j] = e[j]
         /\ HasClip(e) => HasClip(f)
<1>1. i \in DOMAIN e /\ e[i].status # "replaced"
  BY DEF Standing
<1>2. e \in [DOMAIN e -> Asset] /\ DOMAIN e \subseteq Id
  BY CopyIs
<1>3. f \in [DOMAIN e -> Asset]
  BY <1>2
<1>4. DOMAIN f = DOMAIN e /\ f[i] = a /\ \A j \in DOMAIN e : j # i => f[j] = e[j]
  BY <1>1, <1>2
<1>5. Standing(f) = Standing(e)
  BY <1>1, <1>4 DEF Standing
<1> QED
  BY <1>2, <1>3, <1>4, <1>5, CopyMade DEF HasClip

-----------------------------------------------------------------------------
(* The jobs.                                                               *)

\* Jobs are added, and none is taken away.
Grows(J, rp, J2, rp2) == J \subseteq J2 /\ (rp => rp2)

LEMMA SoundLater ==
  ASSUME NEW J, NEW J2, NEW rp, NEW rp2, Grows(J, rp, J2, rp2),
         NEW n \in Nat, NEW n2 \in Nat, n <= n2, NEW e, Sound(e, J, rp, n)
  PROVE  Sound(e, J2, rp2, n2)
<1>1. e \in Copy /\ HasClip(e)
  BY DEF Sound
<1>2. ASSUME NEW i \in DOMAIN e PROVE i.plan <= n2 /\ Fits(i, e[i], J2, rp2)
  <2>1. i.plan <= n /\ Fits(i, e[i], J, rp)
    BY DEF Sound
  <2>2. i.plan \in Nat
    BY <1>1, CopyIs, RoleFields
  <2>3. i.plan <= n2
    BY <2>1, <2>2
  <2>4. Fits(i, e[i], J2, rp2)
    BY <2>1 DEF Fits, Grows
  <2> QED
    BY <2>3, <2>4
<1> QED
  BY <1>1, <1>2 DEF Sound

LEMMA PassLater ==
  ASSUME NEW J, NEW J2, NEW rp, NEW rp2, Grows(J, rp, J2, rp2),
         NEW n \in Nat, NEW n2 \in Nat, n <= n2, NEW q, PassSound(q, J, rp, n)
  PROVE  PassSound(q, J2, rp2, n2)
  BY SoundLater DEF PassSound

\* A job that is stopped or finished.
LEMMA EndedIs ==
  ASSUME NEW js \in Seq(Job), NEW k \in DOMAIN js, NEW s \in {"done", "failed", "cancelled"},
         NEW js2, js2 = [js EXCEPT ![k].state = s]
  PROVE  js2 \in Seq(Job) /\ DOMAIN js2 = DOMAIN js
<1>1. js[k] \in Job
  OBVIOUS
<1>2. [js[k] EXCEPT !.state = s] \in Job
  BY <1>1 DEF Job
<1>3. js2 = [js EXCEPT ![k] = [js[k] EXCEPT !.state = s]]
  OBVIOUS
<1> QED
  BY <1>2, <1>3

LEMMA AddedIs ==
  ASSUME NEW js \in Seq(Job), NEW job \in Job, NEW js2, js2 = Append(js, job)
  PROVE  js2 \in Seq(Job) /\ DOMAIN js2 = DOMAIN js \cup {Len(js) + 1}
<1>1. Len(js) \in Nat /\ DOMAIN js = 1..Len(js)
  OBVIOUS
<1>2. js2 \in Seq(Job) /\ DOMAIN js2 = 1..(Len(js) + 1)
  OBVIOUS
<1> QED
  BY <1>1, <1>2

-----------------------------------------------------------------------------
(* What becomes of an asset.                                               *)

LEMMA SameJobFits ==
  ASSUME NEW i, NEW a, NEW b, NEW J, NEW rp, Fits(i, a, J, rp),
         b.job \in {0, a.job}, i.role = "plate" /\ ~rp => PlateReviewed(b)
  PROVE  Fits(i, b, J, rp)
  BY DEF Fits

JobState == {"working", "done", "failed", "cancelled"}

LEMMA AppliedIs ==
  ASSUME NEW i \in Id, NEW a \in Asset, NEW k \in Nat \ {0}, NEW named \in BOOLEAN,
         NEW s \in JobState
  PROVE  LET b == Applied(i, a, k, s, named)
         IN /\ b \in Asset /\ b.job = k
            /\ b.status # "replaced"
            /\ i.role = "plate" /\ (s = "done" => a.approval # "approved") => PlateReviewed(b)
<1> DEFINE b == Applied(i, a, k, s, named)
<1>. USE DEF JobState
<1>1. NormalStatus(s) \in Status \ {"replaced"}
  BY DEF NormalStatus, Status
<1>2. a.tries + 1 \in Nat /\ a.tries \in Nat
  BY DEF Asset
<1>3. /\ b.status = NormalStatus(s) /\ b.job = k
      /\ b.tries = IF named THEN a.tries + 1 ELSE a.tries
      /\ b.approval = CASE s = "working" /\ i.role = "plate" -> "none"
                    [] s = "done" /\ i.role # "clip" /\ a.approval = "none" -> "pending"
                    [] OTHER -> a.approval
  BY DEF Applied, Asset
<1>4. b \in Asset
  <2>1. a.approval \in {"none", "pending", "approved", "rejected"} /\ a.pic \in Nat
    BY DEF Asset
  <2>2. (CASE s = "working" /\ i.role = "plate" -> "none"
           [] s = "done" /\ i.role # "clip" /\ a.approval = "none" -> "pending"
           [] OTHER -> a.approval) \in {"none", "pending", "approved", "rejected"}
    BY <2>1
  <2>3. (CASE s = "working" -> 0 [] s = "done" -> k [] OTHER -> a.pic) \in Nat
    BY <2>1
  <2>4. (s = "working") \in BOOLEAN
    OBVIOUS
  <2> QED
    BY <1>1, <1>2, <2>2, <2>3, <2>4 DEF Applied, Asset
<1>5. i.role = "plate" /\ (s = "done" => a.approval # "approved") => PlateReviewed(b)
  BY <1>3 DEF PlateReviewed, NormalStatus
<1> QED
  BY <1>1, <1>2, <1>3, <1>4, <1>5

LEMMA SubmitFailedIs ==
  ASSUME NEW a \in Asset
  PROVE  LET b == SubmitFailed(a)
         IN b \in Asset /\ b.job = a.job /\ b.tries = a.tries + 1 /\ b.status = "failed" /\ PlateReviewed(b)
<1>1. a.tries + 1 \in Nat
  BY DEF Asset
<1>2. "failed" \in Status
  BY DEF Status
<1> QED
  BY <1>1, <1>2 DEF SubmitFailed, Asset, PlateReviewed

LEMMA FreedIs ==
  ASSUME NEW a \in Asset
  PROVE  LET b == Freed(a)
         IN /\ b \in Asset /\ b.job = 0 /\ b.tries = a.tries /\ b.status = a.status
            /\ b.approval = a.approval /\ b.dep = a.dep /\ (PlateReviewed(a) => PlateReviewed(b))
  BY DEF Freed, Asset, PlateReviewed

LEMMA CancelledIs ==
  ASSUME NEW a \in Asset, NEW reset \in BOOLEAN
  PROVE  LET b == Cancelled(a, reset)
         IN /\ b \in Asset /\ b.job = 0 /\ b.tries = a.tries
            /\ b.status \in {"planned", "cancelled"} /\ PlateReviewed(b)
<1>1. "planned" \in Status /\ "cancelled" \in Status
  BY DEF Status
<1>2. CASE reset
  BY <1>1, <1>2 DEF Cancelled, Asset, PlateReviewed
<1>3. CASE ~reset
  BY <1>1, <1>3 DEF Cancelled, Asset, PlateReviewed
<1> QED
  BY <1>2, <1>3

-----------------------------------------------------------------------------
(* Planning.                                                               *)

Less == OpToRel(<, Nat)

\* Some of the plans is the latest.
LEMMA LatestPlan ==
  ASSUME NEW P \in SUBSET (1..MaxPlans), P # {}
  PROVE  \E p \in P : \A q \in P : q <= p
<1> DEFINE Gaps == {d \in Nat : \E p \in P : d = MaxPlans - p}
<1>1. MaxPlans \in Nat
  BY VisualAssumption DEF VisualAssumption
<1>2. \A p \in P : p \in Nat /\ MaxPlans - p \in Nat
  BY <1>1
<1>3. Gaps \in SUBSET Nat /\ Gaps # {}
  BY <1>2
<1>4. IsWellFoundedOn(Less, Nat)
  BY NatLessThanWellFounded DEF Less
<1>5. \A y, m \in Nat : y < m => <<y, m>> \in Less
  BY DEF Less, OpToRel
<1>6. PICK m \in Gaps : \A y \in Gaps : <<y, m>> \notin Less
  BY <1>3, <1>4, WFMin
<1>7. \A y \in Gaps : ~(y < m)
  BY <1>3, <1>5, <1>6
<1>8. PICK p \in P : m = MaxPlans - p
  BY <1>6
<1>9. \A q \in P : q <= p
  <2> SUFFICES ASSUME NEW q \in P PROVE q <= p
    OBVIOUS
  <2>1. MaxPlans - q \in Gaps
    BY <1>2
  <2>2. ~(MaxPlans - q < m)
    BY <1>7, <2>1
  <2> HIDE DEF Gaps
  <2> QED
    BY <1>1, <1>2, <1>8, <2>2
<1> QED
  BY <1>9

LEMMA ActiveIs ==
  ASSUME NEW e \in Copy, NEW role \in {"plate", "master", "clip"}
  PROVE  /\ Active(e, role) \in Nat
         /\ Active(e, role) # 0 => [role |-> role, plan |-> Active(e, role)] \in Standing(e)
         /\ Active(e, role) = 0 => \A i \in Standing(e) : i.role # role
<1> DEFINE S == {i \in Standing(e) : i.role = role}
           P == {i.plan : i \in S}
<1>1. Standing(e) \subseteq Id
  BY CopyIs DEF Standing
<1>2. P \in SUBSET (1..MaxPlans) /\ 0 \notin P /\ P \subseteq Nat
  BY <1>1, RoleFields
<1>3. Active(e, role) = IF P = {} THEN 0 ELSE CHOOSE p \in P : \A q \in P : q <= p
  BY DEF Active
<1>4. CASE P = {}
  BY <1>3, <1>4
<1>5. CASE P # {}
  <2>1. Active(e, role) \in P
    <3> HIDE DEF P
    <3> QED
      BY <1>2, <1>3, <1>5, LatestPlan
  <2>2. PICK i \in S : i.plan = Active(e, role)
    BY <2>1
  <2>3. i = [role |-> role, plan |-> Active(e, role)]
    BY <1>1, <2>2 DEF Id
  <2>4. Active(e, role) \in Nat /\ Active(e, role) # 0
    BY <1>2, <2>1
  <2> QED
    BY <2>2, <2>3, <2>4
<1> QED
  BY <1>4, <1>5

LEMMA KeptIs ==
  ASSUME NEW e \in Copy, NEW role \in {"plate", "master", "clip"}, NEW dep
  PROVE  /\ Kept(e, role, dep) \in Nat
         /\ Kept(e, role, dep) # 0 => [role |-> role, plan |-> Kept(e, role, dep)] \in Standing(e)
<1>1. /\ Active(e, role) \in Nat
      /\ Active(e, role) # 0 => [role |-> role, plan |-> Active(e, role)] \in Standing(e)
  BY ActiveIs
<1>2. CASE Kept(e, role, dep) = 0
  BY <1>2
<1>3. CASE Kept(e, role, dep) = Active(e, role)
  BY <1>1, <1>3
<1>4. Kept(e, role, dep) \in {0, Active(e, role)}
  BY DEF Kept
<1> QED
  BY <1>2, <1>3, <1>4

LEMMA NewAssetIs ==
  ASSUME NEW d \in Nat, NEW i, NEW J, NEW rp
  PROVE  /\ NewAsset(d) \in Asset /\ Fits(i, NewAsset(d), J, rp)
         /\ NewAsset(d).status = "planned" /\ ~Vacant(NewAsset(d)) /\ ~GivenUp(NewAsset(d))
<1>1. NewAsset(d) \in Asset
  BY DEF NewAsset, Asset, Status
<1>2. NewAsset(d).job = 0 /\ NewAsset(d).tries = 0 /\ NewAsset(d).status = "planned"
  BY DEF NewAsset
<1>3. PlateReviewed(NewAsset(d))
  BY <1>2 DEF PlateReviewed
<1>4. Fits(i, NewAsset(d), J, rp)
  BY <1>2, <1>3 DEF Fits
<1> QED
  BY <1>1, <1>2, <1>4 DEF Vacant, GivenUp

\* An asset that stays or is replaced.
Retires(a, b) == b = a \/ b = [a EXCEPT !.status = "replaced"]

LEMMA RetiresIs ==
  ASSUME NEW a \in Asset, NEW b, Retires(a, b), NEW i, NEW J, NEW rp,
         Fits(i, a, J, rp)
  PROVE  /\ b \in Asset /\ Fits(i, b, J, rp) /\ (~Vacant(a) => ~Vacant(b))
         /\ b.status # "replaced" => b = a
<1>1. CASE b = a
  BY <1>1
<1>2. CASE b = [a EXCEPT !.status = "replaced"]
  <2>1. "replaced" \in Status
    BY DEF Status
  <2>2. b \in Asset /\ b.job = a.job /\ b.status = "replaced"
    BY <1>2, <2>1 DEF Asset
  <2>3. PlateReviewed(b)
    BY <2>2 DEF PlateReviewed
  <2>4. Fits(i, b, J, rp)
    BY <2>2, <2>3, SameJobFits
  <2> QED
    BY <2>2, <2>4 DEF Vacant
<1> QED
  BY <1>1, <1>2 DEF Retires

LEMMA ReplacedIs ==
  ASSUME NEW e \in Copy, NEW I
  PROVE  LET f == Replaced(e, I)
         IN /\ DOMAIN f = DOMAIN e /\ \A i \in DOMAIN e : Retires(e[i], f[i])
            /\ \A i \in DOMAIN e \ I : f[i] = e[i]
            /\ \A i \in DOMAIN e : i \in I => f[i].status = "replaced"
            /\ Standing(f) = Standing(e) \ I
<1> DEFINE f == Replaced(e, I)
<1>1. \A i \in DOMAIN e : e[i] \in Asset
  BY CopyIs
<1>2. DOMAIN f = DOMAIN e
  BY DEF Replaced
<1>3. ASSUME NEW i \in DOMAIN e
      PROVE  f[i] = IF i \in I THEN [e[i] EXCEPT !.status = "replaced"] ELSE e[i]
  BY DEF Replaced
<1>4. \A i \in DOMAIN e : i \in I => f[i].status = "replaced"
  BY <1>1, <1>3 DEF Asset
<1> HIDE DEF f
<1>5. Standing(f) = Standing(e) \ I
  BY <1>2, <1>3, <1>4 DEF Standing
<1> QED
  BY <1>2, <1>3, <1>4, <1>5 DEF Retires, f

\* Replacing assets of a sound episode, of all of what stands or what leaves a clip.
LEMMA ReplacedSound ==
  ASSUME NEW e, NEW J, NEW rp, NEW n, Sound(e, J, rp, n), NEW I,
         NEW f, f = Replaced(e, I)
  PROVE  /\ f \in Copy /\ \A i \in DOMAIN f : i.plan <= n /\ Fits(i, f[i], J, rp)
         /\ DOMAIN f = DOMAIN e
         /\ \A i \in DOMAIN f : ~Vacant(e[i]) => ~Vacant(f[i])
         /\ I = Standing(e) => Sound(f, J, rp, n)
<1>1. e \in Copy /\ DOMAIN e \subseteq Id /\ \A i \in DOMAIN e : e[i] \in Asset
  BY CopyIs DEF Sound
<1>2. DOMAIN f = DOMAIN e /\ Standing(f) = Standing(e) \ I
      /\ \A i \in DOMAIN e : Retires(e[i], f[i])
  BY <1>1, ReplacedIs
<1>3. ASSUME NEW i \in DOMAIN e
      PROVE  /\ i.plan <= n /\ f[i] \in Asset /\ Fits(i, f[i], J, rp)
             /\ ~Vacant(e[i]) => ~Vacant(f[i])
  <2>1. e[i] \in Asset /\ Retires(e[i], f[i]) /\ i.plan <= n /\ Fits(i, e[i], J, rp)
    BY <1>1, <1>2 DEF Sound
  <2> QED
    BY <2>1, RetiresIs
<1>4. f \in [DOMAIN e -> Asset]
  BY <1>2, <1>3 DEF Replaced
<1>5. f \in Copy
  BY <1>1, <1>4, CopyMade
<1>6. I = Standing(e) => HasClip(f)
  BY <1>2 DEF HasClip
<1> QED
  BY <1>2, <1>3, <1>5, <1>6 DEF Sound

\* An episode planned for, and the plans used up with it.
LEMMA PlansSound ==
  ASSUME plans \in Nat, NEW e \in Copy,
         \A i \in DOMAIN e : i.plan <= plans /\ Fits(i, e[i], DOMAIN jobs, replayed),
         \A i \in DOMAIN e : ~Vacant(e[i]),
         PlansAfter(e, plans + 1) <= MaxPlans
  PROVE  /\ PlansAfter(e, plans + 1) \in 0..MaxPlans /\ plans <= PlansAfter(e, plans + 1)
         /\ Sound(Planned(e, plans + 1), DOMAIN jobs, replayed, PlansAfter(e, plans + 1))
         /\ \A i \in DOMAIN Planned(e, plans + 1) : ~Vacant(Planned(e, plans + 1)[i])
         /\ \A i \in DOMAIN e : /\ i \in DOMAIN Planned(e, plans + 1)
                                /\ Retires(e[i], Planned(e, plans + 1)[i])
<1> DEFINE f == Planned(e, plans + 1)
           n == PlansAfter(e, plans + 1)
           Or(p) == IF p = 0 THEN plans + 1 ELSE p
           plate == Or(Active(e, "plate"))
           master == Or(Kept(e, "master", plate))
           clip == Or(Kept(e, "clip", master))
           iP == [role |-> "plate", plan |-> plate]
           iM == [role |-> "master", plan |-> master]
           iC == [role |-> "clip", plan |-> clip]
           chain == {iP, iM, iC}
           dep == [plate |-> 0, master |-> plate, clip |-> master]
           old == Replaced(e, {i \in Standing(e) : i.role # "plate" /\ i \notin chain})
<1>1. /\ f = [i \in DOMAIN e \cup chain |-> IF i \in DOMAIN e THEN old[i] ELSE NewAsset(dep[i.role])]
      /\ DOMAIN f = DOMAIN e \cup chain
  BY DEF Planned
<1>15. n = (IF DOMAIN f = DOMAIN e THEN plans ELSE plans + 1) /\ MaxPlans \in Nat /\ n <= MaxPlans
  BY VisualAssumption DEF PlansAfter, VisualAssumption
<1> HIDE DEF f, n
<1>2. /\ plate \in Nat /\ (iP \in Standing(e) \/ plate = plans + 1)
      /\ master \in Nat /\ (iM \in Standing(e) \/ master = plans + 1)
      /\ clip \in Nat /\ (iC \in Standing(e) \/ clip = plans + 1)
  <2>1. plate \in Nat /\ (iP \in Standing(e) \/ plate = plans + 1)
    <3>1. /\ Active(e, "plate") \in Nat
          /\ Active(e, "plate") # 0
               => [role |-> "plate", plan |-> Active(e, "plate")] \in Standing(e)
      BY "plate" \in {"plate", "master", "clip"}, ActiveIs
    <3> QED
      BY <3>1
  <2>2. master \in Nat /\ (iM \in Standing(e) \/ master = plans + 1)
    <3> HIDE DEF plate
    <3>1. /\ Kept(e, "master", plate) \in Nat
          /\ Kept(e, "master", plate) # 0
               => [role |-> "master", plan |-> Kept(e, "master", plate)] \in Standing(e)
      BY "master" \in {"plate", "master", "clip"}, KeptIs
    <3> QED
      BY <3>1
  <2>3. clip \in Nat /\ (iC \in Standing(e) \/ clip = plans + 1)
    <3> HIDE DEF master
    <3>1. /\ Kept(e, "clip", master) \in Nat
          /\ Kept(e, "clip", master) # 0
               => [role |-> "clip", plan |-> Kept(e, "clip", master)] \in Standing(e)
      BY "clip" \in {"plate", "master", "clip"}, KeptIs
    <3> QED
      BY <3>1
  <2> QED
    BY <2>1, <2>2, <2>3
<1>3. dep.plate \in Nat /\ dep.master \in Nat /\ dep.clip \in Nat
  BY <1>2
<1> HIDE DEF plate, master, clip, dep
<1>4. DOMAIN e \subseteq Id /\ \A i \in DOMAIN e : e[i] \in Asset
  BY CopyIs
<1>5. Standing(e) \subseteq DOMAIN e
  BY DEF Standing
<1>6. n \in Nat /\ plans <= n /\ (DOMAIN f # DOMAIN e => n = plans + 1)
  BY <1>15
<1>7. ASSUME NEW i \in chain \ DOMAIN e
      PROVE  i \in Id /\ i.plan = plans + 1 /\ n = plans + 1 /\ dep[i.role] \in Nat
  <2>1. n = plans + 1
    BY <1>1, <1>6, <1>7
  <2>2. i.plan = plans + 1 /\ i.role \in {"plate", "master", "clip"} /\ i = [role |-> i.role, plan |-> i.plan]
    BY <1>2, <1>5, <1>7
  <2>3. MaxPlans \in Nat /\ plans + 1 \in 1..MaxPlans
    BY <1>15, <2>1
  <2> QED
    BY <1>3, <2>1, <2>2, <2>3 DEF Id
<1>8. ASSUME NEW i \in DOMAIN f
      PROVE  /\ i \in Id /\ i.plan <= n /\ f[i] \in Asset /\ Fits(i, f[i], DOMAIN jobs, replayed)
             /\ (i \in DOMAIN e => ~Vacant(e[i])) => ~Vacant(f[i])
  <2>1. CASE i \in DOMAIN e
    <3>1. f[i] = old[i] /\ Retires(e[i], f[i]) /\ e[i] \in Asset
      BY <1>1, <1>4, <2>1, ReplacedIs
    <3>2. i.plan <= n
      <4>1. i.plan <= plans /\ i.plan \in Nat
        BY <1>4, <2>1, RoleFields
      <4> QED
        BY <1>6, <4>1
    <3> QED
      BY <1>4, <2>1, <3>1, <3>2, RetiresIs
  <2>2. CASE i \notin DOMAIN e
    <3>1. f[i] = NewAsset(dep[i.role])
      BY <1>1, <2>2
    <3>2. i \in Id /\ i.plan = plans + 1 /\ n = plans + 1 /\ dep[i.role] \in Nat
      BY <1>1, <1>7, <2>2
    <3>3. i.plan <= n
      BY <3>2
    <3> QED
      BY <2>2, <3>1, <3>2, <3>3, NewAssetIs
  <2> QED
    BY <2>1, <2>2
<1>9. f \in [DOMAIN f -> Asset] /\ DOMAIN f \in SUBSET Id
  BY <1>1, <1>8
<1>10. f \in Copy
  BY <1>9, CopyMade
<1>11. iC \in Standing(f)
  <2>1. iC \in DOMAIN f
    BY <1>1
  <2>2. CASE iC \in Standing(e)
    <3>1. f[iC] = old[iC]
      BY <1>1, <1>5, <2>2
    <3>2. old[iC] = e[iC]
      BY <1>5, <2>2, ReplacedIs
    <3> QED
      BY <2>1, <2>2, <3>1, <3>2 DEF Standing
  <2>3. CASE clip = plans + 1
    <3>1. iC \notin DOMAIN e
      <4>1. SUFFICES ASSUME iC \in DOMAIN e PROVE FALSE
        OBVIOUS
      <4>2. iC.plan <= plans
        BY <4>1
      <4> QED
        BY <2>3, <4>2
    <3>2. f[iC] = NewAsset(dep[iC.role]) /\ dep[iC.role] \in Nat
      BY <1>1, <1>7, <2>1, <3>1
    <3> QED
      BY <2>1, <3>2, NewAssetIs DEF Standing
  <2> QED
    BY <1>2, <2>2, <2>3
<1>12. HasClip(f) /\ Standing(f) # {}
  BY <1>11 DEF HasClip
<1>13. Sound(f, DOMAIN jobs, replayed, n) /\ \A i \in DOMAIN f : ~Vacant(f[i])
  BY <1>8, <1>10, <1>12 DEF Sound
<1>16. \A i \in DOMAIN e : i \in DOMAIN f /\ Retires(e[i], f[i])
  BY <1>1, <1>4, ReplacedIs
<1>14. n \in 0..MaxPlans /\ plans <= n
  BY <1>15, <1>6
<1> QED
  BY <1>13, <1>14, <1>16 DEF f, n

-----------------------------------------------------------------------------
(* Passes.                                                                 *)

\* Whatever the order of the list, it has no ties.
LEMMA RankIs ==
  /\ \A i \in Id : Rank(i) \in Nat
  /\ \A i, j \in Id : Rank(i) = Rank(j) => i = j
<1> DEFINE N(i) == CHOOSE n \in 1..3 : Role[n] = i.role
<1>1. ASSUME NEW i \in Id
      PROVE  N(i) \in 1..3 /\ Role[N(i)] = i.role
  <2>1. i.role \in {"plate", "master", "clip"}
    BY RoleFields
  <2>2. Role[1] = "plate" /\ Role[2] = "master" /\ Role[3] = "clip"
    BY DEF Role
  <2>3. \E n \in 1..3 : Role[n] = i.role
    BY <2>1, <2>2
  <2> QED
    BY <2>3
<1>2. \A i \in Id : Rank(i) = 3 * i.plan + N(i)
  BY DEF Rank
<1> HIDE DEF N
<1>3. \A i \in Id : Rank(i) \in Nat
  BY <1>1, <1>2, RoleFields
<1>4. ASSUME NEW i \in Id, NEW j \in Id, Rank(i) = Rank(j)
      PROVE  i = j
  <2>1. i.plan \in Nat /\ j.plan \in Nat /\ N(i) \in 1..3 /\ N(j) \in 1..3
    BY <1>1, RoleFields
  <2>2. 3 * i.plan + N(i) = 3 * j.plan + N(j)
    BY <1>2, <1>4
  <2>3. i.plan = j.plan /\ N(i) = N(j)
    BY <2>1, <2>2
  <2> QED
    BY <1>1, <2>3, RoleFields
<1> QED
  BY <1>3, <1>4

LEMMA TurnUnique ==
  ASSUME NEW q, q.todo \subseteq Id, NEW i, TurnIn(q, i), NEW j, TurnIn(q, j)
  PROVE  i = j
<1>1. i \in q.todo /\ j \in q.todo /\ DueIn(q, i) /\ DueIn(q, j)
  BY DEF TurnIn, DueIn
<1>2. Rank(i) <= Rank(j) /\ Rank(j) <= Rank(i)
  BY <1>1 DEF TurnIn
<1> QED
  BY <1>1, <1>2, RankIs

LEMMA TurnIs ==
  ASSUME NEW q, NEW J, NEW rp, NEW n, PassSound(q, J, rp, n), NEW i, TurnIn(q, i)
  PROVE  /\ q.busy /\ q.copy \in Copy /\ q.todo \subseteq Id
         /\ i \in q.todo /\ i \in Standing(q.copy) /\ i \in DOMAIN q.copy /\ i \in Id
         /\ q.copy[i] \in Asset /\ Fits(i, q.copy[i], J, rp)
         /\ GeneratesIn(q) => Clear(q.copy, i)
         /\ ~GeneratesIn(q) => q.copy[i].status = "submitted" /\ ~Vacant(q.copy[i])
<1>1. q.copy \in Copy /\ q.todo \subseteq Standing(q.copy) /\ i \in q.todo /\ q.busy
      /\ (GeneratesIn(q) => Clear(q.copy, i))
  BY DEF PassSound, Sound, TurnIn, DueIn
<1>2. Standing(q.copy) \subseteq DOMAIN q.copy
  BY DEF Standing
<1>3. DOMAIN q.copy \subseteq Id /\ i \in DOMAIN q.copy /\ q.copy[i] \in Asset
  BY <1>1, <1>2, CopyIs
<1>4. Fits(i, q.copy[i], J, rp)
  BY <1>3 DEF PassSound, Sound
<1>5. ~GeneratesIn(q) => q.copy[i].status = "submitted" /\ ~Vacant(q.copy[i])
  BY <1>1, <1>3 DEF PassSound, GeneratesIn
<1> QED
  BY <1>1, <1>2, <1>3, <1>4, <1>5

\* The asset whose turn it is was worked on, and the pass is past it.
LEMMA WorkedSound ==
  ASSUME NEW q, NEW J, NEW rp, NEW n, PassSound(q, J, rp, n),
         NEW i, TurnIn(q, i), NEW b \in Asset, Fits(i, b, J, rp),
         b.status # "replaced", ~Vacant(b),
         NEW q2, q2.copy = [q.copy EXCEPT ![i] = b],
         q2.todo \subseteq q.todo \ {i}, q2.kind = q.kind
  PROVE  PassSound(q2, J, rp, n)
<1>1. q.copy \in Copy /\ i \in Standing(q.copy) /\ q.todo \subseteq Id /\ i \in DOMAIN q.copy
  BY TurnIs
<1>2. /\ q2.copy \in Copy /\ DOMAIN q2.copy = DOMAIN q.copy
      /\ Standing(q2.copy) = Standing(q.copy)
      /\ q2.copy[i] = b /\ \A j \in DOMAIN q.copy : j # i => q2.copy[j] = q.copy[j]
      /\ HasClip(q.copy) => HasClip(q2.copy)
  BY <1>1, CopyUpdated
<1>3. Sound(q2.copy, J, rp, n)
  BY <1>2 DEF PassSound, Sound
<1>4. q2.todo \subseteq Standing(q2.copy)
  BY <1>2 DEF PassSound
<1>5. \A j \in DOMAIN q2.copy : ~Vacant(q2.copy[j])
  BY <1>1, <1>2, TurnUnique DEF PassSound
<1>6. \A j \in q2.todo : j \in DOMAIN q.copy /\ j \in q.todo /\ j # i
  BY DEF PassSound, Standing
<1>7. ~GeneratesIn(q2) => \A j \in q2.todo : q2.copy[j].status = "submitted"
  BY <1>2, <1>6 DEF PassSound, GeneratesIn
<1> QED
  BY <1>3, <1>4, <1>5, <1>7 DEF PassSound

\* The job of the asset whose turn it is was cancelled: it is still its turn.
LEMMA FreedSound ==
  ASSUME NEW q, NEW J, NEW rp, NEW n, PassSound(q, J, rp, n),
         NEW i, TurnIn(q, i), NEW b \in Asset, Fits(i, b, J, rp),
         b.status = q.copy[i].status, b.approval = q.copy[i].approval, b.dep = q.copy[i].dep,
         NEW q2, q2.copy = [q.copy EXCEPT ![i] = b],
         q2.todo = q.todo, q2.busy = q.busy, q.kind = "regenerate", q2.kind = q.kind
  PROVE  PassSound(q2, J, rp, n)
<1>1. q.copy \in Copy /\ i \in Standing(q.copy) /\ q.todo \subseteq Id /\ i \in DOMAIN q.copy
  BY TurnIs
<1>2. b.status # "replaced"
  BY <1>1 DEF Standing
<1>3. /\ q2.copy \in Copy /\ DOMAIN q2.copy = DOMAIN q.copy
      /\ Standing(q2.copy) = Standing(q.copy)
      /\ q2.copy[i] = b /\ \A j \in DOMAIN q.copy : j # i => q2.copy[j] = q.copy[j]
      /\ HasClip(q.copy) => HasClip(q2.copy)
  BY <1>1, <1>2, CopyUpdated
<1>4. Sound(q2.copy, J, rp, n)
  BY <1>3 DEF PassSound, Sound
<1>5. q2.todo \subseteq Standing(q2.copy)
  BY <1>3 DEF PassSound
<1>6. \A j \in DOMAIN q.copy : /\ q2.copy[j].status = q.copy[j].status
                               /\ q2.copy[j].approval = q.copy[j].approval
                               /\ q2.copy[j].dep = q.copy[j].dep
  BY <1>3
<1>7. q.todo \subseteq DOMAIN q.copy
  BY DEF PassSound, Standing
<1>8. \A j \in q.todo : DueIn(q2, j) <=> DueIn(q, j)
  <2>1. \A j \in DOMAIN q.copy : Clear(q2.copy, j) <=> Clear(q.copy, j)
    BY <1>3, <1>6 DEF Clear, Below
  <2> QED
    BY <1>6, <1>7, <2>1 DEF DueIn, GeneratesIn
<1>9. TurnIn(q2, i)
  BY <1>8, TurnIs DEF TurnIn
<1>10. \A j \in DOMAIN q2.copy : Vacant(q2.copy[j]) => TurnIn(q2, j)
  BY <1>1, <1>3, <1>9, TurnUnique DEF PassSound
<1> QED
  BY <1>4, <1>5, <1>10 DEF PassSound, GeneratesIn

\* The pass is over what it had to do.
LEMMA EndedSound ==
  ASSUME NEW q, NEW J, NEW rp, NEW n, PassSound(q, J, rp, n),
         \A i \in q.todo : ~DueIn(q, i)
  PROVE  Sound(q.copy, J, rp, n) /\ \A i \in DOMAIN q.copy : ~Vacant(q.copy[i])
  BY DEF PassSound, TurnIn, DueIn

LEMMA NoPassIs ==
  ASSUME NEW J, NEW rp, NEW n
  PROVE  PassSound(NoPass, J, rp, n) /\ NoPass \in Pass /\ ~NoPass.busy
<1>1. NoPass.copy = <<>> /\ NoPass.todo = {} /\ ~NoPass.busy
  BY DEF NoPass
<1>2. Sound(NoPass.copy, J, rp, n)
  BY <1>1, EmptyCopy DEF Sound
<1>3. NoPass \in Pass
  BY EmptyCopy DEF NoPass, Pass, Kind
<1> QED
  BY <1>1, <1>2, <1>3, EmptyCopy DEF PassSound, GeneratesIn, NoPass

LEMMA StaleSound ==
  ASSUME NEW q \in Pass, NEW J, NEW rp, NEW n, PassSound(q, J, rp, n),
         NEW q2, q2 = [q EXCEPT !.stale = TRUE]
  PROVE  q2 \in Pass /\ PassSound(q2, J, rp, n) /\ q2.stale
<1>1. /\ q2 \in Pass /\ q2.copy = q.copy /\ q2.todo = q.todo /\ q2.busy = q.busy
      /\ q2.kind = q.kind /\ q2.stale
  BY DEF Pass
<1> QED
  BY <1>1 DEF PassSound, TurnIn, DueIn, GeneratesIn

\* A pass that starts on a sound episode.
LEMMA StartedSound ==
  ASSUME NEW e, NEW J, NEW rp, NEW n, Sound(e, J, rp, n),
         \A i \in DOMAIN e : ~Vacant(e[i]), NEW T \in SUBSET Standing(e),
         NEW q, q.copy = e, q.todo = T,
         ~GeneratesIn(q) => T \subseteq Under(e)
  PROVE  PassSound(q, J, rp, n)
  BY DEF PassSound, Under

-----------------------------------------------------------------------------
(* What every step has to show.                                            *)

LEMMA TypesOf ==
  ASSUME Types
  PROVE  /\ \A p \in Process : pass[p] \in Pass
         /\ plans \in Nat /\ jobs \in Seq(Job) /\ Len(jobs) \in Nat /\ DOMAIN jobs = 1..Len(jobs)
         /\ MaxPlans \in Nat /\ MaxJobs \in Nat /\ MaxFaults \in Nat /\ MaxRequests \in Nat
         /\ RetryLimit \in Nat /\ replayed \in BOOLEAN /\ uncast \in BOOLEAN
  BY VisualAssumption DEF Types, VisualAssumption

\* Row and copies stand while jobs are added or end.
LEMMA AllLater ==
  ASSUME IInv, plans' \in Nat, plans <= plans',
         Grows(DOMAIN jobs, replayed, DOMAIN jobs', replayed')
  PROVE  /\ Sound(row, DOMAIN jobs', replayed', plans')
         /\ \A p \in Process : PassSound(pass[p], DOMAIN jobs', replayed', plans')
<1>1. plans \in Nat /\ Sound(row, DOMAIN jobs, replayed, plans)
  BY TypesOf DEF IInv, RowSound
<1>2. \A p \in Process : PassSound(pass[p], DOMAIN jobs, replayed, plans)
  BY DEF IInv, PassesSound
<1>3. Sound(row, DOMAIN jobs', replayed', plans')
  BY <1>1, SoundLater
<1>4. \A p \in Process : PassSound(pass[p], DOMAIN jobs', replayed', plans')
  BY <1>1, <1>2, PassLater
<1> QED
  BY <1>3, <1>4

\* A step of one pass, which leaves the row alone.
LEMMA PassStepKeeps ==
  ASSUME IInv, NEW p \in Process, NEW q \in Pass, pass' = [pass EXCEPT ![p] = q],
         row' = row, uncast' = uncast, plans' \in 0..MaxPlans, plans <= plans',
         jobs' \in Seq(Job), Grows(DOMAIN jobs, replayed, DOMAIN jobs', replayed'),
         requests' \in 0..MaxRequests, faults' \in 0..MaxFaults, replayed' \in BOOLEAN,
         PassSound(q, DOMAIN jobs', replayed', plans'),
         uncast \/ StandsOff(p, q, row)
  PROVE  IInv'
<1>1. pass \in [Process -> Pass] /\ uncast \in BOOLEAN /\ plans' \in Nat
  BY TypesOf DEF IInv, Types
<1>2. pass' \in [Process -> Pass] /\ pass'[p] = q /\ \A r \in Process : r # p => pass'[r] = pass[r]
  BY <1>1
<1>3. Types'
  BY <1>1, <1>2 DEF Types
<1>4. RowSound'
  BY <1>1, AllLater DEF RowSound, IInv
<1>5. PassesSound'
  BY <1>1, <1>2, AllLater DEF PassesSound
<1>6. AllStandOff'
  <2>1. ASSUME NEW r \in Process PROVE uncast \/ StandsOff(r, pass'[r], row)
    BY <1>2 DEF AllStandOff, IInv
  <2> QED
    BY <2>1 DEF AllStandOff
<1> QED
  BY <1>3, <1>4, <1>5, <1>6 DEF IInv

LEMMA TurnMeans ==
  ASSUME NEW p \in Process, NEW i
  PROVE  /\ Turn(p, i) <=> TurnIn(pass[p], i)
         /\ Due(p, i) <=> DueIn(pass[p], i)
         /\ Generates(p) <=> GeneratesIn(pass[p])
  BY DEF Turn, TurnIn, Due, DueIn, Generates, GeneratesIn

LEMMA WorkedIs ==
  ASSUME Types, NEW p \in Process, NEW i \in Id, NEW b, Worked(p, i, b), pass[p].copy \in Copy,
         i \in Standing(pass[p].copy), b \in Asset, b.status # "replaced"
  PROVE  \E q \in Pass :
           /\ pass' = [pass EXCEPT ![p] = q]
           /\ q.copy = [pass[p].copy EXCEPT ![i] = b]
           /\ q.todo \subseteq pass[p].todo \ {i}
           /\ q.busy = pass[p].busy /\ q.stale = pass[p].stale /\ q.kind = pass[p].kind
<1> DEFINE old == pass[p]
           left == {j \in old.todo : Rank(j) > Rank(i)}
           q == [old EXCEPT !.copy = [old.copy EXCEPT ![i] = b], !.todo = left]
<1>1. old \in Pass /\ pass \in [Process -> Pass]
  BY TypesOf DEF Types
<1>2. [old.copy EXCEPT ![i] = b] \in Copy
  BY CopyUpdated
<1>3. left \in SUBSET Id /\ left \subseteq old.todo \ {i}
  <2>1. left \in SUBSET Id
    BY <1>1 DEF Pass
  <2>2. i \notin left
    BY RankIs
  <2> QED
    BY <2>1, <2>2
<1>4. pass' = [pass EXCEPT ![p] = q]
  BY <1>1 DEF Worked, Pass
<1> HIDE DEF left
<1>5. /\ q \in Pass /\ q.copy = [old.copy EXCEPT ![i] = b] /\ q.todo = left
      /\ q.busy = old.busy /\ q.stale = old.stale /\ q.kind = old.kind
  BY <1>1, <1>2, <1>3 DEF Pass
<1> QED
  BY <1>3, <1>4, <1>5

\* A pass touches only what it has to do.
LEMMA StandsOffWorked ==
  ASSUME NEW p, NEW q, NEW e, StandsOff(p, q, e), NEW i, i \in q.todo, NEW b,
         NEW q2, q2.copy = [q.copy EXCEPT ![i] = b], q2.todo \subseteq q.todo,
         q2.busy = q.busy, q2.stale = q.stale, q2.kind = q.kind
  PROVE  StandsOff(p, q2, e)
<1>1. DOMAIN q2.copy = DOMAIN q.copy
  OBVIOUS
<1>2. \A j \in DOMAIN q.copy : j # i => q2.copy[j] = q.copy[j]
  OBVIOUS
<1> QED
  BY <1>1, <1>2 DEF StandsOff, KeepsOff, GeneratesIn

\* A step that calls the provider about one asset, and leaves b of it in the copy.
LEMMA WorkedKeeps ==
  ASSUME IInv, NEW p \in Process, NEW i, Turn(p, i), NEW b \in Asset, Worked(p, i, b),
         b.status # "replaced", ~Vacant(b),
         row' = row, plans' = plans, uncast' = uncast, requests' = requests,
         jobs' \in Seq(Job), Grows(DOMAIN jobs, replayed, DOMAIN jobs', replayed'),
         faults' \in 0..MaxFaults, replayed' \in BOOLEAN,
         Fits(i, b, DOMAIN jobs', replayed')
  PROVE  IInv'
<1>1. TurnIn(pass[p], i) /\ Types
  BY TurnMeans DEF IInv
<1>2. PassSound(pass[p], DOMAIN jobs', replayed', plans')
  BY <1>1, AllLater, TypesOf
<1>3. pass[p].copy \in Copy /\ i \in Id /\ i \in Standing(pass[p].copy) /\ i \in pass[p].todo
  BY <1>1, <1>2, TurnIs
<1>4. PICK q \in Pass : /\ pass' = [pass EXCEPT ![p] = q]
                        /\ q.copy = [pass[p].copy EXCEPT ![i] = b]
                        /\ q.todo \subseteq pass[p].todo \ {i}
                        /\ q.busy = pass[p].busy /\ q.stale = pass[p].stale
                        /\ q.kind = pass[p].kind
  BY <1>1, <1>3, WorkedIs
<1>5. PassSound(q, DOMAIN jobs', replayed', plans')
  BY <1>1, <1>2, <1>4, WorkedSound
<1>6. uncast \/ StandsOff(p, q, row)
  BY <1>3, <1>4, StandsOffWorked DEF IInv, AllStandOff
<1>7. plans' \in 0..MaxPlans /\ plans <= plans' /\ requests' \in 0..MaxRequests
  BY <1>1, TypesOf DEF Types
<1> QED
  BY <1>4, <1>5, <1>6, <1>7, PassStepKeeps

-----------------------------------------------------------------------------
(* The steps of a pass.                                                    *)

LEMMA TurnHas ==
  ASSUME IInv, NEW p \in Process, NEW i, Turn(p, i), NEW a, a = pass[p].copy[i]
  PROVE  /\ i \in Id /\ a \in Asset /\ Fits(i, a, DOMAIN jobs, replayed)
         /\ a.tries \in Nat /\ a.status \in Status \ {"replaced"}
         /\ i \in Standing(pass[p].copy) /\ i \in pass[p].todo /\ pass[p].copy \in Copy
         /\ Generates(p) => Base(pass[p].copy, i) \in Nat
         /\ ~Generates(p) => a.status = "submitted" /\ ~Vacant(a)
<1>1. TurnIn(pass[p], i) /\ PassSound(pass[p], DOMAIN jobs, replayed, plans)
  BY TurnMeans DEF IInv, PassesSound
<1>2. /\ i \in Standing(pass[p].copy) /\ i \in pass[p].todo /\ pass[p].copy \in Copy
      /\ i \in Id /\ a \in Asset /\ Fits(i, a, DOMAIN jobs, replayed)
      /\ Generates(p) => Clear(pass[p].copy, i)
      /\ ~Generates(p) => a.status = "submitted" /\ ~Vacant(a)
  BY <1>1, TurnIs, TurnMeans
<1>3. a.tries \in Nat /\ a.status \in Status \ {"replaced"}
  BY <1>2, AssetFields DEF Standing
<1>4. Generates(p) => Base(pass[p].copy, i) \in Nat
  <2>1. \A d \in DOMAIN pass[p].copy : pass[p].copy[d].pic \in Nat
    BY <1>2, CopyIs, AssetFields
  <2> QED
    BY <1>2, <2>1 DEF Base, Clear
<1> QED
  BY <1>2, <1>3, <1>4

LEMMA StoppedIs ==
  ASSUME jobs \in Seq(Job), NEW k
  PROVE  Stopped(k) \in Seq(Job) /\ DOMAIN Stopped(k) = DOMAIN jobs
<1>1. CASE k \in DOMAIN jobs /\ jobs[k].state = "working"
  <2>1. Stopped(k) = [jobs EXCEPT ![k].state = "cancelled"]
    BY <1>1 DEF Stopped
  <2>2. PICK s \in {"done", "failed", "cancelled"} : s = "cancelled"
    OBVIOUS
  <2>3. Stopped(k) = [jobs EXCEPT ![k].state = s]
    BY <2>1, <2>2
  <2> QED
    BY <1>1, <2>3, EndedIs
<1>2. CASE ~(k \in DOMAIN jobs /\ jobs[k].state = "working")
  BY <1>2 DEF Stopped
<1> QED
  BY <1>1, <1>2

\* No job comes or goes.
LEMMA SameJobs ==
  ASSUME Types, jobs' \in Seq(Job), DOMAIN jobs' = DOMAIN jobs, replayed' = replayed
  PROVE  /\ Grows(DOMAIN jobs, replayed, DOMAIN jobs', replayed') /\ replayed' \in BOOLEAN
  BY DEF Types, Grows

LEMMA Counts ==
  ASSUME Types
  PROVE  /\ Fault => faults' \in 0..MaxFaults
         /\ UNCHANGED faults => faults' \in 0..MaxFaults
         /\ Asked => requests' \in 0..MaxRequests
         /\ UNCHANGED requests => requests' \in 0..MaxRequests
         /\ UNCHANGED plans => plans' \in 0..MaxPlans /\ plans <= plans'
         /\ UNCHANGED jobs => jobs' \in Seq(Job) /\ DOMAIN jobs' = DOMAIN jobs
  BY TypesOf DEF Types, Fault, Asked

\* A failed submission, whatever became of the job.
LEMMA SubmitFailedKeeps ==
  ASSUME IInv, NEW p \in Process, NEW i, Turn(p, i), Worked(p, i, SubmitFailed(pass[p].copy[i])),
         row' = row, plans' = plans, uncast' = uncast, requests' = requests,
         jobs' \in Seq(Job), DOMAIN jobs \subseteq DOMAIN jobs',
         faults' \in 0..MaxFaults, replayed' = replayed
  PROVE  IInv'
<1> DEFINE a == pass[p].copy[i]
           b == SubmitFailed(a)
<1>1. i \in Id /\ a \in Asset /\ Fits(i, a, DOMAIN jobs, replayed)
  BY TurnHas
<1>2. b \in Asset /\ b.job = a.job /\ b.status = "failed" /\ PlateReviewed(b)
  BY <1>1, SubmitFailedIs
<1>3. Worked(p, i, b)
  OBVIOUS
<1> HIDE DEF b
<1>4. Grows(DOMAIN jobs, replayed, DOMAIN jobs', replayed') /\ replayed' \in BOOLEAN
  BY TypesOf DEF IInv, Grows
<1>5. Fits(i, b, DOMAIN jobs', replayed')
  BY <1>1, <1>2 DEF Fits
<1>6. ~Vacant(b) /\ b.status # "replaced"
  BY <1>2 DEF Vacant
<1> QED
  BY <1>2, <1>3, <1>4, <1>5, <1>6, WorkedKeeps

LEMMA CancelFirstKeeps ==
  ASSUME IInv, NEW p \in Process, NEW i, CancelFirst(p, i)
  PROVE  IInv'
<1> DEFINE a == pass[p].copy[i]
<1>1. /\ Turn(p, i) /\ pass[p].kind = "regenerate" /\ row' = row /\ plans' = plans
      /\ uncast' = uncast /\ requests' = requests /\ replayed' = replayed
      /\ jobs' \in {jobs, Stopped(a.job)}
  BY DEF CancelFirst, CancelDue
<1>2. /\ i \in Id /\ a \in Asset /\ Fits(i, a, DOMAIN jobs, replayed)
      /\ i \in Standing(pass[p].copy) /\ i \in pass[p].todo /\ pass[p].copy \in Copy
  BY <1>1, TurnHas
<1>3. Types /\ pass[p] \in Pass /\ jobs \in Seq(Job)
  BY TypesOf DEF IInv
<1>4. /\ jobs' \in Seq(Job) /\ DOMAIN jobs' = DOMAIN jobs
      /\ Grows(DOMAIN jobs, replayed, DOMAIN jobs', replayed') /\ replayed' \in BOOLEAN
      /\ plans' \in 0..MaxPlans /\ plans <= plans' /\ requests' \in 0..MaxRequests
  <2>1. jobs' \in Seq(Job) /\ DOMAIN jobs' = DOMAIN jobs
    BY <1>1, <1>3, StoppedIs
  <2> QED
    BY <1>1, <1>3, <2>1, SameJobs, Counts
<1>5. CASE pass' = [pass EXCEPT ![p].copy[i] = Freed(a)] /\ UNCHANGED faults
  <2> DEFINE b == Freed(a)
             q == [pass[p] EXCEPT !.copy = [pass[p].copy EXCEPT ![i] = b]]
  <2>1. TurnIn(pass[p], i) /\ PassSound(pass[p], DOMAIN jobs', replayed', plans')
    BY <1>1, <1>3, <1>4, AllLater, TypesOf, TurnMeans
  <2>2. /\ b \in Asset /\ b.job = 0 /\ b.status = a.status
        /\ b.approval = a.approval /\ b.dep = a.dep /\ (PlateReviewed(a) => PlateReviewed(b))
    BY <1>2, FreedIs
  <2> HIDE DEF b
  <2>3. Fits(i, b, DOMAIN jobs', replayed')
    BY <1>1, <1>2, <2>2 DEF Fits
  <2>4. a.status # "replaced"
    BY <1>2 DEF Standing
  <2>5. [pass[p].copy EXCEPT ![i] = b] \in Copy
    BY <1>2, <2>2, <2>4, CopyUpdated
  <2>6. /\ q \in Pass /\ q.copy = [pass[p].copy EXCEPT ![i] = b] /\ q.todo = pass[p].todo
        /\ q.busy = pass[p].busy /\ q.kind = pass[p].kind /\ q.stale = pass[p].stale
    BY <1>3, <2>5 DEF Pass
  <2>7. pass' = [pass EXCEPT ![p] = q]
    BY <1>3, <1>5 DEF Types, Pass, b
  <2> HIDE DEF q
  <2>8. PassSound(q, DOMAIN jobs', replayed', plans')
    BY <1>1, <2>1, <2>2, <2>3, <2>6, FreedSound
  <2>9. uncast \/ StandsOff(p, q, row)
    BY <1>2, <2>6, StandsOffWorked DEF IInv, AllStandOff
  <2>10. faults' \in 0..MaxFaults
    BY <1>3, <1>5, Counts
  <2> QED
    BY <1>1, <1>4, <2>6, <2>7, <2>8, <2>9, <2>10, PassStepKeeps
<1>6. CASE Worked(p, i, [a EXCEPT !.status = "failed"]) /\ Fault
  <2> DEFINE b == [a EXCEPT !.status = "failed"]
  <2>1. b \in Asset /\ b.job = a.job /\ b.status = "failed"
    BY <1>2 DEF Asset, Status
  <2>2. Worked(p, i, b)
    BY <1>6
  <2> HIDE DEF b
  <2>3. PlateReviewed(b) /\ ~Vacant(b) /\ b.status # "replaced"
    BY <2>1 DEF PlateReviewed, Vacant
  <2>4. Fits(i, b, DOMAIN jobs', replayed')
    BY <1>2, <1>4, <2>1, <2>3 DEF Fits
  <2>5. faults' \in 0..MaxFaults
    BY <1>3, <1>6, Counts
  <2> QED
    BY <1>1, <1>4, <2>1, <2>2, <2>3, <2>4, <2>5, WorkedKeeps
<1> QED
  BY <1>5, <1>6 DEF CancelFirst

LEMMA SubmitKeeps ==
  ASSUME IInv, NEW p \in Process, NEW i, Submit(p, i)
  PROVE  IInv'
<1> DEFINE a == pass[p].copy[i]
           k == Len(jobs) + 1
           job == [asset |-> i, attempt |-> a.tries + 1,
                   base |-> Base(pass[p].copy, i), state |-> "working"]
<1>1. /\ Turn(p, i) /\ Generates(p) /\ row' = row /\ plans' = plans /\ uncast' = uncast
      /\ requests' = requests /\ replayed' = replayed /\ jobs' = Append(jobs, job)
  BY DEF Submit, Submits
<1>2. \/ Worked(p, i, Applied(i, a, k, "working", pass[p].named)) /\ UNCHANGED faults
      \/ Worked(p, i, SubmitFailed(a)) /\ Fault
  BY DEF Submit
<1>3. /\ i \in Id /\ a \in Asset /\ a.tries \in Nat /\ Base(pass[p].copy, i) \in Nat
  BY <1>1, TurnHas
<1>4. Types /\ pass[p] \in Pass /\ jobs \in Seq(Job) /\ Len(jobs) \in Nat
  BY TypesOf DEF IInv
<1>5. job \in Job
  BY <1>3 DEF Job
<1> HIDE DEF job
<1>6. jobs' \in Seq(Job) /\ DOMAIN jobs' = DOMAIN jobs \cup {k} /\ DOMAIN jobs \subseteq DOMAIN jobs'
  BY <1>1, <1>4, <1>5, AddedIs
<1>7. faults' \in 0..MaxFaults
  BY <1>2, <1>4, Counts
<1>8. CASE Worked(p, i, Applied(i, a, k, "working", pass[p].named))
  <2> DEFINE b == Applied(i, a, k, "working", pass[p].named)
  <2>1. b \in Asset /\ b.job = k /\ b.status # "replaced" /\ (i.role = "plate" => PlateReviewed(b))
    <3>1. pass[p].named \in BOOLEAN /\ "working" \in JobState /\ k \in Nat \ {0}
      BY <1>4 DEF Pass, JobState
    <3> HIDE DEF k
    <3> QED
      BY <1>3, <3>1, AppliedIs
  <2>2. Worked(p, i, b)
    BY <1>8
  <2> HIDE DEF b
  <2>3. Grows(DOMAIN jobs, replayed, DOMAIN jobs', replayed') /\ replayed' \in BOOLEAN
    BY <1>1, <1>4, <1>6, TypesOf DEF Grows
  <2>4. Fits(i, b, DOMAIN jobs', replayed')
    BY <1>6, <2>1 DEF Fits
  <2>5. ~Vacant(b)
    BY <1>4, <2>1 DEF Vacant
  <2> QED
    BY <1>1, <1>6, <1>7, <2>1, <2>2, <2>3, <2>4, <2>5, WorkedKeeps
<1>9. CASE Worked(p, i, SubmitFailed(a))
  BY <1>1, <1>6, <1>7, <1>9, SubmitFailedKeeps
<1> QED
  BY <1>2, <1>8, <1>9

LEMMA ReplayKeeps ==
  ASSUME IInv, NEW p \in Process, NEW i, Replay(p, i)
  PROVE  IInv'
<1> DEFINE a == pass[p].copy[i]
<1>1. /\ Turn(p, i) /\ row' = row /\ plans' = plans /\ uncast' = uncast
      /\ requests' = requests /\ faults' = faults /\ jobs' = jobs
  BY DEF Replay, Submits, budget
<1>2. PICK k \in Known(i, a.tries + 1) :
        \/ \E state \in {jobs[k].state} \cup (IF jobs[k].state = "done" THEN {"working"} ELSE {}) :
             /\ Worked(p, i, Applied(i, a, k, state, pass[p].named))
             /\ replayed' = (replayed \/ (i.role = "plate" /\ state = "done"))
        \/ Worked(p, i, SubmitFailed(a)) /\ replayed' = replayed
  BY DEF Replay
<1>3. /\ i \in Id /\ a \in Asset /\ Fits(i, a, DOMAIN jobs, replayed)
  BY <1>1, TurnHas
<1>4. /\ Types /\ pass[p] \in Pass /\ jobs \in Seq(Job) /\ DOMAIN jobs = 1..Len(jobs)
      /\ Len(jobs) \in Nat /\ replayed \in BOOLEAN
  BY TypesOf DEF IInv
<1>5. k \in DOMAIN jobs /\ k \in Nat \ {0} /\ jobs[k].state \in JobState
  <2>1. k \in DOMAIN jobs
    BY <1>2 DEF Known
  <2>2. jobs[k] \in Job
    BY <1>4, <2>1
  <2> QED
    BY <1>4, <2>1, <2>2 DEF Job, JobState
<1>6. jobs' \in Seq(Job) /\ faults' \in 0..MaxFaults /\ DOMAIN jobs \subseteq DOMAIN jobs'
  BY <1>1, <1>4, Counts
<1>7. ASSUME NEW state \in JobState, Worked(p, i, Applied(i, a, k, state, pass[p].named)),
             replayed' = (replayed \/ (i.role = "plate" /\ state = "done"))
      PROVE  IInv'
  <2> DEFINE b == Applied(i, a, k, state, pass[p].named)
  <2>1. /\ b \in Asset /\ b.job = k /\ b.status # "replaced"
        /\ i.role = "plate" /\ (state = "done" => a.approval # "approved") => PlateReviewed(b)
    <3>1. pass[p].named \in BOOLEAN
      BY <1>4 DEF Pass
    <3> QED
      BY <1>3, <1>5, <3>1, AppliedIs
  <2>2. Worked(p, i, b)
    BY <1>7
  <2> HIDE DEF b
  <2>3. Grows(DOMAIN jobs, replayed, DOMAIN jobs', replayed') /\ replayed' \in BOOLEAN
    BY <1>1, <1>4, <1>7 DEF Grows
  <2>4. Fits(i, b, DOMAIN jobs', replayed')
    BY <1>1, <1>5, <1>7, <2>1 DEF Fits
  <2>5. ~Vacant(b)
    BY <1>5, <2>1 DEF Vacant
  <2> QED
    BY <1>1, <1>6, <2>1, <2>2, <2>3, <2>4, <2>5, WorkedKeeps
<1>8. CASE Worked(p, i, SubmitFailed(a)) /\ replayed' = replayed
  BY <1>1, <1>6, <1>8, SubmitFailedKeeps
<1>9. ASSUME NEW state \in {jobs[k].state} \cup (IF jobs[k].state = "done" THEN {"working"} ELSE {})
      PROVE  state \in JobState
  BY <1>5 DEF JobState
<1> QED
  BY <1>2, <1>7, <1>8, <1>9

LEMMA RefuseKeeps ==
  ASSUME IInv, NEW p \in Process, NEW i, Refuse(p, i)
  PROVE  IInv'
<1>1. /\ Turn(p, i) /\ row' = row /\ plans' = plans /\ uncast' = uncast
      /\ requests' = requests /\ jobs' = jobs /\ replayed' = replayed
      /\ Worked(p, i, SubmitFailed(pass[p].copy[i]))
      /\ Fault \/ UNCHANGED faults
  BY DEF Refuse, Submits
<1>2. Types /\ jobs' \in Seq(Job)
  BY <1>1, Counts DEF IInv
<1>3. faults' \in 0..MaxFaults
  BY <1>1, <1>2, Counts
<1> QED
  BY <1>1, <1>2, <1>3, SubmitFailedKeeps

LEMMA CancelJobKeeps ==
  ASSUME IInv, NEW p \in Process, NEW i, CancelJob(p, i)
  PROVE  IInv'
<1> DEFINE a == pass[p].copy[i]
<1>1. /\ Turn(p, i) /\ pass[p].kind \in {"cancel", "reset"} /\ row' = row /\ plans' = plans
      /\ uncast' = uncast /\ requests' = requests /\ replayed' = replayed
      /\ jobs' \in {jobs, Stopped(a.job)}
  BY DEF CancelJob
<1>2. ~Generates(p)
  BY <1>1 DEF Generates
<1>3. /\ i \in Id /\ a \in Asset /\ Fits(i, a, DOMAIN jobs, replayed)
      /\ a.status = "submitted" /\ ~Vacant(a)
  BY <1>1, <1>2, TurnHas
<1>4. Types /\ jobs \in Seq(Job)
  BY TypesOf DEF IInv
<1>5. /\ jobs' \in Seq(Job) /\ DOMAIN jobs' = DOMAIN jobs
      /\ Grows(DOMAIN jobs, replayed, DOMAIN jobs', replayed') /\ replayed' \in BOOLEAN
  <2>1. jobs' \in Seq(Job) /\ DOMAIN jobs' = DOMAIN jobs
    BY <1>1, <1>4, StoppedIs
  <2> QED
    BY <1>1, <1>4, <2>1, SameJobs
<1>6. faults' \in 0..MaxFaults
  BY <1>4, Counts DEF CancelJob
<1>7. PICK b : /\ Worked(p, i, b)
               /\ b \in {Cancelled(a, pass[p].kind = "reset"), [a EXCEPT !.mustCancel = TRUE]}
  BY DEF CancelJob
<1>8. b \in Asset /\ b.job \in {0, a.job} /\ b.status # "replaced" /\ ~Vacant(b)
      /\ (PlateReviewed(a) => PlateReviewed(b))
  <2>1. CASE b = [a EXCEPT !.mustCancel = TRUE]
    <3>1. b \in Asset /\ b.job = a.job /\ b.status = a.status /\ b.approval = a.approval
      BY <1>3, <2>1 DEF Asset
    <3> QED
      BY <1>3, <3>1 DEF Vacant, PlateReviewed
  <2>2. CASE b = Cancelled(a, pass[p].kind = "reset")
    <3>1. PICK reset \in BOOLEAN : reset = (pass[p].kind = "reset")
      OBVIOUS
    <3>2. b = Cancelled(a, reset)
      BY <2>2, <3>1
    <3>3. b \in Asset /\ b.job = 0 /\ b.status \in {"planned", "cancelled"} /\ PlateReviewed(b)
      BY <1>3, <3>2, CancelledIs
    <3> QED
      BY <3>3 DEF Vacant
  <2> QED
    BY <1>7, <2>1, <2>2
<1>9. Fits(i, b, DOMAIN jobs', replayed')
  BY <1>1, <1>3, <1>5, <1>8 DEF Fits
<1> QED
  BY <1>1, <1>5, <1>6, <1>7, <1>8, <1>9, WorkedKeeps

LEMMA SyncJobKeeps ==
  ASSUME IInv, NEW p \in Process, NEW i, SyncJob(p, i)
  PROVE  IInv'
<1> DEFINE a == pass[p].copy[i]
           k == a.job
<1>1. /\ Turn(p, i) /\ pass[p].kind = "sync" /\ row' = row /\ plans' = plans
      /\ uncast' = uncast /\ requests' = requests /\ replayed' = replayed /\ jobs' = jobs
  BY DEF SyncJob
<1>2. ~Generates(p)
  BY <1>1 DEF Generates
<1>3. /\ i \in Id /\ a \in Asset /\ Fits(i, a, DOMAIN jobs, replayed)
      /\ a.status = "submitted" /\ ~Vacant(a)
  BY <1>1, <1>2, TurnHas
<1>4. Types /\ jobs \in Seq(Job) /\ DOMAIN jobs = 1..Len(jobs) /\ Len(jobs) \in Nat
  BY TypesOf DEF IInv
<1>5. /\ jobs' \in Seq(Job) /\ DOMAIN jobs' = DOMAIN jobs /\ faults' \in 0..MaxFaults
      /\ Grows(DOMAIN jobs, replayed, DOMAIN jobs', replayed') /\ replayed' \in BOOLEAN
  <2>1. jobs' \in Seq(Job) /\ DOMAIN jobs' = DOMAIN jobs
    BY <1>1, <1>4
  <2>2. faults' \in 0..MaxFaults
    BY <1>4, Counts DEF SyncJob
  <2> QED
    BY <1>1, <1>4, <2>1, <2>2, SameJobs
<1>6. k \in DOMAIN jobs /\ k \in Nat \ {0} /\ jobs[k].state \in JobState
  <2>1. k # 0 /\ k \in DOMAIN jobs
    BY <1>3 DEF Vacant, Fits
  <2>2. jobs[k] \in Job /\ k \in Nat
    BY <1>4, <2>1
  <2> QED
    BY <2>1, <2>2 DEF Job, JobState
<1>7. PICK named \in BOOLEAN : named = FALSE
  OBVIOUS
<1>8. PICK b : Worked(p, i, b) /\ b \in {Applied(i, a, k, jobs[k].state, named), a}
  BY <1>7 DEF SyncJob
<1> HIDE DEF k
<1>9. b \in Asset /\ b.job = k /\ b.status # "replaced"
      /\ (i.role = "plate" /\ PlateReviewed(a) => PlateReviewed(b))
  <2>1. CASE b = a
    BY <1>3, <2>1 DEF k
  <2>2. CASE b = Applied(i, a, k, jobs[k].state, named)
    <3> DEFINE s == jobs[k].state
    <3>1. b = Applied(i, a, k, s, named) /\ s \in JobState
      BY <1>6, <2>2
    <3> HIDE DEF s
    <3>2. /\ b \in Asset /\ b.job = k /\ b.status # "replaced"
          /\ i.role = "plate" /\ (s = "done" => a.approval # "approved") => PlateReviewed(b)
      BY <1>3, <1>6, <1>7, <3>1, AppliedIs
    <3> QED
      BY <1>3, <3>2 DEF PlateReviewed
  <2> QED
    BY <1>8, <2>1, <2>2
<1>10. ~Vacant(b)
  BY <1>6, <1>9 DEF Vacant
<1>11. Fits(i, b, DOMAIN jobs', replayed')
  BY <1>1, <1>3, <1>5, <1>6, <1>9 DEF Fits
<1> QED
  BY <1>1, <1>5, <1>8, <1>9, <1>10, <1>11, WorkedKeeps

-----------------------------------------------------------------------------
(* The end of a pass, and its start.                                       *)

\* A step that saves a row: every other pass has an older one.
LEMMA SaveKeeps ==
  ASSUME IInv, NEW p, NEW e, Saves(p, e), uncast' = uncast, plans' \in 0..MaxPlans,
         plans <= plans', jobs' = jobs, replayed' = replayed,
         requests' \in 0..MaxRequests, faults' \in 0..MaxFaults,
         Sound(e, DOMAIN jobs, replayed, plans'), \A i \in DOMAIN e : ~Vacant(e[i])
  PROVE  IInv'
<1>1. /\ pass \in [Process -> Pass] /\ uncast \in BOOLEAN /\ plans' \in Nat /\ Types
      /\ row' = e /\ pass' = Ended(p)
  BY TypesOf DEF IInv, Types, Saves
<1>2. /\ jobs' \in Seq(Job) /\ replayed' \in BOOLEAN
      /\ Grows(DOMAIN jobs, replayed, DOMAIN jobs', replayed')
  BY <1>1 DEF Types, Grows
<1>3. ASSUME NEW r \in Process
      PROVE  /\ pass'[r] \in Pass /\ PassSound(pass'[r], DOMAIN jobs', replayed', plans')
             /\ pass'[r].busy => pass'[r].stale
  <2>1. pass[r] \in Pass /\ PassSound(pass[r], DOMAIN jobs', replayed', plans')
    BY <1>1, <1>2, AllLater
  <2>2. CASE r # p /\ pass[r].busy
    <3>1. pass'[r] = [pass[r] EXCEPT !.stale = TRUE]
      BY <1>1, <2>2 DEF Ended
    <3> QED
      BY <2>1, <3>1, StaleSound
  <2>3. CASE ~(r # p /\ pass[r].busy)
    <3>1. pass'[r] = NoPass
      BY <1>1, <2>3 DEF Ended
    <3> QED
      BY <3>1, NoPassIs
  <2> QED
    BY <2>2, <2>3
<1>4. pass' \in [Process -> Pass]
  BY <1>1, <1>3 DEF Ended
<1>5. Types'
  BY <1>1, <1>2, <1>4 DEF Types
<1>6. RowSound'
  BY <1>1 DEF RowSound
<1>7. PassesSound'
  BY <1>3 DEF PassesSound
<1>8. AllStandOff'
  BY <1>3 DEF AllStandOff, StandsOff
<1> QED
  BY <1>5, <1>6, <1>7, <1>8 DEF IInv

LEMMA DropKeeps ==
  ASSUME IInv, NEW p \in Process, Drops(p), uncast' = uncast, plans' = plans,
         jobs' = jobs, replayed' = replayed,
         requests' \in 0..MaxRequests, faults' \in 0..MaxFaults
  PROVE  IInv'
<1>1. /\ jobs' \in Seq(Job) /\ Grows(DOMAIN jobs, replayed, DOMAIN jobs', replayed')
      /\ replayed' \in BOOLEAN /\ plans' \in 0..MaxPlans /\ plans <= plans'
  <2>1. Types
    BY DEF IInv
  <2>2. jobs' \in Seq(Job) /\ DOMAIN jobs' = DOMAIN jobs
    BY <2>1, Counts
  <2> QED
    BY <2>1, <2>2, SameJobs, Counts
<1>2. row' = row /\ pass' = [pass EXCEPT ![p] = NoPass]
  BY DEF Drops
<1>3. /\ PassSound(NoPass, DOMAIN jobs', replayed', plans') /\ NoPass \in Pass
      /\ StandsOff(p, NoPass, row)
  BY NoPassIs DEF StandsOff
<1> QED
  BY <1>1, <1>2, <1>3, PassStepKeeps

LEMMA PassEndKeeps ==
  ASSUME IInv, NEW p \in Process, PassEnd(p)
  PROVE  IInv'
<1>1. /\ jobs' = jobs /\ replayed' = replayed /\ plans' = plans /\ uncast' = uncast
      /\ requests' = requests /\ faults' = faults /\ \A i \in pass[p].todo : ~Due(p, i)
      /\ Drops(p) \/ Saves(p, pass[p].copy)
  BY DEF PassEnd, budget
<1>2. Types /\ PassSound(pass[p], DOMAIN jobs, replayed, plans)
  BY DEF IInv, PassesSound
<1>3. \A i \in pass[p].todo : ~DueIn(pass[p], i)
  BY <1>1, TurnMeans
<1>4. /\ plans' \in 0..MaxPlans /\ plans <= plans'
      /\ requests' \in 0..MaxRequests /\ faults' \in 0..MaxFaults
  BY <1>1, <1>2, Counts
<1>5. /\ Sound(pass[p].copy, DOMAIN jobs, replayed, plans')
      /\ \A i \in DOMAIN pass[p].copy : ~Vacant(pass[p].copy[i])
  BY <1>1, <1>2, <1>3, EndedSound
<1>6. CASE Drops(p)
  BY <1>1, <1>4, <1>6, DropKeeps
<1>7. CASE Saves(p, pass[p].copy)
  BY <1>1, <1>4, <1>5, <1>7, SaveKeeps
<1> QED
  BY <1>1, <1>6, <1>7

LEMMA KillKeeps ==
  ASSUME IInv, NEW p \in Process, Kill(p)
  PROVE  IInv'
<1>1. /\ jobs' = jobs /\ replayed' = replayed /\ plans' = plans
      /\ uncast' = uncast /\ requests' = requests /\ Fault /\ Drops(p)
  BY DEF Kill
<1>2. requests' \in 0..MaxRequests /\ faults' \in 0..MaxFaults
  BY <1>1, Counts DEF IInv
<1> QED
  BY <1>1, <1>2, DropKeeps

LEMMA FinishKeeps ==
  ASSUME IInv, NEW k \in DOMAIN jobs, Finish(k)
  PROVE  IInv'
<1>1. /\ replayed' = replayed /\ plans' = plans
      /\ uncast' = uncast /\ requests' = requests /\ row' = row /\ pass' = pass
  BY DEF Finish
<1>2. Types /\ jobs \in Seq(Job)
  BY TypesOf DEF IInv
<1>3. faults' \in 0..MaxFaults /\ requests' \in 0..MaxRequests
  BY <1>1, <1>2, Counts DEF Finish
<1>4. PICK s \in {"done", "failed", "cancelled"} : jobs' = [jobs EXCEPT ![k].state = s]
  BY DEF Finish
<1>5. jobs' \in Seq(Job) /\ DOMAIN jobs' = DOMAIN jobs
  BY <1>2, <1>4, EndedIs
<1>6. Types'
  BY <1>1, <1>2, <1>3, <1>5 DEF Types
<1>7. RowSound' /\ PassesSound' /\ AllStandOff'
  BY <1>1, <1>5 DEF IInv, RowSound, PassesSound, AllStandOff
<1> QED
  BY <1>6, <1>7 DEF IInv

\* A pass that starts on an episode that is sound.
LEMMA StartKeeps ==
  ASSUME IInv, NEW p \in Process, NEW kind \in Kind, NEW e, NEW T, NEW no \in BOOLEAN,
         Start(p, kind, e, T, ~no), row' = row, jobs' = jobs, uncast' = uncast,
         replayed' = replayed, plans' \in 0..MaxPlans, plans <= plans',
         requests' \in 0..MaxRequests, faults' \in 0..MaxFaults,
         Sound(e, DOMAIN jobs, replayed, plans'), \A i \in DOMAIN e : ~Vacant(e[i]),
         T \subseteq Standing(e),
         kind \notin {"generate", "regenerate"} => T \subseteq Under(e),
         \/ uncast
         \/ p = "request" /\ kind \in {"generate", "regenerate"}
         \/ \A i \in DOMAIN row \cap DOMAIN e : GivenUp(row[i]) => i \notin T /\ e[i] = row[i]
  PROVE  IInv'
<1> DEFINE q == [busy |-> TRUE, kind |-> kind, copy |-> e, todo |-> T,
                 named |-> ~no, stale |-> FALSE]
<1>1. Types
  BY DEF IInv
<1>2. /\ jobs' \in Seq(Job) /\ Grows(DOMAIN jobs, replayed, DOMAIN jobs', replayed')
      /\ replayed' \in BOOLEAN
  BY <1>1 DEF Types, Grows
<1>3. pass' = [pass EXCEPT ![p] = q]
  BY DEF Start
<1>4. e \in Copy /\ T \in SUBSET Id
  BY CopyIs DEF Sound, Standing
<1>5. /\ q \in Pass /\ q.busy /\ q.kind = kind /\ q.copy = e /\ q.todo = T
  BY <1>4 DEF Pass
<1> HIDE DEF q
<1>6. PassSound(q, DOMAIN jobs, replayed, plans')
  <2>1. ~GeneratesIn(q) => T \subseteq Under(e)
    BY <1>5 DEF GeneratesIn
  <2> QED
    BY <1>5, <2>1, StartedSound
<1>7. uncast \/ StandsOff(p, q, row)
  BY <1>5 DEF StandsOff, KeepsOff, GeneratesIn
<1>8. PassSound(q, DOMAIN jobs', replayed', plans')
  BY <1>6
<1> QED
  BY <1>2, <1>3, <1>5, <1>7, <1>8, PassStepKeeps

LEMMA TargetsStand ==
  ASSUME NEW e
  PROVE  /\ WorkerTargets(e) \subseteq Standing(e)
         /\ TargetsOrAll(WorkerTargets(e), e) \subseteq Standing(e)
         /\ \A i \in WorkerTargets(e) : ~GivenUp(e[i])
  BY DEF WorkerTargets, TargetsOrAll, GivenUp

\* Nothing that stands is missing its clip; so who plans for a missing clip finds nothing
\* that was given up.
LEMMA NothingGivenUp ==
  ASSUME NEW e \in Copy, HasClip(e), Active(e, "clip") = 0
  PROVE  \A i \in DOMAIN e : ~GivenUp(e[i])
<1>1. "clip" \in {"plate", "master", "clip"}
  OBVIOUS
<1>2. \A i \in Standing(e) : i.role # "clip"
  BY <1>1, ActiveIs
<1>3. Standing(e) = {}
  BY <1>2 DEF HasClip
<1> QED
  BY <1>3 DEF Standing, GivenUp

LEMMA RowHas ==
  ASSUME IInv
  PROVE  /\ Types /\ plans \in Nat /\ row \in Copy /\ HasClip(row) /\ MaxPlans \in Nat
         /\ Sound(row, DOMAIN jobs, replayed, plans)
         /\ \A i \in DOMAIN row : i.plan <= plans /\ Fits(i, row[i], DOMAIN jobs, replayed)
         /\ \A i \in DOMAIN row : i \in Id /\ row[i] \in Asset /\ ~Vacant(row[i])
  BY TypesOf, CopyIs DEF IInv, RowSound, Sound

LEMMA WorkerStartKeeps ==
  ASSUME IInv, WorkerStart
  PROVE  IInv'
<1> DEFINE e == IF MissesClip(row) THEN Planned(row, plans + 1) ELSE row
           T == TargetsOrAll(WorkerTargets(e), e)
<1>1. /\ row' = row /\ jobs' = jobs /\ uncast' = uncast /\ requests' = requests
      /\ faults' = faults /\ replayed' = replayed /\ CanStart
      /\ Start("worker", "generate", e, T, TRUE)
      /\ plans' = IF MissesClip(row) THEN PlansAfter(row, plans + 1) ELSE plans
  BY DEF WorkerStart, budget
<1>2. /\ MissesClip(row) \/ WorkerTargets(row) # {}
      /\ MissesClip(row) => PlansAfter(row, plans + 1) <= MaxPlans
  BY <1>1 DEF CanStart
<1>3. requests' \in 0..MaxRequests /\ faults' \in 0..MaxFaults
  BY <1>1, RowHas, Counts
<1>4. /\ plans' \in 0..MaxPlans /\ plans <= plans'
      /\ Sound(e, DOMAIN jobs, replayed, plans') /\ \A i \in DOMAIN e : ~Vacant(e[i])
  <2>1. CASE MissesClip(row)
    <3>1. e = Planned(row, plans + 1) /\ plans' = PlansAfter(row, plans + 1)
      BY <1>1, <2>1
    <3> HIDE DEF e
    <3>2. /\ PlansAfter(row, plans + 1) \in 0..MaxPlans /\ plans <= PlansAfter(row, plans + 1)
          /\ Sound(Planned(row, plans + 1), DOMAIN jobs, replayed, PlansAfter(row, plans + 1))
          /\ \A i \in DOMAIN Planned(row, plans + 1) : ~Vacant(Planned(row, plans + 1)[i])
      BY <1>2, <2>1, RowHas, PlansSound
    <3> QED
      BY <3>1, <3>2
  <2>2. CASE ~MissesClip(row)
    <3>1. e = row /\ plans' = plans
      BY <1>1, <2>2
    <3> QED
      BY <3>1, RowHas, Counts
  <2> QED
    BY <2>1, <2>2
<1>5. T \subseteq Standing(e)
  BY TargetsStand
<1>6. uncast \/ \A i \in DOMAIN row \cap DOMAIN e :
                  GivenUp(row[i]) => i \notin T /\ e[i] = row[i]
  <2>1. CASE MissesClip(row) /\ ~uncast
    <3>1. Active(row, "clip") = 0
      BY <2>1 DEF MissesClip
    <3> QED
      BY <3>1, RowHas, NothingGivenUp
  <2>2. CASE ~MissesClip(row)
    <3>1. e = row /\ WorkerTargets(row) # {}
      BY <1>2, <2>2
    <3>2. T = WorkerTargets(row)
      BY <3>1 DEF TargetsOrAll
    <3> QED
      BY <3>1, <3>2, TargetsStand
  <2> QED
    BY <2>1, <2>2
<1> HIDE DEF e, T
<1>7. PICK p \in Process : p = "worker"
  BY DEF Process
<1>8. PICK kind \in Kind : kind = "generate"
  BY DEF Kind
<1>9. PICK no \in BOOLEAN : no = FALSE
  OBVIOUS
<1>10. Start(p, kind, e, T, ~no)
  BY <1>1, <1>7, <1>8, <1>9
<1> QED
  BY <1>1, <1>3, <1>4, <1>5, <1>6, <1>8, <1>10, StartKeeps

\* A request that starts on the row as it is stored.
LEMMA RequestKeeps ==
  ASSUME IInv, NEW kind \in Kind, NEW T, NEW no \in BOOLEAN,
         Start("request", kind, row, T, ~no), T \subseteq Standing(row),
         kind \notin {"generate", "regenerate"} => T \subseteq Under(row),
         Asked, UNCHANGED <<row, jobs, plans, uncast, faults, replayed>>
  PROVE  IInv'
<1>1. /\ requests' \in 0..MaxRequests /\ faults' \in 0..MaxFaults
      /\ plans' \in 0..MaxPlans /\ plans <= plans'
  BY RowHas, Counts
<1>2. Sound(row, DOMAIN jobs, replayed, plans') /\ \A i \in DOMAIN row : ~Vacant(row[i])
  BY RowHas
<1>3. PICK p \in Process : p = "request"
  BY DEF Process
<1>4. Start(p, kind, row, T, ~no)
  BY <1>3
<1>5. CASE kind \in {"generate", "regenerate"}
  BY <1>1, <1>2, <1>3, <1>4, <1>5, StartKeeps
<1>6. CASE kind \notin {"generate", "regenerate"}
  <2>1. \A i \in DOMAIN row : GivenUp(row[i]) => i \notin T
    BY <1>6 DEF Under, GivenUp
  <2> QED
    BY <1>1, <1>2, <1>4, <1>6, <2>1, StartKeeps
<1> QED
  BY <1>5, <1>6

LEMMA RequestStartKeeps ==
  ASSUME IInv, RequestStart
  PROVE  IInv'
<1>1. PICK T \in SUBSET Standing(row), n \in Named, kind \in {"generate", "regenerate"} :
        Start("request", kind, row, T, n)
  BY DEF RequestStart
<1>2. PICK no \in BOOLEAN : n = ~no
  BY VisualAssumption DEF VisualAssumption
<1>3. Start("request", kind, row, T, ~no) /\ kind \in Kind
  BY <1>1, <1>2 DEF Kind
<1>4. Asked /\ UNCHANGED <<row, jobs, plans, uncast, faults, replayed>>
  BY DEF RequestStart
<1> QED
  BY <1>1, <1>3, <1>4, RequestKeeps

LEMMA ChosenIs ==
  ASSUME NEW T \in Chosen(row)
  PROVE  T \subseteq Under(row) /\ T \subseteq Standing(row)
  BY DEF Chosen, Under

LEMMA CancelRequestKeeps ==
  ASSUME IInv, CancelRequest
  PROVE  IInv'
<1>1. PICK kind \in {"cancel", "reset"}, T \in Chosen(row) :
        Start("request", kind, row, T, TRUE)
  BY DEF CancelRequest
<1>2. PICK no \in BOOLEAN : no = FALSE
  OBVIOUS
<1>3. Start("request", kind, row, T, ~no) /\ kind \in Kind
  BY <1>1, <1>2 DEF Kind
<1>4. Asked /\ UNCHANGED <<row, jobs, plans, uncast, faults, replayed>>
  BY DEF CancelRequest
<1> QED
  BY <1>3, <1>4, ChosenIs, RequestKeeps

LEMMA SyncRequestKeeps ==
  ASSUME IInv, SyncRequest
  PROVE  IInv'
<1>1. PICK T \in Chosen(row) : Start("request", "sync", row, T, TRUE)
  BY DEF SyncRequest
<1>2. PICK no \in BOOLEAN : no = FALSE
  OBVIOUS
<1>3. PICK kind \in Kind : kind = "sync"
  BY DEF Kind
<1>4. Start("request", kind, row, T, ~no)
  BY <1>1, <1>2, <1>3
<1>5. Asked /\ UNCHANGED <<row, jobs, plans, uncast, faults, replayed>>
  BY DEF SyncRequest
<1> QED
  BY <1>4, <1>5, ChosenIs, RequestKeeps

LEMMA PollKeeps ==
  ASSUME IInv, Poll
  PROVE  IInv'
<1>1. /\ Start("adapter", "sync", row, Under(row), TRUE)
      /\ UNCHANGED <<row, jobs, plans, uncast, requests, faults, replayed>>
  BY DEF Poll, budget
<1>2. /\ requests' \in 0..MaxRequests /\ faults' \in 0..MaxFaults
      /\ plans' \in 0..MaxPlans /\ plans <= plans'
  BY <1>1, RowHas, Counts
<1>3. Sound(row, DOMAIN jobs, replayed, plans') /\ \A i \in DOMAIN row : ~Vacant(row[i])
  BY <1>1, RowHas
<1>4. PICK p \in Process : p = "adapter"
  BY DEF Process
<1>5. PICK kind \in Kind : kind = "sync"
  BY DEF Kind
<1>6. PICK no \in BOOLEAN : no = FALSE
  OBVIOUS
<1>7. Start(p, kind, row, Under(row), ~no)
  BY <1>1, <1>4, <1>5, <1>6
<1>8. /\ Under(row) \subseteq Standing(row)
      /\ \A i \in DOMAIN row : GivenUp(row[i]) => i \notin Under(row)
  BY DEF Under, GivenUp
<1> QED
  BY <1>1, <1>2, <1>3, <1>7, <1>8, StartKeeps

LEMMA RepairStartKeeps ==
  ASSUME IInv, RepairStart
  PROVE  IInv'
<1> DEFINE broken == {i \in Standing(row) : row[i].status \in {"failed", "cancelled"}}
           r == Replaced(row, broken)
           e == Planned(r, plans + 1)
           T == {i \in Standing(e) : e[i].status = "planned"}
<1>1. /\ row' = row /\ jobs' = jobs /\ uncast' = uncast /\ Asked
      /\ faults' = faults /\ replayed' = replayed
      /\ Start("request", "generate", e, T, TRUE)
      /\ plans' = PlansAfter(r, plans + 1) /\ PlansAfter(r, plans + 1) <= MaxPlans
  BY DEF RepairStart
<1>2. requests' \in 0..MaxRequests /\ faults' \in 0..MaxFaults
  BY <1>1, RowHas, Counts
<1>3. T \subseteq Standing(e)
  OBVIOUS
<1>4. e = Planned(r, plans + 1) /\ r = Replaced(row, broken)
  OBVIOUS
<1> HIDE DEF broken, r, e, T
<1>5. /\ r \in Copy /\ \A i \in DOMAIN r : i.plan <= plans /\ Fits(i, r[i], DOMAIN jobs, replayed)
      /\ DOMAIN r = DOMAIN row /\ \A i \in DOMAIN r : ~Vacant(r[i])
  BY <1>4, RowHas, ReplacedSound
<1>6. /\ plans' \in 0..MaxPlans /\ plans <= plans'
      /\ Sound(e, DOMAIN jobs, replayed, plans') /\ \A i \in DOMAIN e : ~Vacant(e[i])
  BY <1>1, <1>4, <1>5, RowHas, PlansSound
<1>7. PICK p \in Process : p = "request"
  BY DEF Process
<1>8. PICK kind \in Kind : kind = "generate"
  BY DEF Kind
<1>9. PICK no \in BOOLEAN : no = FALSE
  OBVIOUS
<1>10. Start(p, kind, e, T, ~no)
  BY <1>1, <1>7, <1>8, <1>9
<1>11. p = "request" /\ kind \in {"generate", "regenerate"}
  BY <1>7, <1>8
<1> QED
  BY <1>1, <1>2, <1>3, <1>6, <1>10, <1>11, StartKeeps

-----------------------------------------------------------------------------
(* The other requests.                                                     *)

LEMMA RetiresTwice ==
  ASSUME NEW a \in Asset, NEW b, NEW c, Retires(a, b), Retires(b, c)
  PROVE  Retires(a, c)
<1> USE DEF Asset, Retires
<1>1. CASE b = a
  BY <1>1
<1>2. CASE c = b
  BY <1>2
<1>3. CASE b = [a EXCEPT !.status = "replaced"] /\ c = [b EXCEPT !.status = "replaced"]
  BY <1>3
<1> QED
  BY <1>1, <1>2, <1>3

LEMMA PlanKeeps ==
  ASSUME IInv, Plan
  PROVE  IInv' /\ \A i \in DOMAIN row : i \in DOMAIN row' /\ Retires(row[i], row'[i])
<1>1. jobs' = jobs /\ uncast' = uncast /\ Asked /\ faults' = faults /\ replayed' = replayed
  BY DEF Plan
<1>2. PICK regenerate \in BOOLEAN :
        LET e == IF regenerate THEN Replaced(row, Standing(row)) ELSE row
        IN /\ PlansAfter(e, plans + 1) <= MaxPlans
           /\ Edits(Planned(e, plans + 1))
           /\ plans' = PlansAfter(e, plans + 1)
  BY DEF Plan
<1> DEFINE e == IF regenerate THEN Replaced(row, Standing(row)) ELSE row
<1>3. requests' \in 0..MaxRequests /\ faults' \in 0..MaxFaults
  BY <1>1, RowHas, Counts
<1>4. /\ Saves("none", Planned(e, plans + 1)) /\ plans' = PlansAfter(e, plans + 1)
      /\ PlansAfter(e, plans + 1) <= MaxPlans
  BY <1>2 DEF Edits
<1>5. /\ e \in Copy /\ \A i \in DOMAIN e : i.plan <= plans /\ Fits(i, e[i], DOMAIN jobs, replayed)
      /\ DOMAIN e = DOMAIN row
      /\ \A i \in DOMAIN e : ~Vacant(e[i]) /\ Retires(row[i], e[i])
  <2>1. CASE regenerate
    <3>1. e = Replaced(row, Standing(row))
      BY <2>1
    <3> HIDE DEF e
    <3>2. /\ e \in Copy /\ DOMAIN e = DOMAIN row
          /\ \A i \in DOMAIN e : i.plan <= plans /\ Fits(i, e[i], DOMAIN jobs, replayed)
          /\ \A i \in DOMAIN e : ~Vacant(row[i]) => ~Vacant(e[i])
      BY <3>1, RowHas, ReplacedSound
    <3>3. \A i \in DOMAIN row : Retires(row[i], e[i])
      BY <3>1, RowHas, ReplacedIs
    <3> QED
      BY <3>2, <3>3, RowHas
  <2>2. CASE ~regenerate
    <3>1. e = row
      BY <2>2
    <3> QED
      BY <3>1, RowHas DEF Retires
  <2> QED
    BY <2>1, <2>2
<1> HIDE DEF e
<1> DEFINE f == Planned(e, plans + 1)
<1>6. /\ plans' \in 0..MaxPlans /\ plans <= plans'
      /\ Sound(f, DOMAIN jobs, replayed, plans') /\ \A i \in DOMAIN f : ~Vacant(f[i])
      /\ \A i \in DOMAIN e : i \in DOMAIN f /\ Retires(e[i], f[i])
  BY <1>4, <1>5, RowHas, PlansSound
<1>7. Saves("none", f) /\ row' = f
  BY <1>4 DEF Saves
<1> HIDE DEF f
<1>8. IInv'
  BY <1>1, <1>3, <1>6, <1>7, SaveKeeps
<1>9. ASSUME NEW i \in DOMAIN row PROVE i \in DOMAIN row' /\ Retires(row[i], row'[i])
  <2>1. row[i] \in Asset /\ Retires(row[i], e[i]) /\ i \in DOMAIN f /\ Retires(e[i], f[i])
    BY <1>5, <1>6, RowHas
  <2> QED
    BY <1>7, <2>1, RetiresTwice
<1> QED
  BY <1>8, <1>9

LEMMA ChangeSceneKeeps ==
  ASSUME IInv, ChangeScene
  PROVE  IInv' /\ \A i \in DOMAIN row : i \in DOMAIN row' /\ Retires(row[i], row'[i])
<1> DEFINE f == Replaced(row, Standing(row))
<1>1. /\ jobs' = jobs /\ uncast' = uncast /\ Asked /\ faults' = faults /\ plans' = plans
      /\ replayed' = replayed /\ Saves("none", f) /\ row' = f
  BY DEF ChangeScene, Edits, Saves
<1>2. /\ requests' \in 0..MaxRequests /\ faults' \in 0..MaxFaults
      /\ plans' \in 0..MaxPlans /\ plans <= plans'
  BY <1>1, RowHas, Counts
<1>3. /\ DOMAIN f = DOMAIN row /\ \A i \in DOMAIN row : Retires(row[i], f[i])
  BY RowHas, ReplacedIs
<1>4. f = Replaced(row, Standing(row))
  OBVIOUS
<1> HIDE DEF f
<1>5. /\ Sound(f, DOMAIN jobs, replayed, plans) /\ \A i \in DOMAIN f : ~Vacant(f[i])
  BY <1>3, <1>4, RowHas, ReplacedSound
<1>6. Sound(f, DOMAIN jobs, replayed, plans')
  BY <1>1, <1>5
<1>7. IInv'
  BY <1>1, <1>2, <1>5, <1>6, SaveKeeps
<1> QED
  BY <1>1, <1>3, <1>7

\* The row with a review in it.
LEMMA ReviewedIs ==
  ASSUME IInv, NEW i \in DOMAIN row, row[i].status = "completed",
         NEW d \in {"approved", "rejected"}
  PROVE  /\ Sound(Reviewed(i, d), DOMAIN jobs, replayed, plans)
         /\ \A j \in DOMAIN Reviewed(i, d) : ~Vacant(Reviewed(i, d)[j])
         /\ DOMAIN Reviewed(i, d) = DOMAIN row
         /\ \A j \in DOMAIN row : j # i => Reviewed(i, d)[j] = row[j]
<1> DEFINE b == [row[i] EXCEPT !.approval = d, !.seen = row[i].pic]
           f == Reviewed(i, d)
<1>1. /\ row[i] \in Asset /\ Fits(i, row[i], DOMAIN jobs, replayed) /\ i \in Standing(row)
      /\ row \in Copy /\ row \in [DOMAIN row -> Asset] /\ DOMAIN row \in SUBSET Id
  BY RowHas, CopyIs DEF Standing
<1>2. b \in Asset /\ b.job = row[i].job /\ b.status = "completed" /\ b.seen = b.pic
  BY <1>1 DEF Asset
<1>3. f = [row EXCEPT ![i] = b]
  BY DEF Reviewed
<1> HIDE DEF b
<1>4. f \in [DOMAIN row -> Asset] /\ f[i] = b /\ \A j \in DOMAIN row : j # i => f[j] = row[j]
  BY <1>1, <1>2, <1>3
<1> HIDE DEF f
<1>5. PlateReviewed(b) /\ ~Vacant(b) /\ b.status # "replaced"
  BY <1>2 DEF PlateReviewed, Vacant
<1>6. Fits(i, b, DOMAIN jobs, replayed)
  BY <1>1, <1>2, <1>5 DEF Fits
<1>7. f \in Copy /\ DOMAIN f = DOMAIN row
  BY <1>1, <1>4, CopyMade
<1>8. HasClip(f)
  <2>1. Standing(f) = Standing(row)
    BY <1>1, <1>4, <1>5, <1>7 DEF Standing
  <2> QED
    BY <2>1, RowHas DEF HasClip
<1>9. ASSUME NEW j \in DOMAIN f
      PROVE  j.plan <= plans /\ Fits(j, f[j], DOMAIN jobs, replayed) /\ ~Vacant(f[j])
  <2>1. j.plan <= plans /\ Fits(j, row[j], DOMAIN jobs, replayed) /\ ~Vacant(row[j])
    BY <1>7, RowHas
  <2>2. CASE j = i
    BY <1>4, <1>5, <1>6, <2>1, <2>2
  <2>3. CASE j # i
    BY <1>4, <1>7, <2>1, <2>3
  <2> QED
    BY <2>2, <2>3
<1>10. Sound(f, DOMAIN jobs, replayed, plans) /\ \A j \in DOMAIN f : ~Vacant(f[j])
  BY <1>7, <1>8, <1>9 DEF Sound
<1> QED
  BY <1>4, <1>7, <1>10 DEF f

LEMMA ReviewKeeps ==
  ASSUME IInv, NEW i \in DOMAIN row, Review(i)
  PROVE  /\ IInv' /\ row[i].status = "completed"
         /\ \A j \in DOMAIN row : j # i => row'[j] = row[j]
<1>1. PICK d \in {"approved", "rejected"} :
        /\ Reviewable(i, "master") \/ (Reviewable(i, "plate") /\ d = "rejected")
        /\ Edits(Reviewed(i, d))
  BY DEF Review
<1>2. /\ uncast' = uncast /\ Asked /\ plans' = plans /\ jobs' = jobs /\ faults' = faults
      /\ replayed' = replayed
  BY DEF Review
<1>3. row[i].status = "completed"
  BY <1>1 DEF Reviewable
<1>4. PICK f : f = Reviewed(i, d) /\ Saves("none", f) /\ row' = f
  BY <1>1 DEF Edits, Saves
<1>5. /\ Sound(f, DOMAIN jobs, replayed, plans) /\ \A j \in DOMAIN f : ~Vacant(f[j])
      /\ DOMAIN f = DOMAIN row /\ \A j \in DOMAIN row : j # i => f[j] = row[j]
  BY <1>3, <1>4, ReviewedIs
<1>6. /\ requests' \in 0..MaxRequests /\ faults' \in 0..MaxFaults
      /\ plans' \in 0..MaxPlans /\ plans <= plans'
  BY <1>2, RowHas, Counts
<1>7. Sound(f, DOMAIN jobs, replayed, plans')
  BY <1>2, <1>5
<1> QED
  BY <1>2, <1>3, <1>4, <1>5, <1>6, <1>7, SaveKeeps

LEMMA ApprovePlateKeeps ==
  ASSUME IInv, NEW i \in DOMAIN row, ApprovePlate(i)
  PROVE  IInv'
<1>1. /\ uncast' = uncast /\ Asked /\ plans' = plans /\ jobs' = jobs /\ faults' = faults
      /\ replayed' = replayed /\ row' = row
      /\ row[i].status = "completed" /\ Start("request", "review", Reviewed(i, "approved"), {}, TRUE)
  BY DEF ApprovePlate, Reviewable
<1>2. PICK d \in {"approved", "rejected"} : d = "approved"
  OBVIOUS
<1>3. PICK f : f = Reviewed(i, d)
  OBVIOUS
<1>4. /\ Sound(f, DOMAIN jobs, replayed, plans) /\ \A j \in DOMAIN f : ~Vacant(f[j])
      /\ DOMAIN f = DOMAIN row /\ \A j \in DOMAIN row : j # i => f[j] = row[j]
  BY <1>1, <1>3, ReviewedIs
<1>5. /\ requests' \in 0..MaxRequests /\ faults' \in 0..MaxFaults
      /\ plans' \in 0..MaxPlans /\ plans <= plans'
  BY <1>1, RowHas, Counts
<1>6. PICK p \in Process : p = "request"
  BY DEF Process
<1>7. PICK kind \in Kind : kind = "review"
  BY DEF Kind
<1>8. PICK no \in BOOLEAN : no = FALSE
  OBVIOUS
<1>9. PICK T : T = {}
  OBVIOUS
<1>10. Start(p, kind, f, T, ~no)
  BY <1>1, <1>2, <1>3, <1>6, <1>7, <1>8, <1>9
<1>11. T \subseteq Standing(f) /\ T \subseteq Under(f)
  BY <1>9
<1>12. \A j \in DOMAIN row : GivenUp(row[j]) => j \notin T /\ f[j] = row[j]
  BY <1>1, <1>4, <1>9 DEF GivenUp
<1>13. Sound(f, DOMAIN jobs, replayed, plans')
  BY <1>1, <1>4
<1> QED
  BY <1>1, <1>4, <1>5, <1>10, <1>11, <1>12, <1>13, StartKeeps

-----------------------------------------------------------------------------
(* The invariant.                                                          *)

LEMMA NextKeeps == IInv /\ [Next]_vars => IInv'
<1> SUFFICES ASSUME IInv, [Next]_vars PROVE IInv'
  OBVIOUS
<1>1. ASSUME NEW p \in Process, Step(p) PROVE IInv'
  BY <1>1, PassEndKeeps, CancelFirstKeeps, SubmitKeeps, ReplayKeeps, RefuseKeeps,
     CancelJobKeeps, SyncJobKeeps DEF Step
<1>2. CASE WorkerStart \/ RequestStart \/ RepairStart \/ CancelRequest \/ SyncRequest \/ Poll
  BY <1>2, WorkerStartKeeps, RequestStartKeeps, RepairStartKeeps, CancelRequestKeeps,
     SyncRequestKeeps, PollKeeps
<1>3. CASE \E p \in Process : Kill(p)
  BY <1>3, KillKeeps
<1>4. CASE \E k \in DOMAIN jobs : Finish(k)
  BY <1>4, FinishKeeps
<1>5. CASE Plan \/ ChangeScene
  BY <1>5, PlanKeeps, ChangeSceneKeeps
<1>6. CASE \E i \in DOMAIN row : Review(i) \/ ApprovePlate(i)
  BY <1>6, ReviewKeeps, ApprovePlateKeeps
<1>7. CASE UNCHANGED vars
  BY <1>7 DEF vars, IInv, Types, RowSound, PassesSound, AllStandOff
<1> QED
  BY <1>1, <1>2, <1>3, <1>4, <1>5, <1>6, <1>7 DEF Next

LEMMA PlaceIs ==
  ASSUME NEW n \in 1..3
  PROVE  /\ [role |-> Role[n], plan |-> 1] \in Id
         /\ \A l \in 1..3 : Role[l] = Role[n] => l = n
<1>1. Role[1] = "plate" /\ Role[2] = "master" /\ Role[3] = "clip"
  BY DEF Role
<1>2. n = 1 \/ n = 2 \/ n = 3
  OBVIOUS
<1>3. 1 \in 1..MaxPlans
  BY VisualAssumption DEF VisualAssumption
<1>4. Role[n] \in {"plate", "master", "clip"}
  BY <1>1, <1>2
<1> QED
  BY <1>1, <1>2, <1>3, <1>4 DEF Id

\* The jobs and the row of the starting points.
LEMMA MadeJobsAre ==
  ASSUME NEW m \in 0..2
  PROVE  MadeJobs(m) \in Seq(Job) /\ DOMAIN MadeJobs(m) = 1..m
<1> DEFINE js == MadeJobs(m)
<1>1. DOMAIN js = 1..m /\ \A n \in 1..m : n \in 1..3
  BY DEF MadeJobs
<1>2. ASSUME NEW n \in 1..m
      PROVE  js[n] \in Job
  <2>1. js[n] = [asset |-> [role |-> Role[n], plan |-> 1], attempt |-> 1,
                 base |-> n - 1, state |-> "done"]
    BY DEF MadeJobs
  <2>2. n - 1 \in Nat
    OBVIOUS
  <2> QED
    BY <1>1, <2>1, <2>2, PlaceIs DEF Job
<1>3. js \in [1..m -> Job]
  BY <1>2 DEF MadeJobs
<1> QED
  BY <1>1, <1>3

LEMMA MadeRowSound ==
  ASSUME NEW m \in 1..2
  PROVE  /\ Sound(MadeRow(m), 1..m, FALSE, 1)
         /\ \A i \in DOMAIN MadeRow(m) : ~Vacant(MadeRow(m)[i])
<1> DEFINE e == MadeRow(m)
           P(n) == [role |-> Role[n], plan |-> 1]
<1>1. DOMAIN e = {P(n) : n \in 1..3}
  BY DEF MadeRow
<1>2. ASSUME NEW n \in 1..3
      PROVE  e[P(n)] = LET new == NewAsset(IF n = 1 THEN 0 ELSE 1)
                       IN IF n > m THEN new
                          ELSE [new EXCEPT !.status = "completed", !.approval = "approved",
                                           !.job = n, !.pic = n, !.seen = n, !.tries = 1]
  <2>1. (CHOOSE l \in 1..3 : Role[l] = P(n).role) = n
    BY PlaceIs
  <2>2. P(n) \in DOMAIN e
    BY <1>1
  <2> QED
    BY <1>1, <2>1, <2>2 DEF MadeRow, MadeAsset
<1> HIDE DEF e
<1>3. ASSUME NEW n \in 1..3
      PROVE  /\ e[P(n)] \in Asset /\ Fits(P(n), e[P(n)], 1..m, FALSE)
             /\ ~Vacant(e[P(n)]) /\ e[P(n)].status # "replaced"
  <2> DEFINE d == IF n = 1 THEN 0 ELSE 1
             new == NewAsset(d)
  <2>1. d \in Nat
    OBVIOUS
  <2>2. CASE n > m
    <3>1. e[P(n)] = NewAsset(d)
      BY <1>2, <2>2
    <3> HIDE DEF d
    <3> QED
      BY <2>1, <3>1, NewAssetIs
  <2>3. CASE ~(n > m)
    <3>1. e[P(n)] = [new EXCEPT !.status = "completed", !.approval = "approved",
                                !.job = n, !.pic = n, !.seen = n, !.tries = 1]
      BY <1>2, <2>3
    <3> HIDE DEF d
    <3>2. /\ e[P(n)] \in Asset /\ e[P(n)].status = "completed" /\ e[P(n)].job = n
          /\ e[P(n)].pic = n /\ e[P(n)].seen = n
      <4>1. new \in Asset
        BY <2>1 DEF NewAsset, Asset, Status
      <4>2. n \in Nat /\ 1 \in Nat /\ "completed" \in Status
        BY DEF Status
      <4> HIDE DEF new
      <4> QED
        BY <3>1, <4>1, <4>2 DEF Asset
    <3>3. n \in 1..m
      BY <2>3
    <3>4. Fits(P(n), e[P(n)], 1..m, FALSE)
      BY <3>2, <3>3 DEF Fits, PlateReviewed
    <3> QED
      BY <3>2, <3>4 DEF Vacant
  <2> QED
    BY <2>2, <2>3
<1>4. \A n \in 1..3 : P(n) \in Id /\ P(n).plan = 1
  BY PlaceIs
<1>5. e \in [DOMAIN e -> Asset] /\ DOMAIN e \in SUBSET Id
  <2>1. e = [i \in DOMAIN e |-> e[i]]
    BY DEF MadeRow, e
  <2>2. \A i \in DOMAIN e : i \in Id /\ e[i] \in Asset
    BY <1>1, <1>3, <1>4
  <2> QED
    BY <2>1, <2>2
<1>6. e \in Copy
  BY <1>5, CopyMade
<1>7. HasClip(e)
  <2>1. P(3) \in Standing(e) /\ P(3).role = "clip"
    BY <1>1, <1>3 DEF Standing, Role
  <2> QED
    BY <2>1 DEF HasClip
<1>8. \A i \in DOMAIN e : i.plan <= 1 /\ Fits(i, e[i], 1..m, FALSE) /\ ~Vacant(e[i])
  <2> DEFINE Q(i) == i.plan <= 1 /\ Fits(i, e[i], 1..m, FALSE) /\ ~Vacant(e[i])
  <2>1. \A n \in 1..3 : Q(P(n))
    <3>1. \A n \in 1..3 : P(n).plan <= 1
      BY <1>4
    <3> QED
      BY <1>3, <3>1
  <2>2. \A i \in DOMAIN e : \E n \in 1..3 : i = P(n)
    BY <1>1
  <2>3. \A i \in DOMAIN e : Q(i)
    <3> HIDE DEF P, Q
    <3> QED
      BY <2>1, <2>2
  <2> QED
    BY <2>3
<1> QED
  BY <1>6, <1>7, <1>8 DEF Sound, e

LEMMA InitIs == Init => IInv
<1> SUFFICES ASSUME Init PROVE IInv
  OBVIOUS
<1>1. PICK m \in Made : /\ row = IF m = 0 THEN <<>> ELSE MadeRow(m)
                        /\ jobs = MadeJobs(m) /\ plans = IF m = 0 THEN 0 ELSE 1
  BY DEF Init
<1>2. /\ pass = [p \in Process |-> NoPass] /\ uncast \in BOOLEAN /\ requests = 0 /\ faults = 0
      /\ replayed = FALSE
  BY DEF Init
<1>3. /\ m \in 0..2 /\ MaxPlans \in Nat \ {0} /\ MaxRequests \in Nat /\ MaxFaults \in Nat
  BY <1>1, VisualAssumption DEF VisualAssumption
<1>4. jobs \in Seq(Job) /\ DOMAIN jobs = 1..m
  BY <1>1, <1>3, MadeJobsAre
<1>5. Types
  <2>1. NoPass \in Pass
    BY NoPassIs
  <2>2. pass \in [Process -> Pass]
    BY <1>2, <2>1
  <2>3. plans \in 0..MaxPlans /\ requests \in 0..MaxRequests /\ faults \in 0..MaxFaults
    BY <1>1, <1>2, <1>3
  <2> QED
    BY <1>2, <1>4, <2>2, <2>3 DEF Types
<1>6. RowSound
  <2>1. CASE m = 0
    BY <1>1, <2>1, EmptyCopy DEF RowSound, Sound
  <2>2. CASE m # 0
    <3>1. m \in 1..2 /\ row = MadeRow(m) /\ plans = 1
      BY <1>1, <1>3, <2>2
    <3> QED
      BY <1>2, <1>4, <3>1, MadeRowSound DEF RowSound
  <2> QED
    BY <2>1, <2>2
<1>7. PassesSound
  BY <1>2, NoPassIs DEF PassesSound
<1>8. AllStandOff
  BY <1>2, NoPassIs DEF AllStandOff, StandsOff
<1> QED
  BY <1>5, <1>6, <1>7, <1>8 DEF IInv

(* The inductive invariant: the row and every copy of it are sound, and no *)
(* pass takes up what it found given up.                                   *)
LEMMA Always == Spec => []IInv
<1>1. Init => IInv
  BY InitIs
<1>2. IInv /\ [Next]_vars => IInv'
  BY NextKeeps
<1> QED
  BY <1>1, <1>2, PTL DEF Spec

(* The types of the row, the passes, the jobs and the counts.              *)
THEOREM TypesHold == Spec => []TypeOK
<1>1. IInv => TypeOK
  <2> SUFFICES ASSUME IInv PROVE TypeOK
    OBVIOUS
  <2>1. Types /\ row \in Copy /\ \A p \in Process : pass[p] \in Pass
    BY TypesOf DEF IInv, RowSound, Sound
  <2>2. Assets(row)
    BY <2>1, CopyIs DEF Assets
  <2>3. ASSUME NEW p \in Process
        PROVE  /\ Assets(pass[p].copy) /\ pass[p].todo \subseteq DOMAIN pass[p].copy
               /\ {pass[p].busy, pass[p].named, pass[p].stale} \subseteq BOOLEAN
               /\ pass[p].kind \in Kind
    <3>1. pass[p].copy \in Copy /\ pass[p].todo \subseteq DOMAIN pass[p].copy
      BY DEF IInv, PassesSound, PassSound, Sound, Standing
    <3>2. Assets(pass[p].copy)
      BY <3>1, CopyIs DEF Assets
    <3> QED
      BY <2>1, <3>1, <3>2 DEF Pass
  <2> QED
    BY <2>1, <2>2, <2>3 DEF TypeOK, Types
<1> QED
  BY <1>1, Always, PTL

(* A plate that is completed and approved shows the picture that the       *)
(* person who approved it saw, unless a submission was answered with a job *)
(* finished before.                                                        *)
THEOREM ApprovedPlatesSeen == Spec => []PlateSeen
<1>1. IInv => PlateSeen
  BY DEF IInv, RowSound, Sound, Fits, PlateReviewed, PlateSeen
<1> QED
  BY <1>1, Always, PTL

LEMMA GivenUpIs ==
  ASSUME NEW a, GivenUp(a)
  PROVE  a.status # "completed"
  BY DEF GivenUp

(* What was cancelled without reset or has used up its retries stays so,   *)
(* or is replaced, but for requests to generate and for copies that were   *)
(* loaded before: neither the worker's pass nor the adapter's takes it up. *)
THEOREM GivenUpStands == Spec => CancelStands
<1> DEFINE A == \A i \in DOMAIN row \cap DOMAIN row' :
                  GivenUp(row[i]) /\ ~uncast
                    => \/ row'[i] \in {row[i], [row[i] EXCEPT !.status = "replaced"]}
                       \/ \E p \in Process :
                            /\ PassEnd(p)
                            /\ pass[p].stale \/ (p = "request" /\ Generates(p))
<1>1. IInv /\ [Next]_vars => A
  <2> DEFINE Late == \E p \in Process : /\ PassEnd(p)
                                        /\ pass[p].stale \/ (p = "request" /\ Generates(p))
  <2> SUFFICES ASSUME IInv, [Next]_vars, ~uncast, NEW i \in DOMAIN row \cap DOMAIN row',
                      GivenUp(row[i]), ~Late
               PROVE  Retires(row[i], row'[i])
    BY DEF Retires
  <2>1. CASE row' = row
    BY <2>1 DEF Retires
  <2>2. ASSUME NEW p \in Process, PassEnd(p) PROVE Retires(row[i], row'[i])
    <3>1. pass[p].busy /\ (Drops(p) \/ Saves(p, pass[p].copy))
      BY <2>2 DEF PassEnd
    <3>2. ~pass[p].stale /\ (p = "request" => ~GeneratesIn(pass[p]))
      BY <2>2, TurnMeans
    <3>3. StandsOff(p, pass[p], row)
      BY DEF IInv, AllStandOff
    <3>4. row' \in {row, pass[p].copy}
      BY <3>1 DEF Drops, Saves
    <3>5. row'[i] = row[i]
      BY <3>1, <3>2, <3>3, <3>4 DEF StandsOff, KeepsOff
    <3> QED
      BY <3>5 DEF Retires
  <2>3. ASSUME NEW p \in Process, Step(p) PROVE Retires(row[i], row'[i])
    BY <2>1, <2>2, <2>3 DEF Step, CancelFirst, Submit, Replay, Refuse, CancelJob, SyncJob
  <2>4. CASE WorkerStart \/ RequestStart \/ RepairStart \/ CancelRequest \/ SyncRequest \/ Poll
    BY <2>1, <2>4 DEF WorkerStart, RequestStart, RepairStart, CancelRequest, SyncRequest, Poll
  <2>5. CASE \E p \in Process : Kill(p)
    BY <2>1, <2>5 DEF Kill, Drops
  <2>6. CASE \E k \in DOMAIN jobs : Finish(k)
    BY <2>1, <2>6 DEF Finish
  <2>7. CASE Plan \/ ChangeScene
    BY <2>7, PlanKeeps, ChangeSceneKeeps
  <2>8. ASSUME NEW j \in DOMAIN row, Review(j) PROVE Retires(row[i], row'[i])
    <3>1. row[j].status = "completed" /\ \A l \in DOMAIN row : l # j => row'[l] = row[l]
      BY <2>8, ReviewKeeps
    <3> QED
      BY <3>1, GivenUpIs DEF Retires
  <2>9. ASSUME NEW j \in DOMAIN row, ApprovePlate(j) PROVE Retires(row[i], row'[i])
    BY <2>1, <2>9 DEF ApprovePlate
  <2>10. CASE UNCHANGED vars
    BY <2>1, <2>10 DEF vars
  <2> QED
    BY <2>3, <2>4, <2>5, <2>6, <2>7, <2>8, <2>9, <2>10 DEF Next
<1>2. IInv /\ [Next]_vars => [A]_vars
  BY <1>1
<1> QED
  BY <1>2, Always, PTL DEF Spec, CancelStands
=============================================================================
