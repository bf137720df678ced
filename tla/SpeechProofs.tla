---------------------------- MODULE SpeechProofs ----------------------------
(***************************************************************************)
(* ReviewDecides, for any number of turns, versions and requests and for   *)
(* both workers.  A pass works on its copy for as long as it likes and     *)
(* saves it over whatever came since, so the invariant is a property of an *)
(* episode by itself (Reviewed) that holds of the row and of every copy:   *)
(* each handler keeps versions and approvals together in one save.         *)
(*                                                                         *)
(* The types, and OneRecording, in the same way: every episode that can    *)
(* come to be stored records a turn twice only if its version was to be    *)
(* regenerated (RInv).                                                     *)
(***************************************************************************)
EXTENDS Speech, FiniteSetTheorems, WellFoundedInduction, TLAPS

Fields == {"versions", "approvals", "assets", "reviewing"}
PassFields == {"busy", "kind", "copy", "todo", "planned", "stale"}
Review == [decision : Decision, target : Nat]

Reviewed(e) ==
  /\ DOMAIN e = Fields
  /\ e.versions \in Seq(Decision)
  /\ e.versions # <<>>
  /\ e.approvals \in Seq(Review)
  /\ \E i \in DOMAIN e.approvals :
       e.approvals[i].decision = e.versions[Canonical(e)] /\ e.approvals[i].target = Canonical(e)

PassShape ==
  /\ DOMAIN pass = Process
  /\ \A p \in Process : DOMAIN pass[p] = PassFields

IInv ==
  /\ Reviewed(row)
  /\ PassShape
  /\ \A p \in Process : Reviewed(pass[p].copy)

\* Only the assets and the flag differ: what every handler of this module does
\* to an episode, apart from decisions and new versions.
AssetsOnly(e, f) ==
  DOMAIN f = DOMAIN e /\ f.versions = e.versions /\ f.approvals = e.approvals

(* Work on the assets keeps an episode reviewed. *)
LEMMA AssetsOnlyReviewed ==
  ASSUME NEW e, NEW f, Reviewed(e), AssetsOnly(e, f)
  PROVE  Reviewed(f)
  BY DEF Reviewed, AssetsOnly, Canonical

Less == OpToRel(<, Nat)

LEMMA LeastExists ==
  ASSUME NEW S \in SUBSET Nat, S # {}
  PROVE  \E m \in S : \A y \in S : m =< y
<1>1. \A y, m \in Nat : y < m => <<y, m>> \in Less
  BY DEF Less, OpToRel
<1>2. PICK m \in S : \A y \in S : <<y, m>> \notin Less
  <2>1. IsWellFoundedOn(Less, Nat)
    BY NatLessThanWellFounded DEF Less
  <2> QED
    BY <2>1, WFMin
<1>3. ASSUME NEW y \in S PROVE m =< y
  <2>1. y \in Nat /\ m \in Nat
    OBVIOUS
  <2>2. <<y, m>> \notin Less
    BY <1>2
  <2>3. ~(y < m)
    BY <2>1, <2>2, <1>1, Zenon
  <2> QED
    BY <2>1, <2>3
<1> QED
  BY <1>3

(* The first pending approval, which is bound to the next version, is one. *)
LEMMA MinIsMember ==
  ASSUME NEW S \in SUBSET Nat, S # {}
  PROVE  Min(S) \in S
  BY LeastExists DEF Min

(* An edit, a reopening or a bridge leaves the new version with a pending  *)
(* approval of its own (_append_broadcast_revision).                       *)
LEMMA RevisedReviewed ==
  ASSUME NEW e, Reviewed(e)
  PROVE  Reviewed(Revised(e))
<1> DEFINE v == Len(e.versions) + 1
           P == {i \in DOMAIN e.approvals : e.approvals[i].decision = "pending"}
           r == Revised(e)
           new == [decision |-> "pending", target |-> v]
<1>1. /\ DOMAIN r = Fields
      /\ r.versions = Append(e.versions, "pending")
      /\ r.approvals = Bound(e.approvals, v)
  BY DEF Revised, Reviewed, Fields
<1>2. /\ r.versions \in Seq(Decision)
      /\ Len(r.versions) = v /\ r.versions[v] = "pending" /\ r.versions # <<>>
      /\ v \in Nat
  BY <1>1 DEF Reviewed, Decision
<1>3. /\ Bound(e.approvals, v) \in Seq(Review)
      /\ \E i \in DOMAIN Bound(e.approvals, v) :
           /\ Bound(e.approvals, v)[i].decision = "pending"
           /\ Bound(e.approvals, v)[i].target = v
  <2>1. e.approvals \in Seq(Review) /\ v \in Nat
    BY <1>2 DEF Reviewed
  <2>2. CASE P # {}
    <3>1. P \in SUBSET Nat
      BY <2>1
    <3>2. PICK k \in P : Min(P) = k
      BY <3>1, <2>2, MinIsMember
    <3>3. Bound(e.approvals, v) = [e.approvals EXCEPT ![k].target = v]
      BY <2>2, <3>2 DEF Bound
    <3>4. k \in DOMAIN e.approvals /\ e.approvals[k] \in Review
          /\ e.approvals[k].decision = "pending"
      BY <2>1
    <3> HIDE DEF P, v
    <3>5. [e.approvals[k] EXCEPT !.target = v] = new
      BY <3>4 DEF Review
    <3>6. Bound(e.approvals, v) = [e.approvals EXCEPT ![k] = new]
      BY <3>3, <3>5
    <3>7. new \in Review
      BY <2>1 DEF Review, Decision
    <3> HIDE DEF new
    <3>8. Bound(e.approvals, v) \in Seq(Review)
      BY <2>1, <3>4, <3>6, <3>7
    <3>9. k \in DOMAIN Bound(e.approvals, v) /\ Bound(e.approvals, v)[k] = new
      BY <2>1, <3>4, <3>6
    <3> QED
      BY <3>8, <3>9 DEF new
  <2>3. CASE P = {}
    <3>1. Bound(e.approvals, v) = Append(e.approvals, new)
      BY <2>3 DEF Bound
    <3>2. new \in Review
      BY <2>1 DEF Review, Decision
    <3> HIDE DEF new, v
    <3>3. /\ Append(e.approvals, new) \in Seq(Review)
          /\ Len(e.approvals) + 1 \in DOMAIN Append(e.approvals, new)
          /\ Append(e.approvals, new)[Len(e.approvals) + 1] = new
      BY <2>1, <3>2
    <3> QED
      BY <3>1, <3>3 DEF new
  <2> QED
    BY <2>2, <2>3
<1> QED
  BY <1>1, <1>2, <1>3 DEF Reviewed, Canonical

(* A decision is written into the approval and the canonical version.      *)
LEMMA DecidedReviewed ==
  ASSUME NEW e, Reviewed(e), NEW i \in DOMAIN e.approvals, NEW d \in {"approved", "rejected"}
  PROVE  Reviewed(Decided(e, i, d))
<1> DEFINE r == Decided(e, i, d)
           c == Canonical(e)
           new == [decision |-> d, target |-> c]
<1>1. /\ DOMAIN r = Fields
      /\ r.versions = [e.versions EXCEPT ![c] = d]
      /\ r.approvals = [e.approvals EXCEPT ![i] = new]
  BY DEF Decided, Reviewed, Fields
<1>2. c \in Nat /\ c \in DOMAIN e.versions /\ d \in Decision
  BY DEF Reviewed, Canonical, Decision
<1>3. new \in Review
  BY <1>2 DEF Review
<1>4. /\ r.versions \in Seq(Decision) /\ r.versions # <<>>
      /\ Canonical(r) = c /\ r.versions[c] = d
  BY <1>1, <1>2 DEF Reviewed, Canonical
<1>5. /\ r.approvals \in Seq(Review)
      /\ i \in DOMAIN r.approvals /\ r.approvals[i] = new
  BY <1>1, <1>3 DEF Reviewed
<1> QED
  BY <1>1, <1>4, <1>5 DEF Reviewed

(* Planning appends assets and ends the review.                            *)
LEMMA PlannedReviewed ==
  ASSUME NEW e, Reviewed(e), NEW v, NEW regenerate
  PROVE  Reviewed(Planned(e, v, regenerate))
<1>1. AssetsOnly(e, Planned(e, v, regenerate))
  BY DEF Planned, AssetsOnly, Reviewed, Fields
<1> QED
  BY <1>1, AssetsOnlyReviewed

-----------------------------------------------------------------------------
(* A save leaves the others their copies, or gives them the row.           *)
LEMMA EndedKeeps ==
  ASSUME IInv, Reviewed(row'), NEW p, pass' = Ended(p)
  PROVE  IInv'
<1>1. /\ DOMAIN pass' = Process
      /\ \A q \in Process : \/ pass'[q] = NoPass(row')
                            \/ pass'[q] = [pass[q] EXCEPT !.stale = TRUE]
  BY DEF Ended
<1>2. DOMAIN NoPass(row') = PassFields /\ NoPass(row').copy = row'
  BY DEF NoPass, PassFields
<1>3. ASSUME NEW q \in Process
      PROVE  DOMAIN pass'[q] = PassFields /\ Reviewed(pass'[q].copy)
  <2>1. DOMAIN pass[q] = PassFields /\ Reviewed(pass[q].copy)
    BY DEF IInv, PassShape
  <2>2. CASE pass'[q] = NoPass(row')
    BY <1>2, <2>2
  <2>3. CASE pass'[q] = [pass[q] EXCEPT !.stale = TRUE]
    <3>1. DOMAIN pass'[q] = PassFields /\ pass'[q].copy = pass[q].copy
      BY <2>1, <2>3 DEF PassFields
    <3> QED
      BY <2>1, <3>1
  <2> QED
    BY <1>1, <2>2, <2>3
<1> QED
  BY <1>1, <1>3 DEF IInv, PassShape

(* A save of a reviewed episode keeps the invariant, and so does none.     *)
LEMMA SavesKeeps ==
  ASSUME IInv, NEW p, NEW e, Reviewed(e), Saves(p, e)
  PROVE  IInv'
<1>1. row' = e /\ pass' = Ended(p)
  BY DEF Saves
<1> QED
  BY <1>1, EndedKeeps

LEMMA DropsKeeps ==
  ASSUME IInv, NEW p \in Process, Drops(p)
  PROVE  IInv'
<1>1. DOMAIN NoPass(row) = PassFields /\ NoPass(row).copy = row
  BY DEF NoPass, PassFields
<1>2. row' = row /\ pass' = [pass EXCEPT ![p] = NoPass(row)]
  BY DEF Drops
<1> QED
  BY <1>1, <1>2 DEF IInv, PassShape

LEMMA PassSavesKeeps ==
  ASSUME IInv, NEW p \in Process, NEW e, Reviewed(e), SavesUnlessNewer(p, e)
  PROVE  IInv'
<1>1. Saves(p, e) \/ Drops(p)
  BY DEF SavesUnlessNewer
<1> QED
  BY <1>1, SavesKeeps, DropsKeeps

(* A pass begins with a reviewed copy.                                     *)
LEMMA StartKeeps ==
  ASSUME IInv, NEW p \in Process, NEW kind, NEW e, Reviewed(e), NEW T, NEW n,
         Start(p, kind, e, T, n), row' = row
  PROVE  IInv'
  BY DEF IInv, PassShape, Start, PassFields

(* The request and the adapter may take up the row itself, or with the     *)
(* review ended.                                                           *)
LEMMA ReadyReviewed ==
  ASSUME NEW e, Reviewed(e)
  PROVE  Reviewed(Ready(e))
<1>1. AssetsOnly(e, Ready(e))
  BY DEF Ready, AssetsOnly, Reviewed, Fields
<1> QED
  BY <1>1, AssetsOnlyReviewed

(* One asset of a pass is worked on.                                       *)
LEMMA WorkedKeeps ==
  ASSUME IInv, NEW p \in Process, NEW i, NEW a, Worked(p, i, a), row' = row
  PROVE  IInv'
<1>1. /\ DOMAIN pass' = Process
      /\ \A q \in Process : DOMAIN pass'[q] = PassFields
      /\ \A q \in Process \ {p} : pass'[q] = pass[q]
      /\ pass'[p].copy = [pass[p].copy EXCEPT !.assets[i] = a]
  BY DEF IInv, PassShape, PassFields, Worked
<1>2. AssetsOnly(pass[p].copy, pass'[p].copy)
  BY <1>1 DEF AssetsOnly, IInv, Reviewed, Fields
<1>3. Reviewed(pass'[p].copy)
  BY <1>2, AssetsOnlyReviewed DEF IInv
<1> QED
  BY <1>1, <1>3 DEF IInv, PassShape

-----------------------------------------------------------------------------
(* The invariant holds at first.                                           *)
LEMMA InitIInv == Init => IInv
<1> SUFFICES ASSUME Init PROVE IInv
  OBVIOUS
<1> DEFINE first == [decision |-> "pending", target |-> 1]
<1>1. /\ DOMAIN row = Fields /\ row.versions = <<"pending">> /\ row.approvals = <<first>>
  BY DEF Init, Fields
<1>2. first \in Review /\ "pending" \in Decision
  BY DEF Review, Decision
<1>3. Reviewed(row)
  <2>1. row.versions \in Seq(Decision) /\ row.versions # <<>> /\ Len(row.versions) = 1
    BY <1>1, <1>2
  <2>2. row.approvals \in Seq(Review) /\ 1 \in DOMAIN row.approvals
        /\ row.approvals[1] = first
    BY <1>1, <1>2
  <2> QED
    BY <1>1, <2>1, <2>2 DEF Reviewed, Canonical
<1>4. DOMAIN NoPass(row) = PassFields /\ NoPass(row).copy = row
  BY DEF NoPass, PassFields
<1> QED
  BY <1>3, <1>4 DEF Init, IInv, PassShape

(* Every step keeps it, one case for each action.                          *)
LEMMA NextIInv == IInv /\ [Next]_vars => IInv'
<1> SUFFICES ASSUME IInv, [Next]_vars PROVE IInv'
  OBVIOUS
<1>1. Reviewed(row) /\ Reviewed(Ready(row)) /\ "request" \in Process
  BY ReadyReviewed DEF IInv, Process
<1>2. ASSUME NEW i \in DOMAIN row.approvals, NEW d \in {"approved", "rejected"}, Decide(i, d)
      PROVE  IInv'
  <2>1. Saves("none", Decided(row, i, d))
    BY <1>2 DEF Decide, Edits
  <2> QED
    BY <1>1, <2>1, DecidedReviewed, SavesKeeps
<1>3. CASE Revise
  <2>1. Saves("none", Revised(row))
    BY <1>3 DEF Revise, Edits
  <2> QED
    BY <1>1, <2>1, RevisedReviewed, SavesKeeps
<1>4. CASE WorkerStart
  <2>1. PICK v : /\ Start("worker", "generate", Ready(Prepared(v)), WorkerTargets(Prepared(v), v),
                          Prepared(v) # row)
                 /\ row' = row
    BY <1>4 DEF WorkerStart
  <2>2. Reviewed(Ready(Prepared(v)))
    BY <1>1, PlannedReviewed, ReadyReviewed DEF Prepared
  <2> QED
    BY <2>1, <2>2, StartKeeps DEF Process
<1>5. CASE PlanRequest
  <2>1. PICK v, g : Saves("none", Planned(row, v, g))
    BY <1>5 DEF PlanRequest, Edits
  <2> QED
    BY <1>1, <2>1, PlannedReviewed, SavesKeeps
<1>6. CASE GenerateRequest
  <2>1. PICK g, T : Start("request", Generation(g), Ready(row), T, FALSE) /\ row' = row
    BY <1>6 DEF GenerateRequest
  <2> QED
    BY <1>1, <2>1, StartKeeps
<1>7. CASE ProduceRequest
  <2>1. PICK v, g : /\ Start("request", Generation(g), Ready(Planned(row, v, g)),
                             Of(Planned(row, v, g), v), FALSE)
                    /\ row' = row
    BY <1>7 DEF ProduceRequest
  <2>2. Reviewed(Ready(Planned(row, v, g)))
    BY <1>1, PlannedReviewed, ReadyReviewed
  <2> QED
    BY <1>1, <2>1, <2>2, StartKeeps
<1>8. CASE CancelRequest
  <2>1. PICK kind, T : Start("request", kind, Ready(row), T, FALSE) /\ row' = row
    BY <1>8 DEF CancelRequest
  <2> QED
    BY <1>1, <2>1, StartKeeps
<1>9. CASE SyncRequest
  <2>1. PICK T : Start("request", "sync", row, T, FALSE) /\ row' = row
    BY <1>9 DEF SyncRequest
  <2> QED
    BY <1>1, <2>1, StartKeeps
<1>10. CASE Poll
  <2>1. PICK T : Start("adapter", "sync", row, T, FALSE) /\ row' = row
    BY <1>10 DEF Poll
  <2> QED
    BY <1>1, <2>1, StartKeeps DEF Process
<1>11. ASSUME NEW p \in Process, PassEnd(p) PROVE IInv'
  <2>1. SavesUnlessNewer(p, pass[p].copy) /\ Reviewed(pass[p].copy)
    BY <1>11 DEF PassEnd, IInv
  <2> QED
    BY <2>1, PassSavesKeeps
<1>12. ASSUME NEW p \in Process, NEW i, CancelFirst(p, i) PROVE IInv'
  <2> DEFINE a == pass[p].copy.assets[i]
             b == [Freed(a) EXCEPT !.status = "planned"]
  <2>1. row' = row
    BY <1>12 DEF CancelFirst
  <2>2. CASE pass' = [pass EXCEPT ![p].copy.assets[i] = b]
    <3> HIDE DEF b
    <3>1. /\ DOMAIN pass' = Process
          /\ \A q \in Process : DOMAIN pass'[q] = PassFields
          /\ \A q \in Process \ {p} : pass'[q] = pass[q]
          /\ pass'[p].copy = [pass[p].copy EXCEPT !.assets[i] = b]
      BY <2>2 DEF IInv, PassShape, PassFields
    <3>2. AssetsOnly(pass[p].copy, pass'[p].copy)
      BY <3>1 DEF AssetsOnly, IInv, Reviewed, Fields
    <3>3. Reviewed(pass'[p].copy)
      BY <3>2, AssetsOnlyReviewed DEF IInv
    <3> QED
      BY <2>1, <3>1, <3>3 DEF IInv, PassShape
  <2>3. CASE Worked(p, i, [a EXCEPT !.status = "failed"])
    BY <2>1, <2>3, WorkedKeeps
  <2> QED
    BY <1>12, <2>2, <2>3 DEF CancelFirst
<1>13. ASSUME NEW p \in Process, NEW i,
              Submit(p, i) \/ Refuse(p, i) \/ CancelJob(p, i) \/ SyncJob(p, i)
       PROVE  IInv'
  <2>1. row' = row /\ \E a : Worked(p, i, a)
    BY <1>13 DEF Submit, Refuse, CancelJob, SyncJob
  <2> QED
    BY <2>1, WorkedKeeps
<1>14. ASSUME NEW p \in Process, NEW i, Raise(p, i) PROVE IInv'
  <2> DEFINE e == [pass[p].copy EXCEPT !.assets[i].status = "submitted"]
  <2>1. AssetsOnly(pass[p].copy, e)
    BY DEF AssetsOnly, IInv, Reviewed, Fields
  <2>2. Reviewed(e)
    BY <2>1, AssetsOnlyReviewed DEF IInv
  <2>3. SavesUnlessNewer(p, e) \/ Drops(p)
    BY <1>14 DEF Raise
  <2> HIDE DEF e
  <2> QED
    BY <2>2, <2>3, PassSavesKeeps, DropsKeeps
<1>15. ASSUME NEW p \in Process, Kill(p) PROVE IInv'
  BY <1>15, DropsKeeps DEF Kill
<1>16. ASSUME UNCHANGED <<row, pass>> PROVE IInv'
  BY <1>16 DEF IInv, PassShape, Reviewed, Canonical
<1> QED
  BY <1>2, <1>3, <1>4, <1>5, <1>6, <1>7, <1>8, <1>9, <1>10, <1>11, <1>12, <1>13, <1>14, <1>15, <1>16
  DEF Next, Step, Finish, vars

(* The canonical transcript has the status of a decision recorded about    *)
(* this very version, or a review of it is open.                           *)
THEOREM ReviewAlwaysDecides == Spec => []ReviewDecides
<1>1. IInv => ReviewDecides
  BY DEF IInv, Reviewed, ReviewDecides
<1> QED
  BY <1>1, InitIInv, NextIInv, PTL DEF Spec

-----------------------------------------------------------------------------
(* Types, and which turns have more than one recording.  What the provider *)
(* has taken and what was to be regenerated only grow, so a copy stays as  *)
(* sound as it was however old it is.                                      *)

JobState == {"working", "done", "failed", "cancelled"}

Pass == [busy : BOOLEAN, kind : Kind, copy : Episode, todo : SUBSET Nat,
         planned : BOOLEAN, stale : BOOLEAN]

\* An episode whose jobs are among the first n.
Typed(e, n) ==
  /\ e \in Episode
  /\ Len(e.versions) \in Version
  /\ \A i \in DOMAIN e.assets : e.assets[i].version \in DOMAIN e.versions /\ e.assets[i].job <= n

PassTyped(q, n) == q \in Pass /\ Typed(q.copy, n) /\ q.todo \subseteq DOMAIN q.copy.assets

TInv ==
  /\ Typed(row, Len(jobs))
  /\ DOMAIN pass = Process
  /\ \A p \in Process : PassTyped(pass[p], Len(jobs))
  /\ regenerated \in SUBSET Version
  /\ jobs \in Seq(JobState) /\ Len(jobs) <= MaxJobs
  /\ requests \in 0..MaxRequests /\ faults \in 0..MaxFaults

\* Only turns of the versions R are recorded twice.
Within(e, R) == Doubled(e) \subseteq R \X Turn

RInv ==
  /\ TInv
  /\ Within(row, regenerated)
  /\ \A p \in Process : Within(pass[p].copy, regenerated)

\* Two recordings of turn t of version v.
Twice(e, v, t) ==
  \E i, j \in DOMAIN e.assets :
    /\ i # j
    /\ e.assets[i].version = v /\ e.assets[j].version = v
    /\ e.assets[i].turn = t /\ e.assets[j].turn = t

SameRecordings(e, f) ==
  /\ DOMAIN f.versions = DOMAIN e.versions /\ DOMAIN f.assets = DOMAIN e.assets
  /\ \A i \in DOMAIN e.assets :
       f.assets[i].version = e.assets[i].version /\ f.assets[i].turn = e.assets[i].turn

\* An asset that was worked on.
Reworked(a, b, n) == b \in Asset /\ b.version = a.version /\ b.turn = a.turn /\ b.job <= n

LEMMA Bounds ==
  /\ MaxVersions \in Nat \ {0} /\ MaxJobs \in Nat /\ MaxRequests \in Nat /\ MaxFaults \in Nat
  /\ 1 \in Version /\ Version \subseteq Nat \ {0}
  BY BoundAssumption DEF BoundAssumption, Version

LEMMA MoreThanOne ==
  ASSUME NEW S, IsFiniteSet(S)
  PROVE  Cardinality(S) > 1 <=> \E x, y \in S : x # y
<1>1. Cardinality(S) \in Nat
  BY FS_CardinalityType
<1>2. Cardinality(S) = 0 <=> S = {}
  BY FS_EmptySet
<1>3. Cardinality(S) = 1 <=> \E x : S = {x}
  BY FS_Singleton
<1>4. (\E x, y \in S : x # y) <=> S # {} /\ ~\E x : S = {x}
  <2>1. ASSUME S # {}, \A x, y \in S : x = y PROVE \E x : S = {x}
    <3>1. PICK x \in S : TRUE
      BY <2>1
    <3>2. S = {x}
      BY <2>1, <3>1
    <3> QED
      BY <3>2
  <2> QED
    BY <2>1
<1> QED
  BY <1>1, <1>2, <1>3, <1>4

LEMMA EpisodeIs ==
  ASSUME NEW e \in Episode
  PROVE  /\ e.versions \in Seq(Decision) /\ e.approvals \in Seq(Approval)
         /\ e.assets \in Seq(Asset) /\ e.reviewing \in BOOLEAN
         /\ DOMAIN e.assets = 1..Len(e.assets) /\ Len(e.assets) \in Nat
         /\ DOMAIN e.versions = 1..Len(e.versions) /\ Len(e.versions) \in Nat
         /\ DOMAIN e.approvals = 1..Len(e.approvals) /\ Len(e.approvals) \in Nat
         /\ \A i \in DOMAIN e.assets : e.assets[i] \in Asset
<1>1. /\ e.versions \in Seq(Decision) /\ e.approvals \in Seq(Approval)
      /\ e.assets \in Seq(Asset) /\ e.reviewing \in BOOLEAN
  BY DEF Episode
<1> QED
  BY <1>1

LEMMA DoubledIs ==
  ASSUME NEW e \in Episode, NEW v, NEW t
  PROVE  <<v, t>> \in Doubled(e) <=> v \in DOMAIN e.versions /\ t \in Turn /\ Twice(e, v, t)
<1> DEFINE S == {i \in Of(e, v) : e.assets[i].turn = t}
<1>1. IsFiniteSet(S)
  <2>1. IsFiniteSet(1..Len(e.assets))
    BY EpisodeIs, FS_Interval
  <2>2. S \in SUBSET (1..Len(e.assets))
    BY EpisodeIs DEF Of
  <2> QED
    BY <2>1, <2>2, FS_Subset
<1>2. (\E x, y \in S : x # y) <=> Twice(e, v, t)
  BY DEF Of, Twice
<1>3. Cardinality(S) > 1 <=> Twice(e, v, t)
  BY <1>1, <1>2, MoreThanOne
<1>4. <<v, t>>[1] = v /\ <<v, t>>[2] = t
  OBVIOUS
<1> QED
  BY <1>3, <1>4 DEF Doubled

\* What is doubled is a pair.
LEMMA DoubledPairs ==
  ASSUME NEW e, NEW r \in Doubled(e)
  PROVE  r = <<r[1], r[2]>>
  BY DEF Doubled

LEMMA MoreDoubled ==
  ASSUME NEW e \in Episode, NEW f \in Episode,
         \A v, t : /\ v \in DOMAIN e.versions /\ t \in Turn /\ Twice(e, v, t)
                   => v \in DOMAIN f.versions /\ Twice(f, v, t)
  PROVE  Doubled(e) \subseteq Doubled(f)
<1> SUFFICES ASSUME NEW r \in Doubled(e) PROVE r \in Doubled(f)
  OBVIOUS
<1>1. PICK v, t : r = <<v, t>>
  BY DoubledPairs
<1>2. v \in DOMAIN e.versions /\ t \in Turn /\ Twice(e, v, t)
  BY <1>1, DoubledIs
<1>3. v \in DOMAIN f.versions /\ Twice(f, v, t)
  BY <1>2
<1> QED
  BY <1>1, <1>2, <1>3, DoubledIs

LEMMA SameDoubled ==
  ASSUME NEW e \in Episode, NEW f \in Episode, SameRecordings(e, f)
  PROVE  Doubled(f) = Doubled(e)
<1>1. \A v, t : Twice(e, v, t) <=> Twice(f, v, t)
  BY DEF Twice, SameRecordings
<1>2. DOMAIN f.versions = DOMAIN e.versions
  BY DEF SameRecordings
<1>3. Doubled(e) \subseteq Doubled(f)
  BY <1>1, <1>2, MoreDoubled
<1>4. Doubled(f) \subseteq Doubled(e)
  BY <1>1, <1>2, MoreDoubled
<1> QED
  BY <1>3, <1>4

-----------------------------------------------------------------------------
(* What becomes of an asset.                                               *)

LEMMA AnsweredIs ==
  ASSUME NEW a \in Asset, NEW n \in Nat, NEW k \in 0..MaxJobs, k <= n, NEW s \in JobState
  PROVE  Reworked(a, Answered(a, k, s), n)
<1>1. StatusOf(s) \in AssetStatus
  BY DEF StatusOf, JobState, AssetStatus
<1> QED
  BY <1>1 DEF Answered, Asset, Reworked

LEMMA ReworkedIs ==
  ASSUME NEW a \in Asset, NEW n \in Nat, a.job <= n
  PROVE  /\ Reworked(a, a, n)
         /\ Reworked(a, SubmitFailed(a), n)
         /\ Reworked(a, [a EXCEPT !.status = "failed"], n)
         /\ Reworked(a, [a EXCEPT !.status = "submitted"], n)
         /\ Reworked(a, [a EXCEPT !.mustCancel = TRUE], n)
         /\ Reworked(a, [Freed(a) EXCEPT !.status = "planned"], n)
         /\ \A reset \in BOOLEAN : Reworked(a, Cancelled(a, reset), n)
<1>1. {"failed", "submitted", "planned", "cancelled"} \subseteq AssetStatus
  BY DEF AssetStatus
<1>2. 0 \in 0..MaxJobs /\ 0 <= n
  BY Bounds
<1>3. Reworked(a, a, n) /\ Reworked(a, SubmitFailed(a), n)
  BY <1>1 DEF Asset, Reworked, SubmitFailed
<1>4. /\ Reworked(a, [a EXCEPT !.status = "failed"], n)
      /\ Reworked(a, [a EXCEPT !.status = "submitted"], n)
      /\ Reworked(a, [a EXCEPT !.mustCancel = TRUE], n)
  BY <1>1 DEF Asset, Reworked
<1>5. Reworked(a, [Freed(a) EXCEPT !.status = "planned"], n)
  BY <1>1, <1>2 DEF Asset, Reworked, Freed
<1>6. ASSUME NEW reset \in BOOLEAN PROVE Reworked(a, Cancelled(a, reset), n)
  BY <1>1, <1>2 DEF Asset, Reworked, Cancelled
<1> QED
  BY <1>3, <1>4, <1>5, <1>6

LEMMA AssetsWorked ==
  ASSUME NEW n, NEW e, Typed(e, n), NEW f \in Episode, DOMAIN f.versions = DOMAIN e.versions,
         Len(f.versions) = Len(e.versions), DOMAIN f.assets = DOMAIN e.assets,
         \A i \in DOMAIN e.assets : Reworked(e.assets[i], f.assets[i], n)
  PROVE  Typed(f, n) /\ SameRecordings(e, f)
  BY DEF Typed, SameRecordings, Reworked

\* One asset is worked on.
LEMMA AssetWorked ==
  ASSUME NEW n \in Nat, NEW e, Typed(e, n), NEW i \in DOMAIN e.assets, NEW a,
         Reworked(e.assets[i], a, n)
  PROVE  LET f == [e EXCEPT !.assets[i] = a] IN Typed(f, n) /\ SameRecordings(e, f)
<1> DEFINE s == [e.assets EXCEPT ![i] = a]
           f == [e EXCEPT !.assets[i] = a]
<1>1. e \in Episode /\ e.assets \in Seq(Asset) /\ a \in Asset
  BY EpisodeIs DEF Typed, Reworked
<1>2. s \in Seq(Asset) /\ DOMAIN s = DOMAIN e.assets
  BY <1>1
<1>3. f \in Episode /\ f.assets = s /\ f.versions = e.versions
  BY <1>1, <1>2 DEF Episode
<1>4. \A j \in DOMAIN e.assets : e.assets[j] \in Asset /\ e.assets[j].job <= n
  BY <1>1, EpisodeIs DEF Typed
<1>5. \A j \in DOMAIN e.assets : Reworked(e.assets[j], s[j], n)
  BY <1>4, ReworkedIs
<1> HIDE DEF s, f
<1>6. Typed(f, n) /\ SameRecordings(e, f)
  BY <1>2, <1>3, <1>5, AssetsWorked
<1> QED
  BY <1>6 DEF f

\* An episode that differs in nothing that counts here.
LEMMA FlagSet ==
  ASSUME NEW n \in Nat, NEW e, Typed(e, n), NEW b \in BOOLEAN
  PROVE  LET f == [e EXCEPT !.reviewing = b] IN Typed(f, n) /\ SameRecordings(e, f)
<1> DEFINE f == [e EXCEPT !.reviewing = b]
<1>1. f \in Episode /\ f.assets = e.assets /\ f.versions = e.versions
  BY DEF Typed, Episode
<1> HIDE DEF f
<1>2. Typed(f, n) /\ SameRecordings(e, f)
  BY <1>1 DEF Typed, SameRecordings
<1> QED
  BY <1>2 DEF f

\* Work on the assets and on the review leaves the recordings.
LEMMA SameWithin ==
  ASSUME NEW n, NEW e, Typed(e, n), NEW f, Typed(f, n), SameRecordings(e, f), NEW R, Within(e, R)
  PROVE  Within(f, R)
<1>1. Doubled(f) = Doubled(e)
  BY SameDoubled DEF Typed
<1> QED
  BY <1>1 DEF Within

LEMMA LaterTyped ==
  ASSUME NEW n \in Nat, NEW m \in Nat, n <= m
  PROVE  /\ \A e : Typed(e, n) => Typed(e, m)
         /\ \A q : PassTyped(q, n) => PassTyped(q, m)
<1>1. ASSUME NEW e, Typed(e, n) PROVE Typed(e, m)
  <2>1. \A i \in DOMAIN e.assets : e.assets[i].job \in Nat /\ e.assets[i].job <= n
    BY <1>1, EpisodeIs, Bounds DEF Typed, Asset
  <2>2. \A i \in DOMAIN e.assets : e.assets[i].job <= m
    BY <2>1
  <2> QED
    BY <1>1, <2>2 DEF Typed
<1> QED
  BY <1>1 DEF PassTyped

-----------------------------------------------------------------------------
(* The handlers.                                                           *)

\* Some order of the turns exists, and has each of them once.
LEMMA OrderIs ==
  ASSUME NEW T, IsFiniteSet(T)
  PROVE  LET order == CHOOSE s \in [1..Cardinality(T) -> T] : {s[n] : n \in DOMAIN s} = T
         IN /\ order \in [1..Cardinality(T) -> T]
            /\ \A t \in T : \E n \in 1..Cardinality(T) : order[n] = t
            /\ \A i, j \in 1..Cardinality(T) : order[i] = order[j] => i = j
<1> DEFINE n == Cardinality(T)
           order == CHOOSE s \in [1..n -> T] : {s[k] : k \in DOMAIN s} = T
<1>1. n \in Nat /\ ExistsBijection(1..n, T)
  BY FS_CardinalityType
<1>2. PICK f \in Bijection(1..n, T) : TRUE
  BY <1>1 DEF ExistsBijection
<1>3. f \in [1..n -> T] /\ \A t \in T : \E k \in 1..n : f[k] = t
  BY <1>2 DEF Bijection, Surjection
<1>4. {f[k] : k \in DOMAIN f} = T
  BY <1>3
<1>5. order \in [1..n -> T] /\ {order[k] : k \in DOMAIN order} = T
  BY <1>3, <1>4
<1> HIDE DEF order
<1>6. \A t \in T : \E k \in 1..n : order[k] = t
  BY <1>5
<1>7. IsFiniteSet(1..n) /\ Cardinality(1..n) = n
  BY <1>1, FS_Interval
<1>8. order \in Surjection(1..n, T)
  BY <1>5, <1>6 DEF Surjection
<1>9. order \in Injection(1..n, T)
  BY <1>7, <1>8, FS_SurjSameCardinalityImpliesInj
<1>10. \A i, j \in 1..n : order[i] = order[j] => i = j
  BY <1>5, <1>9 DEF Injection, IsInjective
<1> QED
  BY <1>5, <1>6, <1>10 DEF order

LEMMA SeqUpdated ==
  ASSUME NEW S, NEW s \in Seq(S), NEW k, NEW x, NEW r, r = [s EXCEPT ![k] = x],
         k \in DOMAIN s => x \in S
  PROVE  r \in Seq(S) /\ Len(r) = Len(s) /\ DOMAIN r = DOMAIN s
<1>1. Len(s) \in Nat /\ DOMAIN s = 1..Len(s) /\ \A i \in DOMAIN s : s[i] \in S
  OBVIOUS
<1>2. DOMAIN r = 1..Len(s) /\ \A i \in 1..Len(s) : r[i] \in S
  BY <1>1
<1>3. r \in [1..Len(s) -> S]
  <2>1. r = [i \in 1..Len(s) |-> r[i]]
    BY <1>1
  <2> QED
    BY <1>2, <2>1
<1> QED
  BY <1>1, <1>3

LEMMA NewAssetIs ==
  ASSUME NEW v \in Version, NEW t \in Turn
  PROVE  /\ NewAsset(v, t) \in Asset /\ NewAsset(v, t).version = v /\ NewAsset(v, t).turn = t
         /\ NewAsset(v, t).job = 0
<1>1. 0 \in 0..MaxJobs /\ "planned" \in AssetStatus
  BY Bounds DEF AssetStatus
<1> QED
  BY <1>1 DEF NewAsset, Asset

\* Planning appends assets, without regenerate only for turns that have none.
LEMMA PlannedIs ==
  ASSUME NEW n \in Nat, NEW e, Typed(e, n), NEW v \in DOMAIN e.versions,
         NEW regenerate \in BOOLEAN
  PROVE  LET f == Planned(e, v, regenerate)
         IN /\ Typed(f, n)
            /\ \A R : Within(e, R) /\ (regenerate => v \in R) => Within(f, R)
<1> DEFINE T == IF regenerate THEN Turn ELSE Missing(e, v)
           order == CHOOSE s \in [1..Cardinality(T) -> T] : {s[k] : k \in DOMAIN s} = T
           new == [k \in DOMAIN order |-> NewAsset(v, order[k])]
           m == Cardinality(T)
           l == Len(e.assets)
           f == Planned(e, v, regenerate)
<1>1. /\ e \in Episode /\ e.assets \in Seq(Asset) /\ l \in Nat /\ DOMAIN e.assets = 1..l
      /\ v \in Version
  BY EpisodeIs, Bounds DEF Typed, Version
<1>2. f = [e EXCEPT !.assets = e.assets \o new, !.reviewing = FALSE]
  BY <1>1 DEF Planned, Episode
<1>3. T \subseteq Turn /\ IsFiniteSet(T) /\ (~regenerate => T = Missing(e, v))
  <2>1. T \subseteq Turn /\ (~regenerate => T = Missing(e, v))
    BY DEF Missing
  <2> QED
    BY <2>1, TurnAssumption, FS_Subset DEF TurnAssumption
<1> HIDE DEF T
<1>4. m \in Nat /\ order \in [1..m -> T] /\ \A i, j \in 1..m : order[i] = order[j] => i = j
  BY <1>3, OrderIs, FS_CardinalityType
<1> HIDE DEF order, m
<1>5. ASSUME NEW k \in 1..m
      PROVE  /\ new[k] \in Asset /\ new[k].version = v /\ new[k].turn = order[k]
             /\ new[k].job = 0
  <2>1. new[k] = NewAsset(v, order[k]) /\ order[k] \in Turn
    BY <1>3, <1>4
  <2> HIDE DEF new
  <2> QED
    BY <1>1, <2>1, NewAssetIs
<1>6. new \in Seq(Asset) /\ Len(new) = m
  <2>1. new \in [1..m -> Asset]
    BY <1>4, <1>5
  <2> QED
    BY <1>4, <2>1
<1> HIDE DEF new, l
<1>7. /\ e.assets \o new \in Seq(Asset) /\ DOMAIN (e.assets \o new) = 1..(l + m)
      /\ \A i \in 1..l : (e.assets \o new)[i] = e.assets[i]
      /\ \A i \in 1..(l + m) : i \notin 1..l => i - l \in 1..m /\ (e.assets \o new)[i] = new[i - l]
  BY <1>1, <1>4, <1>6 DEF l
<1>8. f \in Episode /\ f.assets = e.assets \o new /\ f.versions = e.versions
  BY <1>1, <1>2, <1>7 DEF Episode
<1> HIDE DEF f
<1>9. DOMAIN e.assets \subseteq DOMAIN f.assets /\ DOMAIN f.assets = 1..(l + m)
  BY <1>1, <1>4, <1>7, <1>8
<1>10. Typed(f, n)
  <2>1. ASSUME NEW i \in DOMAIN f.assets
        PROVE  f.assets[i].version \in DOMAIN f.versions /\ f.assets[i].job <= n
    <3>1. CASE i \in 1..l
      BY <1>1, <1>7, <1>8, <3>1 DEF Typed
    <3>2. CASE i \notin 1..l
      <4>1. i - l \in 1..m /\ f.assets[i] = new[i - l]
        BY <1>7, <1>8, <1>9, <3>2
      <4>2. f.assets[i].version = v /\ f.assets[i].job = 0
        BY <1>5, <4>1
      <4> QED
        BY <1>8, <4>2
    <3> QED
      BY <3>1, <3>2
  <2>2. Len(f.versions) \in Version
    BY <1>8 DEF Typed
  <2> QED
    BY <1>8, <2>1, <2>2 DEF Typed
<1>11. ASSUME NEW w, NEW t, ~regenerate \/ w # v, Twice(f, w, t) PROVE Twice(e, w, t)
  <2>1. PICK i \in DOMAIN f.assets, j \in DOMAIN f.assets :
          /\ i # j
          /\ f.assets[i].version = w /\ f.assets[j].version = w
          /\ f.assets[i].turn = t /\ f.assets[j].turn = t
    BY <1>11 DEF Twice
  \* The new asset of a turn has no other of its turn and version.
  <2>2. ASSUME NEW a \in DOMAIN f.assets, NEW b \in DOMAIN f.assets, a # b, a \notin 1..l,
               f.assets[a].version = w, f.assets[b].version = w,
               f.assets[a].turn = f.assets[b].turn
        PROVE  FALSE
    <3>1. a - l \in 1..m /\ f.assets[a] = new[a - l]
      BY <1>7, <1>8, <1>9, <2>2
    <3>2. w = v /\ f.assets[a].turn = order[a - l]
      BY <1>5, <2>2, <3>1
    <3>3. CASE b \in 1..l
      <4>1. e.assets[b].version = v /\ e.assets[b].turn = order[a - l] /\ b \in DOMAIN e.assets
        BY <1>1, <1>7, <1>8, <2>2, <3>2, <3>3
      <4>2. order[a - l] \in Recorded(e, v)
        BY <4>1 DEF Recorded, Of
      <4>3. order[a - l] \in Missing(e, v)
        BY <1>3, <1>4, <1>11, <3>1, <3>2
      <4> QED
        BY <4>2, <4>3 DEF Missing
    <3>4. CASE b \notin 1..l
      <4>1. b - l \in 1..m /\ f.assets[b] = new[b - l]
        BY <1>7, <1>8, <1>9, <3>4
      <4>2. order[b - l] = order[a - l]
        BY <1>5, <2>2, <3>2, <4>1
      <4>3. b - l = a - l
        BY <1>4, <3>1, <4>1, <4>2
      <4>4. a \in Nat /\ b \in Nat
        BY <1>1, <1>4, <1>9
      <4> QED
        BY <1>1, <2>2, <4>3, <4>4
    <3> QED
      BY <3>3, <3>4
  <2>3. i \in 1..l /\ j \in 1..l
    BY <2>1, <2>2
  <2> QED
    BY <1>1, <1>7, <1>8, <2>1, <2>3 DEF Twice
<1>12. ASSUME NEW R, Within(e, R), regenerate => v \in R PROVE Within(f, R)
  <2> SUFFICES ASSUME NEW r \in Doubled(f) PROVE r \in R \X Turn
    BY DEF Within
  <2>1. PICK w, t : r = <<w, t>>
    BY DoubledPairs
  <2>2. w \in DOMAIN e.versions /\ t \in Turn /\ Twice(f, w, t)
    BY <1>8, <2>1, DoubledIs
  <2>3. CASE regenerate /\ w = v
    BY <1>12, <2>1, <2>2, <2>3
  <2>4. CASE ~regenerate \/ w # v
    <3>1. Twice(e, w, t)
      BY <1>11, <2>2, <2>4
    <3>2. <<w, t>> \in Doubled(e)
      BY <1>1, <2>2, <3>1, DoubledIs
    <3> QED
      BY <1>12, <2>1, <3>2 DEF Within
  <2> QED
    BY <2>3, <2>4
<1> QED
  BY <1>10, <1>12 DEF f

\* A decision about the canonical version.
LEMMA DecidedTyped ==
  ASSUME NEW n \in Nat, NEW e, Typed(e, n), NEW i \in DOMAIN e.approvals,
         NEW d \in {"approved", "rejected"}
  PROVE  Typed(Decided(e, i, d), n) /\ SameRecordings(e, Decided(e, i, d))
<1> DEFINE f == Decided(e, i, d)
           c == Canonical(e)
           new == [decision |-> d, target |-> c]
           versions == [e.versions EXCEPT ![c] = d]
           approvals == [e.approvals EXCEPT ![i] = new]
           reviewing == d = "rejected"
<1>1. /\ e \in Episode /\ e.versions \in Seq(Decision) /\ e.approvals \in Seq(Approval)
      /\ c \in Version
  BY EpisodeIs DEF Typed, Canonical
<1>2. d \in Decision /\ new \in Approval
  BY <1>1 DEF Decision, Approval
<1>3. /\ versions \in Seq(Decision) /\ DOMAIN versions = DOMAIN e.versions
      /\ Len(versions) = Len(e.versions)
  <2>1. \E x \in Decision : versions = [e.versions EXCEPT ![c] = x]
    BY <1>2
  <2> HIDE DEF c, versions
  <2>2. \A s \in Seq(Decision) : \A k, r : \A x \in Decision :
          r = [s EXCEPT ![k] = x] => r \in Seq(Decision) /\ Len(r) = Len(s) /\ DOMAIN r = DOMAIN s
    BY SeqUpdated
  <2> QED
    BY <1>1, <2>1, <2>2
<1>4. approvals \in Seq(Approval)
  <2>1. approvals = [e.approvals EXCEPT ![i] = new]
    OBVIOUS
  <2> HIDE DEF new, approvals
  <2> QED
    BY <1>1, <1>2, <2>1, SeqUpdated
<1>5. f = [e EXCEPT !.versions = versions, !.approvals = approvals, !.reviewing = reviewing]
  BY <1>1 DEF Decided, Episode
<1>6. reviewing \in BOOLEAN
  OBVIOUS
<1> HIDE DEF versions, approvals, reviewing, f
<1>7. f \in Episode /\ f.versions = versions /\ f.assets = e.assets
  BY <1>1, <1>3, <1>4, <1>5, <1>6 DEF Episode
<1>8. Typed(f, n) /\ SameRecordings(e, f)
  BY <1>3, <1>7 DEF Typed, SameRecordings
<1> QED
  BY <1>8 DEF f

\* A new version has no recordings.
LEMMA RevisedTyped ==
  ASSUME NEW n \in Nat, NEW e, Typed(e, n), Len(e.versions) < MaxVersions
  PROVE  Typed(Revised(e), n) /\ Doubled(Revised(e)) = Doubled(e)
<1> DEFINE f == Revised(e)
           v == Len(e.versions) + 1
           versions == Append(e.versions, "pending")
           approvals == Bound(e.approvals, v)
<1>1. /\ e \in Episode /\ e.versions \in Seq(Decision) /\ e.approvals \in Seq(Approval)
      /\ Len(e.versions) \in Nat /\ DOMAIN e.versions = 1..Len(e.versions)
  BY EpisodeIs DEF Typed
<1>2. v \in Version /\ "pending" \in Decision
  BY <1>1, Bounds DEF Version, Decision
<1>3. /\ versions \in Seq(Decision) /\ Len(versions) = v
      /\ DOMAIN versions = 1..v /\ DOMAIN e.versions \subseteq DOMAIN versions
  BY <1>1, <1>2
<1>4. approvals \in Seq(Approval)
  <2> HIDE DEF v
  <2>1. CASE approvals = Append(e.approvals, [decision |-> "pending", target |-> v])
    <3>1. [decision |-> "pending", target |-> v] \in Approval
      BY <1>2 DEF Approval
    <3> QED
      BY <1>1, <2>1, <3>1
  <2>2. ASSUME NEW k, approvals = [e.approvals EXCEPT ![k].target = v]
        PROVE  approvals \in Seq(Approval)
    <3> DEFINE new == [e.approvals[k] EXCEPT !.target = v]
    <3>1. k \in DOMAIN e.approvals => new \in Approval
      <4>1. k \in DOMAIN e.approvals => e.approvals[k] \in Approval
        BY <1>1
      <4> QED
        BY <1>2, <4>1 DEF Approval
    <3>2. approvals = [e.approvals EXCEPT ![k] = new]
      BY <2>2
    <3> HIDE DEF new, approvals
    <3> QED
      BY <1>1, <3>1, <3>2, SeqUpdated
  <2> QED
    BY <2>1, <2>2 DEF Bound
<1>5. f = [e EXCEPT !.versions = versions, !.approvals = approvals, !.reviewing = TRUE]
  BY <1>1 DEF Revised, Episode
<1> HIDE DEF versions, approvals, f
<1>6. f \in Episode /\ f.versions = versions /\ f.assets = e.assets
  BY <1>1, <1>3, <1>4, <1>5 DEF Episode
<1>7. Typed(f, n)
  BY <1>2, <1>3, <1>6 DEF Typed
<1>8. \A w, t : Twice(f, w, t) <=> Twice(e, w, t)
  BY <1>6 DEF Twice
<1>9. \A w, t : Twice(e, w, t) => w \in DOMAIN e.versions
  BY DEF Twice, Typed
<1>10. Doubled(e) \subseteq Doubled(f)
  BY <1>1, <1>3, <1>6, <1>8, MoreDoubled
<1>11. Doubled(f) \subseteq Doubled(e)
  BY <1>1, <1>6, <1>8, <1>9, MoreDoubled
<1> QED
  BY <1>7, <1>10, <1>11 DEF f

-----------------------------------------------------------------------------
(* The passes.                                                             *)

LEMMA NoPassIs ==
  ASSUME NEW n \in Nat, NEW e, Typed(e, n)
  PROVE  PassTyped(NoPass(e), n) /\ NoPass(e).copy = e
<1>1. e \in Episode
  BY DEF Typed
<1>2. NoPass(e) \in Pass
  BY <1>1 DEF NoPass, Pass, Kind
<1>3. NoPass(e).copy = e /\ NoPass(e).todo = {}
  BY DEF NoPass
<1> QED
  BY <1>2, <1>3 DEF PassTyped

\* What the provider may have done meanwhile, and the counts.
Around ==
  /\ jobs' \in Seq(JobState) /\ Len(jobs) <= Len(jobs') /\ Len(jobs') <= MaxJobs
  /\ regenerated' \in SUBSET Version /\ regenerated \subseteq regenerated'
  /\ requests' \in 0..MaxRequests /\ faults' \in 0..MaxFaults

LEMMA Meanwhile ==
  ASSUME TInv, Around
  PROVE  /\ Len(jobs) \in Nat /\ Len(jobs') \in Nat
         /\ \A e : Typed(e, Len(jobs)) => Typed(e, Len(jobs'))
         /\ \A e : Within(e, regenerated) => Within(e, regenerated')
         /\ Typed(row, Len(jobs')) /\ \A q \in Process : PassTyped(pass[q], Len(jobs'))
<1>1. Len(jobs) \in Nat /\ Len(jobs') \in Nat
  BY DEF TInv, Around
<1>2. Len(jobs) <= Len(jobs')
  BY DEF Around
<1>3. \A e : Within(e, regenerated) => Within(e, regenerated')
  BY DEF Within, Around
<1> QED
  BY <1>1, <1>2, <1>3, LaterTyped DEF TInv

LEMMA EndedIs ==
  ASSUME NEW n \in Nat, \A q \in Process : PassTyped(pass[q], n),
         Typed(row', n), NEW p, pass' = Ended(p)
  PROVE  /\ DOMAIN pass' = Process
         /\ \A q \in Process : /\ PassTyped(pass'[q], n)
                               /\ pass'[q].copy \in {row', pass[q].copy}
<1>1. /\ DOMAIN pass' = Process
      /\ \A q \in Process : \/ pass'[q] = NoPass(row')
                            \/ pass'[q] = [pass[q] EXCEPT !.stale = TRUE]
  BY DEF Ended
<1>2. ASSUME NEW q \in Process
      PROVE  PassTyped(pass'[q], n) /\ pass'[q].copy \in {row', pass[q].copy}
  <2>1. CASE pass'[q] = NoPass(row')
    BY <2>1, NoPassIs
  <2>2. CASE pass'[q] = [pass[q] EXCEPT !.stale = TRUE]
    <3>1. pass[q] \in Pass
      BY DEF PassTyped
    <3>2. /\ pass'[q] \in Pass /\ pass'[q].copy = pass[q].copy /\ pass'[q].todo = pass[q].todo
      BY <2>2, <3>1 DEF Pass
    <3> QED
      BY <3>2 DEF PassTyped
  <2> QED
    BY <1>1, <2>1, <2>2
<1> QED
  BY <1>1, <1>2

\* An episode is saved.
LEMMA SavesGoal ==
  ASSUME RInv, Around, NEW p, NEW e, Saves(p, e), Typed(e, Len(jobs')), Within(e, regenerated')
  PROVE  RInv'
<1>1. row' = e /\ pass' = Ended(p)
  BY DEF Saves
<1>2. /\ Len(jobs') \in Nat /\ \A q \in Process : PassTyped(pass[q], Len(jobs'))
      /\ \A q \in Process : Within(pass[q].copy, regenerated')
  BY Meanwhile DEF RInv
<1>3. /\ DOMAIN pass' = Process
      /\ \A q \in Process : /\ PassTyped(pass'[q], Len(jobs'))
                            /\ pass'[q].copy \in {row', pass[q].copy}
  BY <1>1, <1>2, EndedIs
<1>4. TInv'
  BY <1>1, <1>3 DEF TInv, Around
<1>5. Within(row', regenerated') /\ \A q \in Process : Within(pass'[q].copy, regenerated')
  BY <1>1, <1>2, <1>3
<1> QED
  BY <1>4, <1>5 DEF RInv, Within

\* A pass goes on, begins or is given up.
LEMMA PassGoal ==
  ASSUME RInv, Around, row' = row, NEW p \in Process, NEW q, pass' = [pass EXCEPT ![p] = q],
         PassTyped(q, Len(jobs')), Within(q.copy, regenerated')
  PROVE  RInv'
<1>1. TInv
  BY DEF RInv
<1>2. DOMAIN pass' = Process /\ \A r \in Process : pass'[r] = IF r = p THEN q ELSE pass[r]
  BY <1>1 DEF TInv
<1>3. \A r \in Process : PassTyped(pass'[r], Len(jobs')) /\ Within(pass'[r].copy, regenerated')
  BY <1>1, <1>2, Meanwhile DEF RInv
<1>4. Typed(row', Len(jobs')) /\ Within(row', regenerated')
  BY <1>1, Meanwhile DEF RInv
<1>5. TInv'
  BY <1>2, <1>3, <1>4 DEF TInv, Around
<1> QED
  BY <1>3, <1>4, <1>5 DEF RInv, Within

LEMMA DropsGoal ==
  ASSUME RInv, Around, NEW p \in Process, Drops(p)
  PROVE  RInv'
<1>1. row' = row /\ pass' = [pass EXCEPT ![p] = NoPass(row)]
  BY DEF Drops
<1>2. PassTyped(NoPass(row), Len(jobs')) /\ NoPass(row).copy = row
  BY Meanwhile, NoPassIs DEF RInv
<1>3. Within(NoPass(row).copy, regenerated')
  BY <1>2, Meanwhile DEF RInv
<1> HIDE DEF NoPass
<1> QED
  BY <1>1, <1>2, <1>3, PassGoal

\* The end of a pass.
LEMMA PassSavesGoal ==
  ASSUME RInv, Around, NEW p \in Process, NEW e, SavesUnlessNewer(p, e),
         Typed(e, Len(jobs')), Within(e, regenerated')
  PROVE  RInv'
<1>1. Saves(p, e) \/ Drops(p)
  BY DEF SavesUnlessNewer
<1> QED
  BY <1>1, SavesGoal, DropsGoal

\* One asset of a pass is worked on.
Along(q, i, a, T) == [q EXCEPT !.copy.assets[i] = a, !.todo = T]

LEMMA PassWorked ==
  ASSUME NEW n \in Nat, NEW q, PassTyped(q, n), NEW i \in q.todo, NEW a,
         Reworked(q.copy.assets[i], a, n), NEW T \in SUBSET q.todo
  PROVE  LET r == Along(q, i, a, T)
         IN PassTyped(r, n) /\ \A R : Within(q.copy, R) => Within(r.copy, R)
<1> DEFINE f == [q.copy EXCEPT !.assets[i] = a]
           r == Along(q, i, a, T)
<1>1. q \in Pass /\ Typed(q.copy, n) /\ q.todo \subseteq DOMAIN q.copy.assets
  BY DEF PassTyped
<1>2. i \in DOMAIN q.copy.assets
  BY <1>1
<1>3. Typed(f, n) /\ SameRecordings(q.copy, f)
  BY <1>1, <1>2, AssetWorked
<1>4. f \in Episode
  BY <1>3 DEF Typed
<1>5. r = [q EXCEPT !.copy = f, !.todo = T]
  BY <1>1 DEF Pass, Along
<1>6. DOMAIN f.assets = DOMAIN q.copy.assets
  BY <1>3 DEF SameRecordings
<1> HIDE DEF f, r
<1>7. T \in SUBSET Nat
  BY <1>1 DEF Pass
<1>8. r \in Pass /\ r.copy = f /\ r.todo = T
  BY <1>1, <1>4, <1>5, <1>7 DEF Pass
<1>9. \A R : Within(q.copy, R) => Within(f, R)
  BY <1>1, <1>3, SameWithin
<1> QED
  BY <1>1, <1>3, <1>6, <1>8, <1>9 DEF PassTyped, r

\* The same as a step of process p.
LEMMA WorkGoal ==
  ASSUME RInv, Around, row' = row, NEW p \in Process, NEW i \in pass[p].todo, NEW a,
         Reworked(pass[p].copy.assets[i], a, Len(jobs')), NEW T \in SUBSET pass[p].todo,
         pass' = [pass EXCEPT ![p] = Along(pass[p], i, a, T)]
  PROVE  RInv'
<1> DEFINE q == pass[p]
           n == Len(jobs')
           r == Along(q, i, a, T)
<1>1. PassTyped(q, n) /\ n \in Nat /\ Within(q.copy, regenerated')
  BY Meanwhile DEF RInv
<1>2. pass' = [pass EXCEPT ![p] = r]
  OBVIOUS
<1>3. PassTyped(r, n) /\ \A R : Within(q.copy, R) => Within(r.copy, R)
  <2>1. i \in q.todo /\ T \in SUBSET q.todo /\ Reworked(q.copy.assets[i], a, n)
    OBVIOUS
  <2> HIDE DEF q, n
  <2> QED
    BY <1>1, <2>1, PassWorked
<1> HIDE DEF r
<1> QED
  BY <1>1, <1>2, <1>3, PassGoal

-----------------------------------------------------------------------------
(* The steps.                                                              *)

LEMMA MaxIsMember ==
  ASSUME NEW n \in Nat, NEW S \in SUBSET (1..n), S # {}
  PROVE  Max(S) \in S
<1> DEFINE T == {n - x : x \in S}
<1>1. T \in SUBSET Nat /\ T # {}
  <2>1. \A x \in S : x \in Nat /\ n - x \in Nat
    OBVIOUS
  <2>2. T \in SUBSET Nat
    BY <2>1
  <2>3. PICK x \in S : TRUE
    OBVIOUS
  <2>4. n - x \in T
    BY <2>3
  <2> QED
    BY <2>2, <2>4
<1>2. PICK m \in T : \A y \in T : m =< y
  BY <1>1, LeastExists
<1>3. PICK x \in S : m = n - x
  BY <1>2
<1>4. \A y \in S : x >= y
  <2> SUFFICES ASSUME NEW y \in S PROVE x >= y
    OBVIOUS
  <2>1. n - x =< n - y
    BY <1>2, <1>3
  <2>2. x \in Nat /\ y \in Nat
    OBVIOUS
  <2> QED
    BY <2>1, <2>2
<1> QED
  BY <1>3, <1>4 DEF Max

LEMMA InitRInv == Init => RInv
<1> SUFFICES ASSUME Init PROVE RInv
  OBVIOUS
<1> DEFINE a == [decision |-> "pending", target |-> 1]
<1>1. jobs = <<>> /\ jobs \in Seq(JobState) /\ Len(jobs) = 0 /\ Len(jobs) <= MaxJobs
  BY Bounds DEF Init
<1>2. requests \in 0..MaxRequests /\ faults \in 0..MaxFaults /\ regenerated \in SUBSET Version
  BY Bounds DEF Init
<1>3. "pending" \in Decision /\ a \in Approval
  BY Bounds DEF Decision, Approval
<1>4. row = [versions |-> <<"pending">>, approvals |-> <<a>>, assets |-> <<>>,
             reviewing |-> TRUE]
  BY DEF Init
<1> HIDE DEF a
<1>5. /\ row \in Episode /\ Len(row.versions) = 1 /\ DOMAIN row.assets = {}
  BY <1>3, <1>4 DEF Episode
<1>6. Typed(row, Len(jobs))
  BY <1>5, Bounds DEF Typed
<1>7. PassTyped(NoPass(row), Len(jobs)) /\ NoPass(row).copy = row
  BY <1>1, <1>6, NoPassIs
<1>8. DOMAIN pass = Process /\ \A p \in Process : pass[p] = NoPass(row)
  BY DEF Init
<1>9. TInv
  BY <1>1, <1>2, <1>6, <1>7, <1>8 DEF TInv
<1>10. Within(row, regenerated)
  <2>1. \A v, t : ~Twice(row, v, t)
    BY <1>5 DEF Twice
  <2> SUFFICES ASSUME NEW r \in Doubled(row) PROVE FALSE
    BY DEF Within
  <2>2. PICK v, t : r = <<v, t>>
    BY DoubledPairs
  <2> QED
    BY <1>5, <2>1, <2>2, DoubledIs
<1> QED
  BY <1>7, <1>8, <1>9, <1>10 DEF RInv

LEMMA Unmoved ==
  ASSUME TInv, jobs' = jobs, regenerated' = regenerated,
         requests' \in 0..MaxRequests, faults' \in 0..MaxFaults
  PROVE  Around /\ Len(jobs') = Len(jobs) /\ Len(jobs) \in Nat
  BY DEF TInv, Around

LEMMA Counted ==
  ASSUME TInv
  PROVE  /\ UNCHANGED requests => requests' \in 0..MaxRequests
         /\ UNCHANGED faults => faults' \in 0..MaxFaults
         /\ Asked => requests' \in 0..MaxRequests
         /\ Fault => faults' \in 0..MaxFaults
  BY Bounds DEF TInv, Asked, Fault

LEMMA StoppedIs ==
  ASSUME jobs \in Seq(JobState), NEW K
  PROVE  Stopped(K) \in Seq(JobState) /\ Len(Stopped(K)) = Len(jobs)
<1>1. Len(jobs) \in Nat /\ DOMAIN jobs = 1..Len(jobs) /\ \A k \in DOMAIN jobs : jobs[k] \in JobState
  OBVIOUS
<1>2. "cancelled" \in JobState
  BY DEF JobState
<1>3. Stopped(K) \in [1..Len(jobs) -> JobState]
  BY <1>1, <1>2 DEF Stopped
<1> QED
  BY <1>1, <1>3

\* A pass starts on a copy.
LEMMA StartGoal ==
  ASSUME RInv, Around, row' = row, NEW p \in Process, NEW kind \in Kind,
         NEW e, Typed(e, Len(jobs')), Within(e, regenerated'),
         NEW T \in SUBSET DOMAIN e.assets, NEW planned \in BOOLEAN,
         Start(p, kind, e, T, planned)
  PROVE  RInv'
<1> DEFINE q == [busy |-> TRUE, kind |-> kind, copy |-> e, todo |-> T,
                 planned |-> planned, stale |-> FALSE]
<1>1. e \in Episode /\ T \in SUBSET Nat
  BY EpisodeIs DEF Typed
<1>2. q \in Pass /\ q.copy = e /\ q.todo = T
  BY <1>1 DEF Pass
<1>3. pass' = [pass EXCEPT ![p] = q]
  BY DEF Start
<1> HIDE DEF q
<1>4. PassTyped(q, Len(jobs'))
  BY <1>2 DEF PassTyped
<1> QED
  BY <1>2, <1>3, <1>4, PassGoal

\* What holds of the row when a step begins.
LEMMA RowIs ==
  ASSUME RInv
  PROVE  /\ TInv /\ Typed(row, Len(jobs)) /\ row \in Episode /\ Len(jobs) \in Nat
         /\ Within(row, regenerated)
         /\ jobs \in Seq(JobState) /\ Len(jobs) <= MaxJobs /\ regenerated \in SUBSET Version
         /\ \A p \in Process : PassTyped(pass[p], Len(jobs)) /\ Within(pass[p].copy, regenerated)
  BY DEF RInv, TInv, Typed

LEMMA ReadyIs ==
  ASSUME NEW n \in Nat, NEW e, Typed(e, n)
  PROVE  /\ Typed(Ready(e), n) /\ DOMAIN Ready(e).assets = DOMAIN e.assets
         /\ \A R : Within(e, R) => Within(Ready(e), R)
<1>1. PICK no \in BOOLEAN : ~no
  OBVIOUS
<1>2. Ready(e) = [e EXCEPT !.reviewing = no]
  BY <1>1 DEF Ready
<1>3. Typed(Ready(e), n) /\ SameRecordings(e, Ready(e))
  BY <1>2, FlagSet
<1> QED
  BY <1>3, SameWithin DEF SameRecordings

\* A request or the adapter begins a pass.
LEMMA AsksGoal ==
  ASSUME RInv, Around, UNCHANGED <<row, jobs>>, NEW p \in Process, NEW kind \in Kind,
         NEW e, Typed(e, Len(jobs)), Within(e, regenerated'), NEW T \in SUBSET DOMAIN e.assets,
         Start(p, kind, e, T, FALSE)
  PROVE  RInv'
<1>1. PICK no \in BOOLEAN : ~no /\ Start(p, kind, e, T, no)
  OBVIOUS
<1>2. Typed(e, Len(jobs'))
  OBVIOUS
<1> HIDE DEF Start
<1> QED
  BY <1>1, <1>2, StartGoal

LEMMA DecideGoal ==
  ASSUME RInv, NEW i \in DOMAIN row.approvals, NEW d \in {"approved", "rejected"}, Decide(i, d)
  PROVE  RInv'
<1> DEFINE e == Decided(row, i, d)
<1>1. TInv /\ Saves("none", e) /\ UNCHANGED <<jobs, regenerated, requests, faults>>
  BY DEF RInv, Decide, Edits
<1>2. Around /\ Len(jobs') = Len(jobs) /\ Len(jobs) \in Nat
  BY <1>1, Unmoved, Counted
<1>3. Typed(row, Len(jobs)) /\ Within(row, regenerated)
  BY RowIs
<1>4. Typed(e, Len(jobs)) /\ SameRecordings(row, e)
  BY <1>2, <1>3, DecidedTyped
<1> HIDE DEF e
<1>5. Within(e, regenerated') /\ Typed(e, Len(jobs'))
  BY <1>1, <1>2, <1>3, <1>4, SameWithin
<1>6. \E p : Saves(p, e)
  BY <1>1
<1> QED
  BY <1>2, <1>5, <1>6, SavesGoal

LEMMA ReviseGoal ==
  ASSUME RInv, Revise
  PROVE  RInv'
<1> DEFINE e == Revised(row)
<1>1. /\ TInv /\ \E p : Saves(p, e)
      /\ UNCHANGED <<jobs, regenerated, requests, faults>> /\ Len(row.versions) < MaxVersions
  BY DEF RInv, Revise, Edits
<1>2. Around /\ Len(jobs') = Len(jobs) /\ Len(jobs) \in Nat
  BY <1>1, Unmoved, Counted
<1>3. Typed(row, Len(jobs)) /\ Within(row, regenerated)
  BY RowIs
<1>4. Typed(e, Len(jobs')) /\ Doubled(e) = Doubled(row)
  BY <1>1, <1>2, <1>3, RevisedTyped
<1> HIDE DEF e
<1>5. Within(e, regenerated')
  BY <1>1, <1>3, <1>4 DEF Within
<1> QED
  BY <1>1, <1>2, <1>4, <1>5, SavesGoal

LEMMA WorkerStartGoal ==
  ASSUME RInv, WorkerStart
  PROVE  RInv'
<1> DEFINE N == {w \in Candidates(row) : NeedsAudio(row, w)}
           v == Max(N)
           e == Prepared(v)
<1>1. /\ UNCHANGED <<row, jobs, regenerated, requests, faults>> /\ N # {}
      /\ Start("worker", "generate", Ready(e), WorkerTargets(e, v), e # row)
  BY DEF WorkerStart, CanStart
<1>2. TInv /\ Typed(row, Len(jobs)) /\ row \in Episode /\ Within(row, regenerated)
  BY RowIs
<1>3. Around /\ Len(jobs') = Len(jobs) /\ Len(jobs) \in Nat
  BY <1>1, <1>2, Unmoved, Counted
<1>4. v \in DOMAIN row.versions
  <2>1. /\ DOMAIN row.versions = 1..Len(row.versions) /\ Len(row.versions) \in Nat
        /\ Len(row.versions) \in Version
    BY <1>2, EpisodeIs DEF Typed
  <2>2. Canonical(row) \in 1..Len(row.versions)
    BY <2>1 DEF Canonical, Version
  <2>3. N \in SUBSET (1..Len(row.versions))
    BY <2>1, <2>2 DEF Candidates, Approved
  <2> HIDE DEF N
  <2>4. Max(N) \in N
    BY <1>1, <2>1, <2>3, MaxIsMember
  <2> QED
    BY <2>1, <2>3, <2>4
<1> HIDE DEF v
<1>5. PICK no \in BOOLEAN : ~no
  OBVIOUS
<1>6. Typed(e, Len(jobs)) /\ Within(e, regenerated)
  <2>1. Typed(Planned(row, v, no), Len(jobs)) /\ Within(Planned(row, v, no), regenerated)
    BY <1>2, <1>3, <1>4, <1>5, PlannedIs
  <2>2. Planned(row, v, no) = Planned(row, v, FALSE)
    BY <1>5
  <2> QED
    BY <1>2, <2>1, <2>2 DEF Prepared
<1>7. PICK planned \in BOOLEAN :
        Start("worker", "generate", Ready(e), WorkerTargets(e, v), planned)
  <2>1. (e # row) \in BOOLEAN
    OBVIOUS
  <2> QED
    BY <1>1, <2>1
<1> HIDE DEF e
<1>8. /\ Typed(Ready(e), Len(jobs')) /\ Within(Ready(e), regenerated')
      /\ WorkerTargets(e, v) \in SUBSET DOMAIN Ready(e).assets
  <2>1. WorkerTargets(e, v) \in SUBSET DOMAIN e.assets
    BY DEF WorkerTargets, Of
  <2> QED
    BY <1>1, <1>3, <1>6, <2>1, ReadyIs
<1>9. PICK p \in Process, kind \in Kind : Start(p, kind, Ready(e), WorkerTargets(e, v), planned)
  BY <1>7 DEF Process, Kind
<1> HIDE DEF Start
<1> QED
  BY <1>1, <1>3, <1>8, <1>9, StartGoal

\* A request that may be one to regenerate.
LEMMA RegeneratesIs ==
  ASSUME RInv, NEW v \in Approved(row), NEW g \in BOOLEAN, Regenerates(v, g),
         Asked, UNCHANGED <<jobs, faults>>
  PROVE  /\ Around
         /\ LET e == Planned(row, v, g) IN Typed(e, Len(jobs)) /\ Within(e, regenerated')
<1>1. /\ TInv /\ Typed(row, Len(jobs)) /\ row \in Episode /\ Within(row, regenerated)
      /\ regenerated \in SUBSET Version /\ Len(jobs) \in Nat
  BY RowIs
<1>2. v \in DOMAIN row.versions /\ v \in Version
  <2>1. /\ DOMAIN row.versions = 1..Len(row.versions) /\ Len(row.versions) \in Nat
        /\ Len(row.versions) \in Version /\ v \in DOMAIN row.versions
    BY <1>1, EpisodeIs DEF Typed, Approved
  <2> QED
    BY <2>1, Bounds DEF Version
<1>3. /\ regenerated' \in SUBSET Version /\ regenerated \subseteq regenerated'
      /\ g => v \in regenerated'
  BY <1>1, <1>2 DEF Regenerates
<1>4. Around
  BY <1>1, <1>3, Counted DEF Around, TInv
<1>5. Within(row, regenerated')
  BY <1>1, <1>3 DEF Within
<1> QED
  BY <1>1, <1>2, <1>3, <1>4, <1>5, PlannedIs

LEMMA PlanRequestGoal ==
  ASSUME RInv, PlanRequest
  PROVE  RInv'
<1>1. PICK v \in Approved(row), g \in BOOLEAN :
        Regenerates(v, g) /\ \E p : Saves(p, Planned(row, v, g))
  BY DEF PlanRequest, Edits
<1> DEFINE e == Planned(row, v, g)
<1>2. Asked /\ UNCHANGED <<jobs, faults>>
  BY DEF PlanRequest
<1>3. Around /\ Typed(e, Len(jobs')) /\ Within(e, regenerated')
  BY <1>1, <1>2, RegeneratesIs
<1> HIDE DEF e
<1> QED
  BY <1>1, <1>3, SavesGoal DEF e

LEMMA GenerationIs ==
  ASSUME NEW g PROVE Generation(g) \in Kind
  BY DEF Generation, Kind

LEMMA GenerateGoal ==
  ASSUME RInv, GenerateRequest
  PROVE  RInv'
<1>1. PICK v \in Approved(row), g \in BOOLEAN :
        \E T \in {Of(row, v)} \cup {{i} : i \in Of(row, v)} :
          Start("request", Generation(g), Ready(row), T, FALSE)
  BY DEF GenerateRequest
<1>2. PICK T \in SUBSET DOMAIN row.assets : Start("request", Generation(g), Ready(row), T, FALSE)
  BY <1>1 DEF Of
<1>3. PICK p \in Process, kind \in Kind : Start(p, kind, Ready(row), T, FALSE)
  BY <1>2, GenerationIs DEF Process
<1>4. Asked /\ UNCHANGED <<row, jobs, regenerated, faults>>
  BY DEF GenerateRequest
<1>5. /\ Around /\ Typed(Ready(row), Len(jobs)) /\ Within(Ready(row), regenerated')
      /\ T \in SUBSET DOMAIN Ready(row).assets
  BY <1>4, RowIs, Counted, Unmoved, ReadyIs
<1> HIDE DEF Start
<1> QED
  BY <1>3, <1>4, <1>5, AsksGoal

LEMMA ProduceGoal ==
  ASSUME RInv, ProduceRequest
  PROVE  RInv'
<1>1. PICK v \in Approved(row), g \in BOOLEAN :
        /\ Start("request", Generation(g), Ready(Planned(row, v, g)), Of(Planned(row, v, g), v), FALSE)
        /\ Regenerates(v, g)
  BY DEF ProduceRequest
<1> DEFINE e == Planned(row, v, g)
<1>2. Asked /\ UNCHANGED <<row, jobs, faults>> /\ Len(jobs) \in Nat
  BY RowIs DEF ProduceRequest
<1>3. Around /\ Typed(e, Len(jobs)) /\ Within(e, regenerated')
  BY <1>1, <1>2, RegeneratesIs
<1>4. Start("request", Generation(g), Ready(e), Of(e, v), FALSE)
  BY <1>1
<1> HIDE DEF e
<1>5. /\ Typed(Ready(e), Len(jobs)) /\ Within(Ready(e), regenerated')
      /\ Of(e, v) \in SUBSET DOMAIN Ready(e).assets
  BY <1>2, <1>3, ReadyIs DEF Of
<1>6. PICK p \in Process, kind \in Kind : Start(p, kind, Ready(e), Of(e, v), FALSE)
  BY <1>4, GenerationIs DEF Process
<1> HIDE DEF Start
<1> QED
  BY <1>2, <1>3, <1>5, <1>6, AsksGoal

LEMMA CancelRequestGoal ==
  ASSUME RInv, CancelRequest
  PROVE  RInv'
<1>1. PICK kind \in Kind, T \in SUBSET DOMAIN row.assets : Start("request", kind, Ready(row), T, FALSE)
  <2>1. PICK v \in Approved(row), reset \in BOOLEAN :
          LET C == In(row, v, {"submitted", "failed"} \cup (IF reset THEN {"cancelled"} ELSE {}))
          IN \E T \in ({C} \cup {{i} : i \in C}) \ {{}} :
               Start("request", IF reset THEN "reset" ELSE "cancel", Ready(row), T, FALSE)
    BY DEF CancelRequest
  <2>2. (IF reset THEN "reset" ELSE "cancel") \in Kind
    BY DEF Kind
  <2>3. \A S : In(row, v, S) \in SUBSET DOMAIN row.assets
    BY DEF In, Of
  <2> HIDE DEF Start
  <2> QED
    BY <2>1, <2>2, <2>3
<1>2. PICK p \in Process : Start(p, kind, Ready(row), T, FALSE)
  BY <1>1 DEF Process
<1>3. Asked /\ UNCHANGED <<row, jobs, regenerated, faults>>
  BY DEF CancelRequest
<1>4. /\ Around /\ Typed(Ready(row), Len(jobs)) /\ Within(Ready(row), regenerated')
      /\ T \in SUBSET DOMAIN Ready(row).assets
  BY <1>3, RowIs, Counted, Unmoved, ReadyIs
<1> HIDE DEF Start
<1> QED
  BY <1>2, <1>3, <1>4, AsksGoal

LEMMA SyncStartGoal ==
  ASSUME RInv, NEW p \in Process, NEW T \in SUBSET DOMAIN row.assets,
         Start(p, "sync", row, T, FALSE), UNCHANGED <<row, jobs, regenerated, faults>>,
         UNCHANGED requests \/ Asked
  PROVE  RInv'
<1>1. PICK kind \in Kind : Start(p, kind, row, T, FALSE)
  BY DEF Kind
<1>2. Around /\ Typed(row, Len(jobs)) /\ Within(row, regenerated')
  BY RowIs, Counted, Unmoved
<1> HIDE DEF Start
<1> QED
  BY <1>1, <1>2, AsksGoal

LEMMA SyncRequestGoal ==
  ASSUME RInv, SyncRequest
  PROVE  RInv'
<1>1. PICK T \in SUBSET DOMAIN row.assets : Start("request", "sync", row, T, FALSE)
  BY DEF SyncRequest, In, Of
<1>2. PICK p \in Process : Start(p, "sync", row, T, FALSE)
  BY <1>1 DEF Process
<1> QED
  BY <1>2, SyncStartGoal DEF SyncRequest

LEMMA PollGoal ==
  ASSUME RInv, Poll
  PROVE  RInv'
<1>1. PICK T \in SUBSET DOMAIN row.assets : Start("adapter", "sync", row, T, FALSE)
  BY DEF Poll, In, Of
<1>2. PICK p \in Process : Start(p, "sync", row, T, FALSE)
  BY <1>1 DEF Process
<1> QED
  BY <1>2, SyncStartGoal DEF Poll

\* An asset of a pass.
LEMMA WorkedIs ==
  ASSUME TInv, NEW p \in Process, NEW i, NEW a, Worked(p, i, a)
  PROVE  \E T \in SUBSET pass[p].todo : pass' = [pass EXCEPT ![p] = Along(pass[p], i, a, T)]
<1> DEFINE T == {j \in pass[p].todo : i < j}
<1>1. pass[p] \in Pass /\ DOMAIN pass = Process
  BY DEF TInv, PassTyped
<1>2. pass' = [pass EXCEPT ![p] = Along(pass[p], i, a, T)]
  BY <1>1 DEF Worked, Along, Pass
<1> QED
  BY <1>2

LEMMA WorkedGoal ==
  ASSUME RInv, Around, row' = row, NEW p \in Process, NEW i \in pass[p].todo, NEW a,
         Reworked(pass[p].copy.assets[i], a, Len(jobs')), Worked(p, i, a)
  PROVE  RInv'
<1>1. PICK T \in SUBSET pass[p].todo : pass' = [pass EXCEPT ![p] = Along(pass[p], i, a, T)]
  BY RowIs, WorkedIs
<1> HIDE DEF Reworked, Worked
<1> QED
  BY <1>1, WorkGoal

LEMMA TurnOf ==
  ASSUME RInv, Around, NEW p \in Process, NEW i \in pass[p].todo
  PROVE  LET a == pass[p].copy.assets[i]
         IN /\ a \in Asset /\ a.job <= Len(jobs) /\ a.job <= Len(jobs')
            /\ Len(jobs') \in Nat
<1>1. PassTyped(pass[p], Len(jobs')) /\ PassTyped(pass[p], Len(jobs)) /\ Len(jobs') \in Nat
  BY Meanwhile DEF RInv, TInv
<1>2. Typed(pass[p].copy, Len(jobs')) /\ Typed(pass[p].copy, Len(jobs))
      /\ i \in DOMAIN pass[p].copy.assets
  BY <1>1 DEF PassTyped
<1> QED
  BY <1>1, <1>2, EpisodeIs DEF Typed

\* The provider's jobs may be stopped on the way.
LEMMA MayStop ==
  ASSUME RInv, jobs' = jobs \/ (\E K : jobs' = Stopped(K)), UNCHANGED <<regenerated, requests>>,
         UNCHANGED faults \/ Fault
  PROVE  Around
<1>1. TInv /\ jobs \in Seq(JobState) /\ Len(jobs) \in Nat /\ Len(jobs) <= MaxJobs
  BY RowIs
<1>2. jobs' \in Seq(JobState) /\ Len(jobs') = Len(jobs)
  BY <1>1, StoppedIs
<1> QED
  BY <1>1, <1>2, Counted DEF Around, TInv

LEMMA CancelFirstGoal ==
  ASSUME RInv, NEW p \in Process, NEW i \in pass[p].todo, CancelFirst(p, i)
  PROVE  RInv'
<1> DEFINE a == pass[p].copy.assets[i]
           b == [Freed(a) EXCEPT !.status = "planned"]
           c == [a EXCEPT !.status = "failed"]
<1>1. TInv /\ UNCHANGED <<row, regenerated, requests>> /\ (UNCHANGED faults \/ Fault)
      /\ (jobs' = jobs \/ \E K : jobs' = Stopped(K))
  BY DEF RInv, CancelFirst
<1>2. pass' = [pass EXCEPT ![p].copy.assets[i] = b] \/ Worked(p, i, c)
  BY DEF CancelFirst
<1>3. Around
  BY <1>1, MayStop
<1>4. a \in Asset /\ a.job <= Len(jobs') /\ Len(jobs') \in Nat
  BY <1>3, TurnOf
<1>5. Reworked(a, b, Len(jobs')) /\ Reworked(a, c, Len(jobs'))
  BY <1>4, ReworkedIs
<1> HIDE DEF b, c
<1>6. CASE Worked(p, i, c)
  BY <1>1, <1>3, <1>5, <1>6, WorkedGoal
<1>7. CASE pass' = [pass EXCEPT ![p].copy.assets[i] = b]
  <2>1. pass[p] \in Pass /\ DOMAIN pass = Process
    BY <1>1 DEF TInv, PassTyped
  <2>2. PICK T \in SUBSET pass[p].todo : pass' = [pass EXCEPT ![p] = Along(pass[p], i, b, T)]
    <3>1. pass' = [pass EXCEPT ![p] = Along(pass[p], i, b, pass[p].todo)]
      BY <1>7, <2>1 DEF Along, Pass
    <3> QED
      BY <3>1
  <2> QED
    BY <1>1, <1>3, <1>5, <2>2, WorkGoal
<1> QED
  BY <1>2, <1>6, <1>7

LEMMA SubmitGoal ==
  ASSUME RInv, NEW p \in Process, NEW i \in pass[p].todo, Submit(p, i)
  PROVE  RInv'
<1> DEFINE a == pass[p].copy.assets[i]
           k == Len(jobs) + 1
<1>1. /\ TInv /\ UNCHANGED <<row, regenerated, requests>> /\ k <= MaxJobs
      /\ jobs \in Seq(JobState) /\ Len(jobs) \in Nat
  BY DEF RInv, Submit, TInv
<1>2. PICK s \in JobState :
        /\ jobs' = Append(jobs, s)
        /\ \/ Worked(p, i, Answered(a, k, s)) /\ UNCHANGED faults
           \/ Worked(p, i, SubmitFailed(a)) /\ Fault
  BY DEF Submit, JobState
<1>3. Around /\ Len(jobs') = k /\ k \in Nat /\ k \in 0..MaxJobs
  <2>1. jobs' \in Seq(JobState) /\ Len(jobs') = k
    BY <1>1, <1>2
  <2> QED
    BY <1>1, <1>2, <2>1, Counted, Bounds DEF Around, TInv
<1>4. a \in Asset /\ a.job <= k
  BY <1>3, TurnOf
<1>5. Reworked(a, Answered(a, k, s), k) /\ Reworked(a, SubmitFailed(a), k)
  <2> HIDE DEF a, k
  <2>1. k <= k
    BY <1>3
  <2>2. Reworked(a, Answered(a, k, s), k)
    BY <1>3, <1>4, <2>1, AnsweredIs
  <2>3. Reworked(a, SubmitFailed(a), k)
    BY <1>3, <1>4, ReworkedIs
  <2> QED
    BY <2>2, <2>3
<1>6. PICK d \in {Answered(a, k, s), SubmitFailed(a)} : Worked(p, i, d)
  BY <1>2
<1>7. Reworked(pass[p].copy.assets[i], d, Len(jobs'))
  BY <1>3, <1>5, <1>6
<1> QED
  BY <1>1, <1>3, <1>6, <1>7, WorkedGoal

LEMMA RefuseGoal ==
  ASSUME RInv, NEW p \in Process, NEW i \in pass[p].todo, Refuse(p, i)
  PROVE  RInv'
<1> DEFINE a == pass[p].copy.assets[i]
<1>1. /\ UNCHANGED <<row, jobs, regenerated, requests, faults>> /\ Worked(p, i, SubmitFailed(a))
  BY DEF Refuse
<1>2. Around
  BY <1>1, MayStop
<1>3. Reworked(a, SubmitFailed(a), Len(jobs'))
  BY <1>2, TurnOf, ReworkedIs
<1> QED
  BY <1>1, <1>2, <1>3, WorkedGoal

LEMMA CancelJobGoal ==
  ASSUME RInv, NEW p \in Process, NEW i \in pass[p].todo, CancelJob(p, i)
  PROVE  RInv'
<1> DEFINE a == pass[p].copy.assets[i]
<1>1. PICK reset \in BOOLEAN : reset = (pass[p].kind = "reset")
  OBVIOUS
<1>2. /\ UNCHANGED <<row, regenerated, requests>> /\ (UNCHANGED faults \/ Fault)
      /\ (jobs' = jobs \/ \E K : jobs' = Stopped(K))
      /\ Worked(p, i, Cancelled(a, reset)) \/ Worked(p, i, [a EXCEPT !.mustCancel = TRUE])
  BY <1>1 DEF CancelJob
<1>3. Around
  BY <1>2, MayStop
<1>4. /\ Reworked(a, Cancelled(a, reset), Len(jobs'))
      /\ Reworked(a, [a EXCEPT !.mustCancel = TRUE], Len(jobs'))
  BY <1>3, TurnOf, ReworkedIs
<1> QED
  BY <1>2, <1>3, <1>4, WorkedGoal

LEMMA SyncJobGoal ==
  ASSUME RInv, NEW p \in Process, NEW i \in pass[p].todo, SyncJob(p, i)
  PROVE  RInv'
<1> DEFINE a == pass[p].copy.assets[i]
           b == [a EXCEPT !.status = "failed"]
           c == Answered(a, a.job, jobs[a.job])
<1>1. /\ UNCHANGED <<row, jobs, regenerated, requests>> /\ (UNCHANGED faults \/ Fault)
      /\ \/ Worked(p, i, a)
         \/ Worked(p, i, b)
         \/ a.job # 0 /\ Worked(p, i, c)
  BY DEF SyncJob
<1>2. Around
  BY <1>1, MayStop
<1>3. a \in Asset /\ a.job <= Len(jobs) /\ a.job <= Len(jobs') /\ Len(jobs') \in Nat
  BY <1>2, TurnOf
<1>4. Reworked(a, a, Len(jobs')) /\ Reworked(a, b, Len(jobs'))
  BY <1>3, ReworkedIs
<1>5. ASSUME a.job # 0 PROVE Reworked(a, c, Len(jobs'))
  <2>1. a.job \in 0..MaxJobs /\ jobs \in Seq(JobState) /\ Len(jobs) \in Nat
    BY <1>3, RowIs DEF Asset
  <2>2. a.job \in 1..Len(jobs)
    BY <1>3, <1>5, <2>1, Bounds
  <2>3. jobs[a.job] \in JobState
    BY <2>1, <2>2
  <2> QED
    BY <1>3, <2>1, <2>3, AnsweredIs
<1> HIDE DEF b, c
<1> QED
  BY <1>1, <1>2, <1>4, <1>5, WorkedGoal

LEMMA RaiseGoal ==
  ASSUME RInv, NEW p \in Process, NEW i \in pass[p].todo, Raise(p, i)
  PROVE  RInv'
<1> DEFINE a == pass[p].copy.assets[i]
           b == [a EXCEPT !.status = "submitted"]
           e == [pass[p].copy EXCEPT !.assets[i].status = "submitted"]
<1>1. /\ UNCHANGED <<jobs, regenerated, requests>> /\ Fault
      /\ SavesUnlessNewer(p, e) \/ Drops(p)
  BY DEF Raise
<1>2. Around /\ Len(jobs') = Len(jobs) /\ Len(jobs) \in Nat
  BY <1>1, RowIs, Counted, Unmoved
<1>3. CASE Drops(p)
  BY <1>2, <1>3, DropsGoal
<1>4. CASE SavesUnlessNewer(p, e)
  <2>1. PassTyped(pass[p], Len(jobs)) /\ Within(pass[p].copy, regenerated)
    BY RowIs
  <2>2. /\ Typed(pass[p].copy, Len(jobs)) /\ i \in DOMAIN pass[p].copy.assets
        /\ pass[p].copy \in Episode
    BY <2>1 DEF PassTyped, Typed
  <2>3. a \in Asset /\ a.job <= Len(jobs)
    BY <1>2, TurnOf
  <2>4. Reworked(a, b, Len(jobs))
    BY <1>2, <2>3, ReworkedIs
  <2>5. e = [pass[p].copy EXCEPT !.assets[i] = b]
    BY <2>2 DEF Episode
  <2> HIDE DEF b
  <2>6. Typed(e, Len(jobs)) /\ SameRecordings(pass[p].copy, e)
    BY <1>2, <2>2, <2>4, <2>5, AssetWorked
  <2> HIDE DEF e
  <2>7. Typed(e, Len(jobs')) /\ Within(e, regenerated')
    BY <1>1, <1>2, <2>1, <2>2, <2>6, SameWithin
  <2> QED
    BY <1>2, <1>4, <2>7, PassSavesGoal
<1> QED
  BY <1>1, <1>3, <1>4

LEMMA PassEndGoal ==
  ASSUME RInv, NEW p \in Process, PassEnd(p)
  PROVE  RInv'
<1> DEFINE e == pass[p].copy
<1>1. UNCHANGED <<jobs, regenerated, requests, faults>> /\ SavesUnlessNewer(p, e)
  BY DEF PassEnd
<1>2. Around /\ Len(jobs') = Len(jobs)
  BY <1>1, RowIs, Counted, Unmoved
<1>3. Typed(e, Len(jobs')) /\ Within(e, regenerated')
  BY <1>1, <1>2, RowIs DEF PassTyped
<1> HIDE DEF e
<1> QED
  BY <1>1, <1>2, <1>3, PassSavesGoal

LEMMA KillGoal ==
  ASSUME RInv, NEW p \in Process, Kill(p)
  PROVE  RInv'
<1>1. UNCHANGED <<jobs, regenerated, requests>> /\ Fault /\ Drops(p)
  BY DEF Kill
<1>2. Around
  BY <1>1, MayStop
<1> QED
  BY <1>1, <1>2, DropsGoal

LEMMA StillGoal ==
  ASSUME RInv, Around, UNCHANGED <<row, pass>>
  PROVE  RInv'
<1>1. TInv'
  BY Meanwhile DEF RInv, TInv, Around
<1>2. Within(row, regenerated') /\ \A p \in Process : Within(pass[p].copy, regenerated')
  BY Meanwhile DEF RInv
<1> QED
  BY <1>1, <1>2 DEF RInv, Within

LEMMA FinishGoal ==
  ASSUME RInv, NEW k \in DOMAIN jobs, Finish(k)
  PROVE  RInv'
<1>1. TInv /\ UNCHANGED <<row, pass, regenerated, requests>> /\ (UNCHANGED faults \/ Fault)
  BY DEF RInv, Finish
<1>2. \E s \in JobState : jobs' = [jobs EXCEPT ![k] = s]
  BY DEF Finish, JobState
<1>3. jobs \in Seq(JobState) /\ Len(jobs) \in Nat /\ Len(jobs) <= MaxJobs
  BY <1>1 DEF TInv
<1>4. jobs' \in Seq(JobState) /\ Len(jobs') = Len(jobs)
  BY <1>2, <1>3, SeqUpdated
<1>5. Around
  BY <1>1, <1>3, <1>4, Counted DEF Around, TInv
<1> QED
  BY <1>1, <1>5, StillGoal

LEMMA NextRInv == RInv /\ [Next]_vars => RInv'
<1> SUFFICES ASSUME RInv, [Next]_vars PROVE RInv'
  OBVIOUS
<1>1. ASSUME UNCHANGED vars PROVE RInv'
  <2>1. Around
    BY <1>1, RowIs, Unmoved, Counted DEF vars
  <2> QED
    BY <1>1, <2>1, StillGoal DEF vars
<1>2. ASSUME NEW p \in Process, Step(p) PROVE RInv'
  BY <1>2, PassEndGoal, CancelFirstGoal, SubmitGoal, RefuseGoal, CancelJobGoal, SyncJobGoal DEF Step
<1> QED
  BY <1>1, <1>2, DecideGoal, ReviseGoal, WorkerStartGoal, PlanRequestGoal, GenerateGoal,
     ProduceGoal, CancelRequestGoal, SyncRequestGoal, PollGoal, KillGoal, RaiseGoal, FinishGoal
  DEF Next

(* The row and the copies of the passes are episodes, todo names assets of *)
(* the copy, and no more jobs are recorded than the provider took.         *)
THEOREM SpeechTypes == Spec => []TypeOK
<1>1. TInv => TypeOK
  BY DEF TInv, TypeOK, Typed, PassTyped, Pass, JobState
<1>2. RInv => TypeOK
  BY <1>1 DEF RInv
<1> QED
  BY <1>2, InitRInv, NextRInv, PTL DEF Spec

(* A turn has a second recording only if its version was to be            *)
(* regenerated, whichever of the passes on old copies saved last: with     *)
(* either worker, for any number of turns, versions and requests.          *)
THEOREM RecordsOnce == Spec => []OneRecording
<1>1. RInv => OneRecording
  BY DEF RInv, Within, OneRecording
<1> QED
  BY <1>1, InitRInv, NextRInv, PTL DEF Spec
=============================================================================
