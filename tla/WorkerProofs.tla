---------------------------- MODULE WorkerProofs ----------------------------
(***************************************************************************)
(* What the worker processes rely on: the lease that makes one of them the *)
(* worker, the version check that guards its saves, and the log of its     *)
(* passes.  Each part has an inductive invariant of its own.               *)
(***************************************************************************)
EXTENDS WorkerLease, EpisodeStore, OrchestrationLog, TLAPS

-----------------------------------------------------------------------------
(***************************************************************************)
(* Theorems about WorkerLease, for any number of processes and any times:  *)
(* no two running leases are granted unless the lock was taken from its    *)
(* user.  ExclusiveGrant is not inductive: it holds because a process that *)
(* is about to write has the lock, has read a lease that cannot come back  *)
(* to life, and because every running grant is backed by the lease file.   *)
(***************************************************************************)
\* Whoever is inside the lock created the lock file.
LockHeld == \A w \in Worker : pc[w] \in Critical => lock.by = w

\* A grant that still runs is the lease on file, which runs at least as long.
GrantBacked == \A w \in Worker : grant[w] > 0 => lease.owner = w /\ lease.left >= grant[w]

\* What a process has read stays true until it writes.
WriteGrounded ==
  \A w \in Worker : pc[w] = "write" => lease.owner \in {w, Nobody} \/ lease.left <= 0

\* A process that is about to remove a lease removes its own.
RemoveGrounded == \A w \in Worker : pc[w] = "remove" => lease.owner \in {w, Nobody}

LInv ==
  /\ TypeOK
  /\ ~robbed => LockHeld /\ GrantBacked /\ WriteGrounded /\ RemoveGrounded

(* The invariant is strong enough for the property.                        *)
LEMMA LInvImpliesExclusive == LInv => ExclusiveGrant
  BY DEF LInv, ExclusiveGrant, GrantBacked

(* The initial state: no lock, no lease, nobody in a call.                 *)
LEMMA LInvInit == Init => LInv
<1> SUFFICES ASSUME Init PROVE LInv
  OBVIOUS
<1> USE LeaseAssumption DEF LeaseAssumption
<1>1. TypeOK
  <2>1. pc \in [Worker -> PC] /\ call \in [Worker -> Call]
    BY DEF Init, Call, PC
  <2>2. lag \in [Worker -> Nat] /\ grant \in [Worker -> 0..Ttl]
    BY DEF Init
  <2>3. lease \in [owner : Worker \cup {Nobody}, left : Int] /\ lease.left <= Ttl
    BY DEF Init, NoLease
  <2>4. lock \in [by : Worker \cup {Nobody}, age : Nat]
    BY DEF Init, NoLock
  <2> QED
    BY <2>1, <2>2, <2>3, <2>4 DEF Init, TypeOK
<1>2. LockHeld /\ GrantBacked /\ WriteGrounded /\ RemoveGrounded
  BY DEF Init, LockHeld, GrantBacked, WriteGrounded, RemoveGrounded, NoLease, Critical
<1> QED
  BY <1>1, <1>2 DEF LInv

(* Every step keeps the types; the lease never runs longer than its time   *)
(* to live, because a late writer loses the time it was held up.           *)
LEMMA TypeStep == TypeOK /\ [Next]_vars => TypeOK'
<1> SUFFICES ASSUME TypeOK, [Next]_vars PROVE TypeOK'
  OBVIOUS
<1> USE LeaseAssumption DEF LeaseAssumption, TypeOK
<1>1. ASSUME NEW w \in Worker, Acquire(w) \/ Renew(w) \/ Release(w) PROVE TypeOK'
  BY <1>1 DEF Acquire, Renew, Release, Enter, Goto, Call, PC, InCall, Waiting
<1>2. ASSUME NEW w \in Worker, Open(w) PROVE TypeOK'
  BY <1>2 DEF Open, Goto, PC, InCall, Waiting, Critical
<1>3. ASSUME NEW w \in Worker, Stat(w) PROVE TypeOK'
  BY <1>3 DEF Stat, Goto, PC, InCall, Waiting
<1>4. ASSUME NEW w \in Worker, Unlink(w) PROVE TypeOK'
  BY <1>4 DEF Unlink, RemoveLock, NoLock, Goto, PC, InCall, Waiting
<1>5. ASSUME NEW w \in Worker, Read(w) PROVE TypeOK'
  BY <1>5 DEF Read, Goto, PC, InCall, Critical
<1>6. ASSUME NEW w \in Worker, Write(w) PROVE TypeOK'
  <2>1. lag[w] \in Nat
    OBVIOUS
  <2> QED
    BY <1>6, <2>1 DEF Write, Goto, PC, InCall, Critical
<1>7. ASSUME NEW w \in Worker, Remove(w) PROVE TypeOK'
  BY <1>7 DEF Remove, NoLease, Goto, PC, InCall, Critical
<1>8. ASSUME NEW w \in Worker, Unlock(w) PROVE TypeOK'
  BY <1>8 DEF Unlock, RemoveLock, NoLock, Goto, PC
<1>9. ASSUME NEW w \in Worker, Crash(w) \/ Restart(w) PROVE TypeOK'
  BY <1>9 DEF Crash, Restart, Goto, PC
<1>10. CASE StatusRead
  BY <1>10 DEF StatusRead
<1>11. CASE StatusPrune
  <2>1. robbed' \in BOOLEAN
    <3>1. CASE lease.left > 0
      BY <1>11, <3>1, Zenon DEF StatusPrune
    <3>2. CASE ~(lease.left > 0)
      BY <1>11, <3>2, Zenon DEF StatusPrune
    <3> QED
      BY <3>1, <3>2
  <2>2. pruning' \in BOOLEAN
    BY <1>11 DEF StatusPrune
  <2>3. lease' = NoLease /\ UNCHANGED <<lock, pc, call, lag, grant, stops>>
    BY <1>11 DEF StatusPrune
  <2> QED
    BY <2>1, <2>2, <2>3 DEF NoLease
<1>12. CASE Tick
  <2>1. lease' \in [owner : Worker \cup {Nobody}, left : Int] /\ lease'.left <= Ttl
    BY <1>12 DEF Tick
  <2>2. lock' \in [by : Worker \cup {Nobody}, age : Nat]
    BY <1>12 DEF Tick
  <2>3. lag' \in [Worker -> Nat] /\ grant' \in [Worker -> 0..Ttl]
    BY <1>12 DEF Tick
  <2> QED
    BY <1>12, <2>1, <2>2, <2>3 DEF Tick
<1>13. CASE UNCHANGED vars
  BY <1>13 DEF vars
<1> QED
  BY <1>1, <1>2, <1>3, <1>4, <1>5, <1>6, <1>7, <1>8, <1>9, <1>10, <1>11, <1>12, <1>13
  DEF Next, Step

(* The part of the invariant that holds while nobody was robbed, one       *)
(* operation at a time.                                                    *)
LEMMA GroundedStep ==
  ASSUME LInv, [Next]_vars, ~robbed'
  PROVE  LockHeld' /\ GrantBacked' /\ WriteGrounded' /\ RemoveGrounded'
<1> USE LeaseAssumption DEF LeaseAssumption
<1>a. TypeOK /\ TypeOK'
  BY TypeStep DEF LInv
<1>b. ~robbed
  BY <1>a DEF vars, Next, Step, Acquire, Renew, Release, Enter, Open, Stat, Unlink,
     RemoveLock, Read, Write, Remove, Unlock, Crash, Restart, StatusRead, StatusPrune, Tick,
     TypeOK
<1>c. LockHeld /\ GrantBacked /\ WriteGrounded /\ RemoveGrounded
  BY <1>b DEF LInv
<1> DEFINE Goal == LockHeld' /\ GrantBacked' /\ WriteGrounded' /\ RemoveGrounded'
<1>1. ASSUME NEW w \in Worker, Acquire(w) \/ Renew(w) \/ Release(w) PROVE Goal
  BY <1>1, <1>a, <1>c
  DEF Acquire, Renew, Release, Enter, Goto, TypeOK, LockHeld, GrantBacked, WriteGrounded,
      RemoveGrounded, Critical
<1>2. ASSUME NEW w \in Worker, Open(w) PROVE Goal
  BY <1>2, <1>a, <1>c
  DEF Open, Goto, NoLock, TypeOK, LockHeld, GrantBacked, WriteGrounded, RemoveGrounded, Critical
<1>3. ASSUME NEW w \in Worker, Stat(w) PROVE Goal
  BY <1>3, <1>a, <1>c
  DEF Stat, Goto, TypeOK, LockHeld, GrantBacked, WriteGrounded, RemoveGrounded, Critical
<1>4. ASSUME NEW w \in Worker, Unlink(w) PROVE Goal
  \* Nobody else is inside, or the removal would have robbed them.
  <2>1. \A v \in Worker \ {w} : pc[v] \notin Critical
    BY <1>4, <1>c DEF Unlink, RemoveLock, LockHeld
  <2> QED
    BY <1>4, <1>a, <1>c, <2>1
    DEF Unlink, Goto, TypeOK, LockHeld, GrantBacked, WriteGrounded, RemoveGrounded, Critical
<1>5. ASSUME NEW w \in Worker, Read(w) PROVE Goal
  <2>1. lag[w] \in Nat /\ lease.left \in Int
    BY <1>a DEF TypeOK
  <2> QED
    BY <1>5, <1>a, <1>c, <2>1
    DEF Read, Refused, Goto, TypeOK, LockHeld, GrantBacked, WriteGrounded, RemoveGrounded,
        Critical
<1>6. ASSUME NEW w \in Worker, Write(w) PROVE Goal
  \* The lease that is overwritten backs no grant of another process.
  <2>1. \A v \in Worker \ {w} : grant[v] = 0
    BY <1>6, <1>a, <1>c DEF Write, WriteGrounded, GrantBacked, TypeOK
  <2>2. \A v \in Worker \ {w} : pc[v] \notin Critical
    BY <1>6, <1>c DEF Write, LockHeld, Critical
  <2>3. LockHeld'
    BY <1>6, <1>a, <1>c, <2>2 DEF Write, Goto, TypeOK, LockHeld, Critical
  <2>4. GrantBacked'
    BY <1>6, <1>a, <2>1 DEF Write, TypeOK, GrantBacked
  <2>5. WriteGrounded' /\ RemoveGrounded'
    BY <1>6, <1>a, <2>2 DEF Write, Goto, TypeOK, WriteGrounded, RemoveGrounded, Critical
  <2> QED
    BY <2>3, <2>4, <2>5
<1>7. ASSUME NEW w \in Worker, Remove(w) PROVE Goal
  <2>1. \A v \in Worker \ {w} : grant[v] = 0
    BY <1>7, <1>a, <1>c DEF Remove, RemoveGrounded, GrantBacked, TypeOK
  <2> QED
    BY <1>7, <1>a, <1>c, <2>1
    DEF Remove, NoLease, Goto, TypeOK, LockHeld, GrantBacked, WriteGrounded, RemoveGrounded,
        Critical
<1>8. ASSUME NEW w \in Worker, Unlock(w) PROVE Goal
  <2>1. \A v \in Worker \ {w} : pc[v] \notin Critical
    BY <1>8, <1>c DEF Unlock, RemoveLock, LockHeld
  <2> QED
    BY <1>8, <1>a, <1>c, <2>1
    DEF Unlock, Goto, TypeOK, LockHeld, GrantBacked, WriteGrounded, RemoveGrounded, Critical
<1>9. ASSUME NEW w \in Worker, Crash(w) \/ Restart(w) PROVE Goal
  BY <1>9, <1>a, <1>c
  DEF Crash, Restart, Goto, TypeOK, LockHeld, GrantBacked, WriteGrounded, RemoveGrounded,
      Critical
<1>10. CASE StatusRead
  BY <1>10, <1>c DEF StatusRead, LockHeld, GrantBacked, WriteGrounded, RemoveGrounded
<1>11. CASE StatusPrune
  \* A lease that is not running backs no grant.
  <2>a. ~(lease.left > 0)
    BY <1>11 DEF StatusPrune
  <2>1. \A v \in Worker : grant[v] = 0
    BY <2>a, <1>a, <1>c DEF GrantBacked, TypeOK
  <2> QED
    BY <1>11, <1>a, <1>c, <2>1
    DEF StatusPrune, NoLease, LockHeld, GrantBacked, WriteGrounded, RemoveGrounded
<1>12. CASE Tick
  <2>1. lock'.by = lock.by /\ lease'.owner = lease.owner /\ pc' = pc
    BY <1>12, <1>a DEF Tick, TypeOK
  <2>2. lease'.left <= lease.left /\ (lease.left > 0 => lease'.left >= lease.left - 1)
    BY <1>12, <1>a DEF Tick, TypeOK
  <2>3. LockHeld' /\ RemoveGrounded'
    BY <1>c, <2>1 DEF LockHeld, RemoveGrounded
  <2>4. GrantBacked'
    BY <1>12, <1>a, <1>c, <2>1, <2>2 DEF Tick, TypeOK, GrantBacked
  <2>5. WriteGrounded'
    BY <1>a, <1>c, <2>1, <2>2 DEF WriteGrounded, TypeOK
  <2> QED
    BY <2>3, <2>4, <2>5
<1>13. CASE UNCHANGED vars
  BY <1>13, <1>c DEF vars, LockHeld, GrantBacked, WriteGrounded, RemoveGrounded
<1> QED
  BY <1>1, <1>2, <1>3, <1>4, <1>5, <1>6, <1>7, <1>8, <1>9, <1>10, <1>11, <1>12, <1>13
  DEF Next, Step

(* The inductive invariant holds in every behaviour of the lease.          *)
THEOREM LeaseInvariance == Spec => []LInv
<1>1. LInv /\ [Next]_vars => LInv'
  BY TypeStep, GroundedStep DEF LInv
<1> QED
  BY LInvInit, <1>1, PTL DEF Spec

(* Type correctness, with the bound Ttl on how long a lease may run.       *)
THEOREM LeaseTypes == Spec => []TypeOK
<1>1. LInv => TypeOK
  BY DEF LInv
<1> QED
  BY LeaseInvariance, <1>1, PTL

(* For every number of processes and all times: unless a lock was removed  *)
(* under its user or a running lease pruned, at most one process of a role *)
(* has a lease that is still running.                                      *)
THEOREM LeaseExclusive == Spec => []ExclusiveGrant
  BY LeaseInvariance, LInvImpliesExclusive, PTL

-----------------------------------------------------------------------------
(* The refinement of RoleHolder.                                           *)

(* While nobody was robbed, the holder is the process with a running grant.*)
LEMMA HolderIs ==
  ASSUME LInv, ~robbed
  PROVE  /\ \A w \in Worker : grant[w] > 0 => Holder = w /\ Left = grant[w]
         /\ (\A w \in Worker : grant[w] = 0) => Holder = Nobody /\ Left = 0
<1>1. ASSUME NEW w \in Worker, grant[w] > 0 PROVE Holder = w /\ Left = grant[w]
  <2>1. Running = {w}
    BY <1>1, LInvImpliesExclusive DEF ExclusiveGrant, Running
  <2>2. Holder = w
    BY <1>1, <2>1 DEF Holder
  <2> QED
    BY <1>1, <2>2, LeaseAssumption DEF Left, LeaseAssumption
<1>2. ASSUME \A w \in Worker : grant[w] = 0 PROVE Holder = Nobody /\ Left = 0
  <2>1. Running = {}
    BY <1>2 DEF Running
  <2> QED
    BY <2>1 DEF Holder, Left
<1> QED
  BY <1>1, <1>2

(* A step of the lease that leaves the grants and the lock's users alone   *)
(* is no step of the promise.                                              *)
LEMMA SameGrants ==
  ASSUME LInv, LInv', ~robbed, ~robbed', grant' = grant
  PROVE  Holder' = Holder /\ Left' = Left
<1>1. CASE \E w \in Worker : grant[w] > 0
  <2>1. PICK w \in Worker : grant[w] > 0
    BY <1>1
  <2>2. Holder = w /\ Left = grant[w]
    BY <2>1, HolderIs
  <2>3. Running' = Running
    BY DEF Running
  <2> QED
    BY <2>3 DEF Holder, Left
<1>2. CASE ~\E w \in Worker : grant[w] > 0
  <2>1. Running' = {} /\ Running = {}
    BY <1>2 DEF Running
  <2> QED
    BY <2>1 DEF Holder, Left
<1> QED
  BY <1>1, <1>2

(* One process losing its grant gives the role up, or had nothing to give. *)
LEMMA GrantDropped ==
  ASSUME LInv, LInv', ~robbed, ~robbed',
         NEW w \in Worker, grant' = [grant EXCEPT ![w] = 0]
  PROVE  Promise!GiveUp \/ UNCHANGED <<Holder, Left>>
<1>a. grant \in [Worker -> 0..Ttl] /\ robbed' = robbed
  BY DEF LInv, TypeOK
<1>1. CASE grant[w] > 0
  <2>1. Holder = w /\ w # Nobody
    BY <1>1, HolderIs, LeaseAssumption DEF LeaseAssumption
  <2>2. \A v \in Worker : grant'[v] = 0
    BY <1>1, <1>a, LInvImpliesExclusive, LeaseAssumption DEF ExclusiveGrant, LeaseAssumption
  <2>3. Holder' = Nobody /\ Left' = 0
    BY <2>2 DEF Holder, Left, Running
  <2> QED
    BY <1>a, <2>1, <2>3 DEF Promise!GiveUp, Promise!Vacant
<1>2. CASE ~(grant[w] > 0)
  <2>1. grant' = grant
    BY <1>2, <1>a, LeaseAssumption DEF LeaseAssumption
  <2> QED
    BY <2>1, SameGrants
<1> QED
  BY <1>1, <1>2

(* The first state: the role is vacant.                                    *)
LEMMA PromiseInit == Init => Promise!Init
  BY DEF Init, Promise!Init, Holder, Left, Running

(* Every step of the lease is a step of the promise or leaves it alone.    *)
LEMMA PromiseStep ==
  LInv /\ LInv' /\ [Next]_vars => [Promise!Next]_<<Holder, Left, robbed>>
<1> SUFFICES ASSUME LInv, LInv', [Next]_vars
             PROVE  Promise!Next \/ UNCHANGED <<Holder, Left, robbed>>
  OBVIOUS
<1> USE LeaseAssumption DEF LeaseAssumption
<1>a. TypeOK /\ TypeOK'
  BY DEF LInv
<1>b. robbed => robbed'
  BY <1>a DEF vars, Next, Step, Acquire, Renew, Release, Enter, Open, Stat, Unlink,
     RemoveLock, Read, Write, Remove, Unlock, Crash, Restart, StatusRead, StatusPrune, Tick,
     TypeOK
<1>1. CASE robbed
  BY <1>1, <1>a, <1>b DEF Holder, Left, TypeOK
<1>2. CASE ~robbed /\ robbed'
  \* Nobody counts as the holder any more.
  <2>1. Holder' = Nobody /\ Left' = 0
    BY <1>2 DEF Holder, Left
  <2>2. robbed' = TRUE
    BY <1>2, <1>a DEF TypeOK
  <2> QED
    BY <1>2, <2>1, <2>2 DEF Promise!Next, Promise!Void, Promise!Vacant
<1>3. CASE ~robbed /\ ~robbed'
  <2> USE <1>3
  <2>a. LockHeld /\ GrantBacked /\ WriteGrounded /\ RemoveGrounded
    BY DEF LInv
  <2>b. robbed' = robbed
    BY <1>a DEF TypeOK
  <2> DEFINE Goal == Promise!Next \/ UNCHANGED <<Holder, Left, robbed>>
  <2>1. CASE grant' = grant
    BY <2>1, <2>b, SameGrants
  <2>2. ASSUME NEW w \in Worker, Write(w) PROVE Goal
    <3>1. \A v \in Worker \ {w} : grant[v] = 0 /\ grant'[v] = 0
      BY <2>2, <1>a, <2>a DEF Write, WriteGrounded, GrantBacked, TypeOK
    <3>2. Holder \in {w, Nobody}
      <4>1. CASE grant[w] > 0
        BY <4>1, HolderIs
      <4>2. CASE ~(grant[w] > 0)
        BY <4>2, <3>1, <1>a, HolderIs DEF TypeOK
      <4> QED
        BY <4>1, <4>2
    <3>3. CASE grant'[w] > 0
      <4>1. Running' = {w}
        BY <3>1, <3>3 DEF Running
      <4>2. Holder' = w /\ Left' = grant'[w]
        BY <4>1 DEF Holder, Left
      <4>3. grant'[w] \in 1..Ttl
        BY <3>3, <1>a DEF TypeOK
      <4>4. Promise!Take(w)
        BY <3>2, <4>2, <4>3, <2>b DEF Promise!Take
      <4> QED
        BY <4>4 DEF Promise!Next
    <3>4. CASE ~(grant'[w] > 0)
      <4>1. Running' = {}
        BY <3>1, <3>4 DEF Running
      <4>2. Holder' = Nobody /\ Left' = 0
        BY <4>1 DEF Holder, Left
      <4>3. CASE Holder = Nobody
        BY <4>2, <4>3, <2>b DEF Left
      <4>4. CASE Holder # Nobody
        BY <4>2, <4>4, <2>b DEF Promise!Next, Promise!GiveUp, Promise!Vacant
      <4> QED
        BY <4>3, <4>4
    <3> QED
      BY <3>3, <3>4
  <2>3. ASSUME NEW w \in Worker, Remove(w) \/ Crash(w) PROVE Goal
    <3>1. grant' = [grant EXCEPT ![w] = 0]
      BY <2>3 DEF Remove, Crash
    <3>2. Promise!GiveUp \/ UNCHANGED <<Holder, Left>>
      BY <3>1, GrantDropped
    <3> QED
      BY <3>2, <2>b DEF Promise!Next
  <2>4. ASSUME NEW w \in Worker, Stat(w) PROVE Goal
    <3>1. grant' = grant \/ grant' = [grant EXCEPT ![w] = 0]
      BY <2>4 DEF Stat
    <3>2. CASE grant' = [grant EXCEPT ![w] = 0]
      BY <3>2, <2>b, GrantDropped DEF Promise!Next
    <3> QED
      BY <2>1, <3>1, <3>2
  <2>5. CASE Tick
    <3>1. grant' = [w \in Worker |-> IF grant[w] = 0 THEN 0 ELSE grant[w] - 1]
      BY <2>5 DEF Tick
    <3>2. CASE \E w \in Worker : grant[w] > 0
      <4>1. PICK w \in Worker : grant[w] > 0
        BY <3>2
      <4>2. Holder = w /\ Left = grant[w]
        BY <4>1, HolderIs
      <4>3. \A v \in Worker \ {w} : grant[v] = 0 /\ grant'[v] = 0
        BY <4>1, <3>1, <1>a, LInvImpliesExclusive DEF ExclusiveGrant, TypeOK
      <4>4. grant'[w] = Left - 1 /\ grant[w] \in Nat
        BY <4>1, <4>2, <3>1, <1>a DEF TypeOK
      <4>5. CASE grant'[w] = 0
        <5>1. Running' = {}
          BY <4>3, <4>5 DEF Running
        <5>2. Holder' = Nobody /\ Left' = 0
          BY <5>1 DEF Holder, Left
        <5> QED
          BY <4>2, <4>4, <4>5, <5>2, <2>b DEF Promise!Next, Promise!Pass
      <4>6. CASE grant'[w] # 0
        <5>1. Running' = {w}
          BY <4>1, <4>2, <4>3, <4>4, <4>6 DEF Running
        <5>2. Holder' = w /\ Left' = Left - 1
          BY <5>1, <4>4 DEF Holder, Left
        <5> QED
          BY <4>2, <4>4, <4>6, <5>2, <2>b DEF Promise!Next, Promise!Pass
      <4> QED
        BY <4>5, <4>6
    <3>3. CASE ~\E w \in Worker : grant[w] > 0
      <4>1. grant' = grant
        <5>1. \A w \in Worker : grant[w] = 0
          BY <3>3, <1>a DEF TypeOK
        <5> QED
          BY <5>1, <3>1, <1>a DEF TypeOK
      <4> QED
        BY <4>1, <2>1
    <3> QED
      BY <3>2, <3>3
  <2> QED
    BY <2>1, <2>2, <2>3, <2>4, <2>5
    DEF vars, Next, Step, Acquire, Renew, Release, Enter, Open, Unlink, Read, Unlock,
        Restart, StatusRead, StatusPrune
<1> QED
  BY <1>a, <1>1, <1>2, <1>3 DEF TypeOK

(* The lease implements RoleHolder, for every number of processes and all  *)
(* times: the role passes on only over a vacancy.                          *)
THEOREM LeaseKeepsPromise == Spec => KeepsPromise
<1>1. LInv /\ LInv' /\ [Next]_vars => [Promise!Next]_(Promise!promise)
  BY PromiseStep DEF Promise!promise
<1> QED
  BY LeaseInvariance, PromiseInit, <1>1, PTL DEF Spec, KeepsPromise, Promise!Spec

-----------------------------------------------------------------------------
(***************************************************************************)
(* Theorems about EpisodeStore, for any set of requests and any pass.  The *)
(* version check of the worker compares updated_at values, so the proof is *)
(* about what a value of updated_at tells: it never names two contents,    *)
(* and an edit in a row was stamped no later than the row.                 *)
(***************************************************************************)
\* No version in use is ahead of the clock.
ClockAhead ==
  /\ db.ver <= clock /\ seen.ver <= clock /\ cached.ver <= clock /\ stamp <= clock
  /\ \A e \in Edit : copy[e].ver <= clock

\* Rows with the same version have the same edits.
VersionsName ==
  /\ \A e, f \in Edit : copy[e].ver = copy[f].ver => copy[e].edits = copy[f].edits
  /\ \A e \in Edit : copy[e].ver = db.ver => copy[e].edits = db.edits
  /\ \A e \in Edit : copy[e].ver = cached.ver => copy[e].edits = cached.edits
  /\ cached.ver = db.ver => cached.edits = db.edits

\* The version the worker is about to save under is in nobody else's hands.
StampUnused ==
  wpc = "commit" => /\ stamp # db.ver /\ stamp > cached.ver
                    /\ \A e \in Edit : copy[e].ver # stamp

\* An edit in a row was stamped, and no later than the row.
Covers(row) == \A e \in row.edits : phase[e] \in {"stamped", "done"} /\ copy[e].ver <= row.ver
Covered ==
  /\ Covers(db) /\ Covers(seen) /\ Covers(cached)
  /\ \A e \in Edit : Covers(copy[e])

\* What the worker saves was current when the worker last looked.
Checked ==
  /\ cachedVer = cached.ver
  /\ wpc \in {"stamp", "commit"} => seen.ver <= cached.ver

StoreInv == StoreTypeOK /\ ClockAhead /\ VersionsName /\ StampUnused /\ Covered /\ Checked

(* Every step keeps the types.                                             *)
LEMMA StoreTypeStep == StoreTypeOK /\ [StoreNext]_storeVars => StoreTypeOK'
<1> SUFFICES ASSUME StoreTypeOK, [StoreNext]_storeVars PROVE StoreTypeOK'
  OBVIOUS
<1>a. Len(Path) \in Nat \ {0} /\ \A i \in 1..Len(Path) : Path[i] \in PathStep
  BY StoreAssumption DEF StoreAssumption
<1> USE DEF StoreTypeOK, Row
<1>1. ASSUME NEW e \in Edit, Load(e) PROVE StoreTypeOK'
  BY <1>1 DEF Load, snapshots
<1>2. ASSUME NEW e \in Edit, Stamp(e) PROVE StoreTypeOK'
  <2>1. copy' = [copy EXCEPT ![e] = [copy[e] EXCEPT !.ver = clock + 1, !.edits = @ \cup {e}]]
    BY <1>2 DEF Stamp
  <2>2. [copy[e] EXCEPT !.ver = clock + 1, !.edits = @ \cup {e}] \in Row
    <3>1. copy[e] \in Row /\ clock + 1 \in Nat
      OBVIOUS
    <3>2. copy[e].edits \cup {e} \in SUBSET Edit
      BY <3>1
    <3> HIDE DEF StoreTypeOK
    <3> QED
      BY <3>1, <3>2
  <2>3. copy' \in [Edit -> Row]
    BY <2>1, <2>2
  <2> QED
    BY <1>2, <2>3 DEF Stamp, snapshots
<1>3. ASSUME NEW e \in Edit, Commit(e) PROVE StoreTypeOK'
  BY <1>3 DEF Commit, snapshots
<1>4. CASE StartPass
  BY <1>a, <1>4 DEF StartPass, Refresh, requests
<1>5. CASE Admit
  <2>1. admitted' \in BOOLEAN
    BY <1>5, Zenon DEF Admit, Admissible
  <2> QED
    BY <1>a, <1>5, <2>1 DEF Admit, NextStage, requests
<1>6. CASE Work
  <2>1. at \in Stage
    BY <1>6 DEF Work, Stage
  <2> QED
    BY <1>6, <2>1 DEF Work, requests
<1>7. CASE Skip
  BY <1>a, <1>7 DEF Skip, NextStage, requests, snapshots
<1>8. CASE CheckActive
  BY <1>a, <1>8 DEF CheckActive, NextStage, requests, snapshots
<1>9. CASE RefreshActive
  BY <1>a, <1>9 DEF RefreshActive, Refresh, NextStage, requests
<1>10. CASE CheckCached
  BY <1>a, <1>10 DEF CheckCached, Adopt, Saved, NextStage, requests
<1>11. CASE WorkerStamp
  BY <1>11 DEF WorkerStamp, requests, snapshots
<1>12. CASE WorkerCommit
  <2>1. cached' = [cached EXCEPT !.ver = stamp] /\ db' = cached' /\ cachedVer' = stamp
    BY <1>12 DEF WorkerCommit
  <2>2. cached' \in Row /\ db' \in Row
    BY <2>1
  <2>3. activeVer' \in Nat
    BY <1>12 DEF WorkerCommit, Saved
  <2>4. wpc' \in {"idle", "work"} /\ at' \in 1..Len(Path)
    BY <1>a, <1>12 DEF WorkerCommit, NextStage
  <2> QED
    BY <1>12, <2>1, <2>2, <2>3, <2>4 DEF WorkerCommit, requests
<1>13. CASE UNCHANGED storeVars
  BY <1>13 DEF storeVars, requests, snapshots
<1> QED
  BY <1>1, <1>2, <1>3, <1>4, <1>5, <1>6, <1>7, <1>8, <1>9, <1>10, <1>11, <1>12, <1>13
  DEF StoreNext, WorkerProcess

(* Every step keeps the invariant.                                         *)
LEMMA StoreStep == StoreInv /\ [StoreNext]_storeVars => StoreInv'
<1> SUFFICES ASSUME StoreInv, [StoreNext]_storeVars PROVE StoreInv'
  OBVIOUS
<1>a. StoreTypeOK /\ StoreTypeOK'
  BY StoreTypeStep DEF StoreInv
<1> DEFINE Goal == ClockAhead' /\ VersionsName' /\ StampUnused' /\ Covered' /\ Checked'
<1>b. SUFFICES Goal
  BY <1>a DEF StoreInv
<1> USE DEF StoreInv, ClockAhead, VersionsName, StampUnused, Covered, Covers, Checked
<1>1. ASSUME NEW e \in Edit, Load(e) PROVE Goal
  \* An edit that is only being loaded is in no row.
  <2>1. e \notin db.edits /\ e \notin seen.edits /\ e \notin cached.edits
        /\ \A f \in Edit : e \notin copy[f].edits
    BY <1>1 DEF Load
  <2>2. copy' = [copy EXCEPT ![e] = db] /\ phase' = [phase EXCEPT ![e] = "loaded"]
        /\ UNCHANGED <<clock, db, seen, cached, cachedVer, stamp, wpc>>
    BY <1>1 DEF Load, snapshots
  <2>3. ClockAhead' /\ VersionsName' /\ StampUnused' /\ Checked'
    BY <1>a, <2>2 DEF StoreTypeOK, Row
  <2>4. Covered'
    BY <1>a, <2>1, <2>2 DEF StoreTypeOK, Row
  <2> QED
    BY <2>3, <2>4
<1>2. ASSUME NEW e \in Edit, Stamp(e) PROVE Goal
  <2>1. e \notin db.edits /\ e \notin seen.edits /\ e \notin cached.edits
        /\ \A f \in Edit : e \notin copy[f].edits
    BY <1>2 DEF Stamp
  <2>2. /\ phase' = [phase EXCEPT ![e] = "stamped"] /\ clock' = clock + 1
        /\ UNCHANGED <<db, seen, cached, cachedVer, stamp, wpc>>
    BY <1>2 DEF Stamp, snapshots
  <2>3. /\ copy'[e].ver = clock + 1 /\ copy'[e].edits = copy[e].edits \cup {e}
        /\ \A f \in Edit \ {e} : copy'[f] = copy[f]
    BY <1>2, <1>a DEF Stamp, StoreTypeOK, Row
  <2>a. clock \in Nat /\ db.ver \in Nat /\ seen.ver \in Nat /\ cached.ver \in Nat
        /\ stamp \in Nat /\ \A f \in Edit : copy[f].ver \in Nat /\ copy'[f].ver \in Nat
    BY <1>a DEF StoreTypeOK, Row
  <2>b. ClockAhead'
    BY <2>a, <2>2, <2>3
  <2>c. VersionsName'
    <3>1. \A f \in Edit \ {e} : copy'[e].ver # copy'[f].ver
      BY <2>a, <2>3
    <3>2. copy'[e].ver # db.ver /\ copy'[e].ver # cached.ver
      BY <2>a, <2>3
    <3> QED
      BY <3>1, <3>2, <2>2, <2>3
  <2>d. StampUnused' /\ Checked'
    BY <2>a, <2>2, <2>3
  <2>4. ClockAhead' /\ VersionsName' /\ StampUnused' /\ Checked'
    BY <2>b, <2>c, <2>d
  <2>5. Covers(db)' /\ Covers(seen)' /\ Covers(cached)'
    BY <1>a, <2>1, <2>2, <2>3 DEF StoreTypeOK, Row
  <2>6. ASSUME NEW f \in Edit PROVE Covers(copy[f])'
    <3>a. copy[f].edits \subseteq Edit /\ e \notin copy[f].edits
      <4>1. copy[f] \in Row
        BY <1>a DEF StoreTypeOK
      <4> QED
        BY <4>1, <2>1 DEF Row
    <3>1. \A g \in copy[f].edits : g # e /\ g \in Edit /\ copy'[g].ver = copy[g].ver
      <4> HIDE DEF StoreInv, ClockAhead, VersionsName, StampUnused, Covered, Covers, Checked
      <4> QED
        BY <3>a, <2>3
    <3>2. CASE f = e
      <4>1. \A g \in copy[e].edits : phase'[g] \in {"stamped", "done"}
        BY <1>a, <2>2, <3>1, <3>2 DEF StoreTypeOK
      <4>2. \A g \in copy[e].edits : copy'[g].ver <= clock + 1
        BY <2>a, <3>1, <3>2
      <4>3. phase'[e] = "stamped" /\ copy'[e].ver <= copy'[e].ver
        BY <1>a, <2>a, <2>2 DEF StoreTypeOK
      <4> QED
        BY <2>3, <3>2, <4>1, <4>2, <4>3
    <3>3. CASE f # e
      BY <1>a, <2>2, <2>3, <3>1, <3>3 DEF StoreTypeOK
    <3> QED
      BY <3>2, <3>3
  <2> QED
    BY <2>4, <2>5, <2>6
<1>3. ASSUME NEW e \in Edit, Commit(e) PROVE Goal
  BY <1>3, <1>a DEF Commit, snapshots, StoreTypeOK, Row
<1>4. CASE StartPass
  BY <1>4, <1>a DEF StartPass, Refresh, requests, StoreTypeOK, Row
<1>5. CASE Admit
  BY <1>5, <1>a DEF Admit, NextStage, requests, StoreTypeOK, Row
<1>6. CASE Work
  <2>1. cached'.ver = cached.ver /\ cached'.edits = cached.edits
    BY <1>6, <1>a DEF Work, StoreTypeOK, Row
  <2> QED
    BY <1>6, <1>a, <2>1 DEF Work, requests, StoreTypeOK, Row
<1>7. CASE Skip
  BY <1>7, <1>a DEF Skip, NextStage, requests, snapshots, StoreTypeOK, Row
<1>8. CASE CheckActive
  BY <1>8, <1>a DEF CheckActive, NextStage, requests, snapshots, StoreTypeOK, Row
<1>9. CASE RefreshActive
  BY <1>9, <1>a DEF RefreshActive, Refresh, NextStage, requests, StoreTypeOK, Row
<1>10. CASE CheckCached
  BY <1>10, <1>a DEF CheckCached, Newer, Adopt, NextStage, requests, StoreTypeOK, Row
<1>11. CASE WorkerStamp
  BY <1>11, <1>a DEF WorkerStamp, requests, snapshots, StoreTypeOK, Row
<1>12. CASE WorkerCommit
  <2>1. cached'.ver = stamp /\ cached'.edits = cached.edits /\ db' = cached'
        /\ cachedVer' = stamp /\ wpc' \in {"work", "idle"}
        /\ UNCHANGED <<clock, phase, copy, seen, stamp>>
    BY <1>12, <1>a DEF WorkerCommit, NextStage, requests, StoreTypeOK, Row
  <2> QED
    BY <1>12, <1>a, <2>1 DEF WorkerCommit, StoreTypeOK, Row
<1>13. CASE UNCHANGED storeVars
  BY <1>13 DEF storeVars, requests, snapshots
<1> QED
  BY <1>1, <1>2, <1>3, <1>4, <1>5, <1>6, <1>7, <1>8, <1>9, <1>10, <1>11, <1>12, <1>13
  DEF StoreNext, WorkerProcess

(* The inductive invariant holds in every behaviour of the store.          *)
THEOREM StoreInvariance == StoreSpec => []StoreInv
<1>1. StoreInit => StoreInv
  <2> SUFFICES ASSUME StoreInit PROVE StoreInv
    OBVIOUS
  <2>1. Empty \in Row
    BY DEF Empty, Row
  <2>2. Len(Path) \in Nat \ {0}
    BY StoreAssumption DEF StoreAssumption
  <2>3. StoreTypeOK
    <3>1. phase \in [Edit -> {"ready", "loaded", "stamped", "done"}] /\ copy \in [Edit -> Row]
      BY <2>1 DEF StoreInit
    <3>2. db \in Row /\ seen \in Row /\ cached \in Row
      BY <2>1 DEF StoreInit
    <3>3. at \in 1..Len(Path)
      BY <2>2 DEF StoreInit
    <3> QED
      BY <3>1, <3>2, <3>3 DEF StoreInit, StoreTypeOK
  <2>4. ClockAhead /\ VersionsName /\ StampUnused /\ Covered /\ Checked
    BY DEF StoreInit, Empty, ClockAhead, VersionsName, StampUnused, Covered, Covers, Checked
  <2> QED
    BY <2>3, <2>4 DEF StoreInv
<1> QED
  BY <1>1, StoreStep, PTL DEF StoreSpec

(* For any set of requests and any pass: the row, the copies and the       *)
(* position in the pass keep their types.                                  *)
THEOREM StoreTypes == StoreSpec => []StoreTypeOK
<1>1. StoreInv => StoreTypeOK
  BY DEF StoreInv
<1> QED
  BY <1>1, StoreInvariance, PTL

(* For any set of requests and any pass: whoever holds the version of the  *)
(* row holds its edits.                                                    *)
THEOREM VersionsNameRows == StoreSpec => []VersionNamesRow
<1>1. StoreInv => VersionNamesRow
  BY DEF StoreInv, VersionsName, VersionNamesRow
<1> QED
  BY <1>1, StoreInvariance, PTL

(* For any set of requests and any pass: the worker overwrites an edit     *)
(* only if the edit was committed after the worker's check, or stamped     *)
(* before the revision the worker started from.                            *)
THEOREM EditsLostInWindowOnly == StoreSpec => LossWindow
<1>1. StoreInv /\ [StoreNext]_storeVars =>
        [WorkerCommit =>
           \A e \in db.edits \ db'.edits : e \notin seen.edits \/ copy[e].ver <= cached.ver]_storeVars
  <2> SUFFICES ASSUME StoreInv, WorkerCommit, NEW e \in db.edits, e \in seen.edits
               PROVE  copy[e].ver <= cached.ver
    OBVIOUS
  <2>1. copy[e].ver <= seen.ver /\ seen.ver <= cached.ver
    BY DEF StoreInv, Covered, Covers, Checked, WorkerCommit
  <2>2. e \in Edit /\ copy[e].ver \in Nat /\ seen.ver \in Nat /\ cached.ver \in Nat
    BY DEF StoreInv, StoreTypeOK, Row
  <2> QED
    BY <2>1, <2>2
<1> QED
  BY <1>1, StoreInvariance, PTL DEF StoreSpec, LossWindow

-----------------------------------------------------------------------------
(***************************************************************************)
(* Attempt numbers on record are unique for every retention limit and any  *)
(* set of runners and requests: since a record that would make the log     *)
(* drop an entry is never saved, the entry at position i is attempt i, and *)
(* a run that has counted attempts has counted as many as the log has      *)
(* entries.  Both hold of the row and of every copy.  A copy that is not   *)
(* stale has the retries of the row.                                       *)
(***************************************************************************)
Sound(e) ==
  /\ Len(e.log) <= LogRetention
  /\ \A i \in DOMAIN e.log : e.log[i].seq = i
  /\ e.count \in {0, Len(e.log)}

Fresh == \A a \in Actor : doing[a] # "idle" /\ ~stale[a] => stored.retries \subseteq held[a].retries

LogInv ==
  LogTypeOK /\ Sound(stored) /\ (\A a \in Actor : Sound(held[a])) /\ Fresh

(* The copy of an actor that holds nothing is sound.                       *)
LEMMA BlankSound == Blank \in Episode /\ Sound(Blank)
BY LogAssumption DEF LogAssumption, Blank, Episode, RunState, Sound, Entry

(* A record that is saved is the old log with one entry more.              *)
LEMMA SavedIsAppended ==
  ASSUME NEW entries \in Seq(Entry), NEW e \in Entry, Len(entries) <= LogRetention,
         Len(Retained(Append(entries, e))) # Len(entries)
  PROVE  Retained(Append(entries, e)) = Append(entries, e) /\ Len(entries) < LogRetention
<1> DEFINE longer == Append(entries, e)
<1>1. longer \in Seq(Entry) /\ Len(longer) = Len(entries) + 1
  OBVIOUS
<1>2. LogRetention \in Nat \ {0}
  BY LogAssumption DEF LogAssumption
<1>3. CASE Len(longer) <= LogRetention
  BY <1>1, <1>2, <1>3 DEF Retained
<1>4. CASE Len(longer) > LogRetention
  \* Then the log was full and the cut gives it its old length back.
  <2>1. Len(entries) = LogRetention
    BY <1>1, <1>2, <1>4
  <2>2. Retained(longer) = SubSeq(longer, Len(longer) - LogRetention + 1, Len(longer))
    BY <1>1, <1>2, <1>4 DEF Retained
  <2>3. Len(longer) - LogRetention + 1 = 2 /\ Len(longer) = LogRetention + 1
    BY <1>1, <1>2, <2>1
  <2>4. Len(SubSeq(longer, 2, LogRetention + 1)) = LogRetention
    BY <1>1, <1>2, <2>3
  <2> QED
    BY <2>1, <2>2, <2>3, <2>4
<1> QED
  BY <1>1, <1>2, <1>3, <1>4

(* A record that is saved keeps the numbering and the retries.             *)
LEMMA RecordedSound ==
  ASSUME NEW e \in Episode, Sound(e), NEW failed \in BOOLEAN,
         Len(Recorded(e, failed).log) # Len(e.log)
  PROVE  /\ Recorded(e, failed) \in Episode /\ Sound(Recorded(e, failed))
         /\ e.retries \subseteq Recorded(e, failed).retries
<1> DEFINE n == NextSequence(e)
           entry == [seq |-> n, failed |-> failed]
           r == Recorded(e, failed)
<1>1. e.log \in Seq(Entry) /\ e.count \in Nat /\ e.retries \in SUBSET Nat /\ e.state \in RunState
  BY DEF Episode
<1>2. n = Len(e.log) + 1 /\ n \in Nat /\ entry \in Entry
  BY <1>1 DEF NextSequence, Sound, Entry
<1>3. r.log = Retained(Append(e.log, entry)) /\ r.count = n /\ r.state = e.state
  BY DEF Recorded, Episode
<1>4. r.retries = IF failed THEN e.retries \cup {n} ELSE e.retries
  BY DEF Recorded, Episode
<1>5. r.log = Append(e.log, entry) /\ Len(e.log) < LogRetention
  BY <1>1, <1>2, <1>3, SavedIsAppended DEF Sound
<1>6. Len(r.log) = n /\ r.log \in Seq(Entry) /\ \A i \in DOMAIN r.log : r.log[i].seq = i
  BY <1>1, <1>2, <1>5 DEF Sound
<1>7. Len(r.log) <= LogRetention
  BY <1>1, <1>2, <1>5, <1>6, LogAssumption DEF LogAssumption
<1>8. r.retries \in SUBSET Nat
  BY <1>1, <1>2, <1>4
<1>9. r \in Episode
  <2>1. r = [e EXCEPT !.log = r.log, !.count = r.count, !.retries = r.retries]
    BY <1>3, <1>4 DEF Recorded, Episode
  <2> QED
    BY <1>1, <1>2, <1>3, <1>6, <1>8, <2>1 DEF Episode
<1> QED
  BY <1>3, <1>4, <1>6, <1>7, <1>9 DEF Sound

(* So does a change to the run.                                            *)
LEMMA ChangedSound ==
  ASSUME NEW e \in Episode, Sound(e), NEW f, Changed(e, f)
  PROVE  f \in Episode /\ Sound(f) /\ f.retries = e.retries
<1>1. CASE f = e
  BY <1>1
<1>2. CASE f = [e EXCEPT !.state = "running", !.count = 0]
  BY <1>2 DEF Episode, RunState, Sound
<1>3. CASE f = [e EXCEPT !.state = "ended"]
  BY <1>3 DEF Episode, RunState, Sound
<1>4. CASE f = [e EXCEPT !.state = "running"]
  BY <1>4 DEF Episode, RunState, Sound
<1> QED
  BY <1>1, <1>2, <1>3, <1>4 DEF Changed, Begun, Ended, Reopened

(* The step of a save: the row is what the actor saves, and everybody else *)
(* who holds a copy is stale.                                              *)
LEMMA SavedByOne ==
  ASSUME LogInv, NEW a \in Actor, NEW e \in Episode, Sound(e), Saves(a, e), doing[a] # "idle",
         \/ Leaves(a)
         \/ UNCHANGED held /\ e = held[a] /\ Moves(a, "loaded"),
         UNCHANGED <<failing, closing>>
  PROVE  LogInv'
<1> USE DEF LogInv, LogTypeOK
<1>1. stored' \in Episode /\ Sound(stored)' /\ Len(stored'.log) <= LogRetention
  BY DEF Saves, Sound
<1>2. stale' \in [Actor -> BOOLEAN]
  BY DEF Saves
<1>3. doing' \in [Actor -> Phase] /\ held' \in [Actor -> Episode] /\ \A b \in Actor : Sound(held'[b])
  BY LogAssumption, BlankSound DEF Leaves, Moves, Holds, Phase
<1>4. Fresh'
  <2> SUFFICES ASSUME NEW b \in Actor, doing'[b] # "idle", ~stale'[b]
               PROVE  stored'.retries \subseteq held'[b].retries
    BY DEF Fresh
  <2>1. CASE b = a
    BY <2>1 DEF Saves, Leaves, Moves
  <2>2. CASE b # a
    BY <2>2 DEF Saves, Leaves, Moves
  <2> QED
    BY <2>1, <2>2
<1>5. failing' \in [Runner -> BOOLEAN] /\ closing' \in [Runner -> BOOLEAN]
  OBVIOUS
<1> QED
  BY <1>1, <1>2, <1>3, <1>4, <1>5

(* The step of one actor that leaves the row alone and comes to hold a     *)
(* sound copy, with the retries of the row unless it is stale.             *)
LEMMA HeldByOne ==
  ASSUME LogInv, NEW a \in Actor, NEW e \in Episode, Sound(e), NEW to \in Phase, NEW old \in BOOLEAN,
         stored' = stored, held' = [held EXCEPT ![a] = e], doing' = [doing EXCEPT ![a] = to],
         stale' = [stale EXCEPT ![a] = old],
         to # "idle" /\ ~old => stored.retries \subseteq e.retries,
         failing' \in [Runner -> BOOLEAN], closing' \in [Runner -> BOOLEAN]
  PROVE  LogInv'
BY DEF LogInv, LogTypeOK, Fresh, Sound

(* Every step keeps the invariant.                                         *)
LEMMA LogStep == LogInv /\ [LogNext]_logVars => LogInv'
<1> SUFFICES ASSUME LogInv, [LogNext]_logVars PROVE LogInv'
  OBVIOUS
<1> USE DEF LogInv, LogTypeOK
<1>0. /\ \A p \in Runner : p \in Actor
      /\ \A c \in Client : c \in Actor
      /\ \A x \in Phase : x \in Phase
      /\ {"idle", "loaded", "saving", "recording"} = Phase
  BY DEF Actor, Phase
<1>1. ASSUME NEW p \in Runner, Start(p) PROVE LogInv'
  <2>1. failing' \in [Runner -> BOOLEAN] /\ closing' \in [Runner -> BOOLEAN]
    BY <1>1 DEF Start
  <2>2. "loaded" \in Phase
    BY DEF Phase
  <2> QED
    BY <1>0, <1>1, <2>1, <2>2, HeldByOne DEF Start, Loads, Holds, Moves
<1>2. ASSUME NEW p \in Runner, Fail(p) PROVE LogInv'
  BY <1>2 DEF Fail, Fresh, Sound
<1>3. ASSUME NEW p \in Runner, StageEnds(p) PROVE LogInv'
  <2>1. PICK e \in {held[p], Begun(held[p]), Ended(held[p]), Reopened(held[p])} :
          /\ Changed(held[p], e)
          /\ \/ stale[p] /\ Adopts(p) /\ UNCHANGED doing
             \/ ~stale[p] /\ Holds(p, e) /\ Moves(p, "saving") /\ UNCHANGED stale
    BY <1>3 DEF StageEnds
  <2>2. held[p] \in Episode /\ Sound(held[p]) /\ p \in Actor /\ doing[p] = "loaded"
    BY <1>0, <1>3 DEF StageEnds
  <2>3. e \in Episode /\ Sound(e) /\ e.retries = held[p].retries
    BY <2>1, <2>2, ChangedSound
  <2>4. failing' \in [Runner -> BOOLEAN] /\ closing' \in [Runner -> BOOLEAN] /\ stored' = stored
    BY <1>3 DEF StageEnds
  <2>5. "saving" \in Phase /\ "loaded" \in Phase
    BY DEF Phase
  <2>6. CASE stale[p] /\ Adopts(p) /\ UNCHANGED doing
    <3>1. doing' = [doing EXCEPT ![p] = "loaded"]
      BY <2>2, <2>6
    <3> QED
      BY <2>2, <2>4, <2>5, <2>6, <3>1, HeldByOne DEF Adopts, Loads, Holds
  <2>7. CASE ~stale[p] /\ Holds(p, e) /\ Moves(p, "saving") /\ UNCHANGED stale
    <3>1. stale' = [stale EXCEPT ![p] = FALSE]
      BY <2>2, <2>7
    <3>2. stored.retries \subseteq e.retries
      BY <2>2, <2>3, <2>7 DEF Fresh
    <3> QED
      BY <2>2, <2>3, <2>4, <2>5, <2>7, <3>1, <3>2, HeldByOne DEF Holds, Moves
  <2> QED
    BY <2>1, <2>6, <2>7
<1>4. ASSUME NEW p \in Runner, Record(p) PROVE LogInv'
  <2> DEFINE r == Recorded(held[p], failing[p])
  <2>1. /\ held[p] \in Episode /\ Sound(held[p]) /\ p \in Actor /\ doing[p] = "loaded"
        /\ failing[p] \in BOOLEAN
    BY <1>0, <1>4 DEF Record
  <2>2. /\ failing' \in [Runner -> BOOLEAN] /\ closing' \in [Runner -> BOOLEAN] /\ stored' = stored
        /\ stale' = stale
    BY <1>4 DEF Record
  <2>3. stale[p] \in BOOLEAN /\ stale' = [stale EXCEPT ![p] = stale[p]]
    BY <2>1, <2>2
  <2>4. "recording" \in Phase /\ "idle" \in Phase
    BY DEF Phase
  <2>5. \/ Len(r.log) # Len(held[p].log) /\ ~stale[p] /\ Holds(p, r) /\ Moves(p, "recording")
        \/ Leaves(p)
    BY <1>4 DEF Record
  <2> HIDE DEF r
  <2>6. CASE Len(r.log) # Len(held[p].log) /\ ~stale[p] /\ Holds(p, r) /\ Moves(p, "recording")
    <3>1. r \in Episode /\ Sound(r) /\ held[p].retries \subseteq r.retries
      BY <2>1, <2>6, RecordedSound DEF r
    <3>2. stored.retries \subseteq r.retries
      BY <2>1, <2>6, <3>1 DEF Fresh
    <3> QED
      BY <2>1, <2>2, <2>3, <2>4, <2>6, <3>1, <3>2, HeldByOne DEF Holds, Moves
  <2>7. CASE Leaves(p)
    BY <2>1, <2>2, <2>3, <2>4, <2>7, BlankSound, HeldByOne DEF Leaves, Holds, Moves
  <2> QED
    BY <2>5, <2>6, <2>7
<1>5. ASSUME NEW p \in Runner, Store(p) PROVE LogInv'
  <2>1. held[p] \in Episode /\ Sound(held[p]) /\ p \in Actor /\ doing[p] # "idle"
    BY <1>0, <1>5 DEF Store
  <2> QED
    BY <1>5, <2>1, SavedByOne DEF Store
<1>6. ASSUME NEW c \in Client, Fetch(c) PROVE LogInv'
  <2>1. "loaded" \in Phase /\ c \in Actor
    BY <1>0 DEF Phase
  <2> QED
    BY <1>6, <2>1, HeldByOne DEF Fetch, Loads, Holds, Moves
<1>7. ASSUME NEW c \in Client, Save(c) PROVE LogInv'
  <2>1. held[c] \in Episode /\ Sound(held[c]) /\ c \in Actor /\ doing[c] # "idle"
    BY <1>0, <1>7 DEF Save
  <2>2. PICK e \in {held[c], Begun(held[c]), Ended(held[c]), Reopened(held[c])} :
          Changed(held[c], e) /\ Saves(c, e)
    BY <1>7 DEF Save
  <2>3. e \in Episode /\ Sound(e)
    BY <2>1, <2>2, ChangedSound
  <2> QED
    BY <1>7, <2>1, <2>2, <2>3, SavedByOne DEF Save
<1>8. CASE UNCHANGED logVars
  BY <1>8 DEF logVars, Fresh, Sound
<1> QED
  BY <1>1, <1>2, <1>3, <1>4, <1>5, <1>6, <1>7, <1>8 DEF LogNext

LEMMA LogStart == LogInit => LogInv
<1> SUFFICES ASSUME LogInit PROVE LogInv
  OBVIOUS
<1>1. stored \in Episode /\ Sound(stored) /\ Len(stored.log) <= LogRetention
  BY BlankSound DEF LogInit, Sound
<1>2. /\ doing \in [Actor -> Phase] /\ held \in [Actor -> Episode] /\ stale \in [Actor -> BOOLEAN]
      /\ \A a \in Actor : Sound(held[a]) /\ doing[a] = "idle"
  BY BlankSound DEF LogInit, Phase
<1> QED
  BY <1>1, <1>2 DEF LogInit, LogInv, LogTypeOK, Fresh

(* For every retention limit: the log keeps within it.                     *)
THEOREM LogTypes == LogSpec => []LogTypeOK
<1>1. LogInv => LogTypeOK
  BY DEF LogInv
<1> QED
  BY <1>1, LogStart, LogStep, PTL DEF LogSpec

(* For every retention limit and any runners and requests: a save that     *)
(* loses a retry entry was made of a copy older than the row, so neither   *)
(* the worker's checks nor a dropped record lose one.                      *)
THEOREM RetriesAreKept == LogSpec => RetriesOutlastSaves
<1>1. LogInv /\ [LogNext]_logVars =>
        [\/ stored.retries \subseteq stored'.retries
         \/ \E p \in Runner : stale[p] /\ Store(p)
         \/ \E c \in Client : stale[c] /\ Save(c)]_logVars
  <2> SUFFICES ASSUME LogInv, LogNext, ~(stored.retries \subseteq stored'.retries)
               PROVE  \/ \E p \in Runner : stale[p] /\ Store(p)
                      \/ \E c \in Client : stale[c] /\ Save(c)
    OBVIOUS
  <2>1. stored' # stored
    OBVIOUS
  <2>2. PICK a \in Actor : (a \in Runner /\ Store(a)) \/ (a \in Client /\ Save(a))
    BY <2>1 DEF LogNext, Start, Fail, StageEnds, Record, Fetch, Actor
  <2>3. stored'.retries = held[a].retries /\ doing[a] # "idle"
    <3>1. CASE a \in Runner /\ Store(a)
      BY <3>1 DEF Store, Saves
    <3>2. CASE a \in Client /\ Save(a)
      <4>1. held[a] \in Episode /\ Sound(held[a])
        BY DEF LogInv, LogTypeOK
      <4>2. PICK e : Changed(held[a], e) /\ Saves(a, e)
        BY <3>2 DEF Save
      <4> QED
        BY <3>2, <4>1, <4>2, ChangedSound DEF Save, Saves
    <3> QED
      BY <2>2, <3>1, <3>2
  <2>4. stale[a]
    BY <2>3 DEF LogInv, Fresh
  <2> QED
    BY <2>2, <2>4
<1> QED
  BY <1>1, LogStart, LogStep, PTL DEF LogSpec, RetriesOutlastSaves

(* For every retention limit: no two entries of the log have the same      *)
(* attempt number, and the numbers grow.                                   *)
THEOREM AttemptsStayNumbered == LogSpec => []AttemptsNumbered
<1>1. LogInv => AttemptsNumbered
  BY DEF LogInv, LogTypeOK, Episode, Sound, AttemptsNumbered
<1> QED
  BY <1>1, LogStart, LogStep, PTL DEF LogSpec

=============================================================================
