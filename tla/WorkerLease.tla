----------------------------- MODULE WorkerLease -----------------------------
(***************************************************************************)
(* The worker lease of one role: the lease file that names the worker      *)
(* process whose polling pass is admitted, and the lock file around every  *)
(* change of it.  Each action is one file operation of a worker process;   *)
(* between two of them any other process may run, time may pass and the    *)
(* process may be killed.                                                  *)
(*                                                                         *)
(* Times are relative to the present: how much of a lease is left, how old *)
(* the lock file is, how long ago a call read the clock.  The content of   *)
(* the lock file is empty in the program; its creator is kept here to say  *)
(* who lost it.  acquired_at and last_renewed_at decide nothing and are    *)
(* left out, and so are malformed lease files, which os.replace of a       *)
(* complete temporary file never leaves behind.                            *)
(***************************************************************************)
EXTENDS Integers

CONSTANTS
  Worker,        \* the processes of the role, hostname and pid
  Nobody,        \* stands for no process
  Ttl,           \* worker_lease_ttl_seconds
  LockTimeout,   \* how long a call waits for the lock (5 seconds)
  StaleAfter,    \* age above which a lock file is taken for abandoned
  Retention,     \* how long an expired lease file is kept
  MaxLag,        \* bound: how long one call is held up
  MaxStops       \* bound: processes killed and calls of release

ASSUME LeaseAssumption ==
  /\ Nobody \notin Worker
  /\ Ttl \in Nat \ {0}
  /\ LockTimeout \in Nat
  /\ StaleAfter \in Nat /\ StaleAfter >= LockTimeout /\ StaleAfter >= Ttl
  /\ Retention \in Nat /\ Retention >= Ttl
  /\ MaxLag \in Nat
  /\ MaxStops \in Nat

VARIABLES
  lease,     \* the lease file: its owner and how long it still runs
  lock,      \* the lock file: who created it and its age
  pc,        \* where each process is
  call,      \* the call each process is in, or was in last
  lag,       \* time since the call read the clock
  grant,     \* time left of the lease that the process was last given
  pruning,   \* a status read has found a lease file to prune
  robbed,    \* a lock was removed under its user, or a running lease pruned
  stops      \* processes killed and calls of release

vars == <<lease, lock, pc, call, lag, grant, pruning, robbed, stops>>

NoLease == [owner |-> Nobody, left |-> 0]
NoLock == [by |-> Nobody, age |-> 0]

Call == {"acquire", "renew", "release"}
Waiting == {"open", "stat", "unlink"}
Critical == {"read", "write", "remove", "granted", "leave"}
InCall == Waiting \cup Critical
PC == {"idle", "pass", "down"} \cup InCall

TypeOK ==
  /\ lease \in [owner : Worker \cup {Nobody}, left : Int] /\ lease.left <= Ttl
  /\ lock \in [by : Worker \cup {Nobody}, age : Nat]
  /\ pc \in [Worker -> PC]
  /\ call \in [Worker -> Call]
  /\ lag \in [Worker -> Nat]
  /\ grant \in [Worker -> 0..Ttl]
  /\ pruning \in BOOLEAN
  /\ robbed \in BOOLEAN
  /\ stops \in Nat

Init ==
  /\ lease = NoLease
  /\ lock = NoLock
  /\ pc = [w \in Worker |-> "idle"]
  /\ call = [w \in Worker |-> "acquire"]
  /\ lag = [w \in Worker |-> 0]
  /\ grant = [w \in Worker |-> 0]
  /\ pruning = FALSE
  /\ robbed = FALSE
  /\ stops = 0

-----------------------------------------------------------------------------
Goto(w, l) == pc' = [pc EXCEPT ![w] = l]

\* A call reads the clock once, before it waits for the lock.
Enter(w, c) ==
  /\ Goto(w, "open")
  /\ call' = [call EXCEPT ![w] = c]
  /\ lag' = [lag EXCEPT ![w] = 0]
  /\ UNCHANGED <<lease, lock, grant, pruning, robbed>>

\* Each turn of the worker loop acquires the lease, works and renews it.
Acquire(w) == pc[w] = "idle" /\ Enter(w, "acquire") /\ UNCHANGED stops
Renew(w) == pc[w] = "pass" /\ Enter(w, "renew") /\ UNCHANGED stops

\* No worker loop calls release; it is offered to a process between passes.
Release(w) ==
  /\ pc[w] = "idle" /\ stops < MaxStops
  /\ Enter(w, "release")
  /\ stops' = stops + 1

\* os.open with O_CREAT | O_EXCL.
Open(w) ==
  /\ pc[w] = "open"
  /\ IF lock = NoLock
     THEN lock' = [by |-> w, age |-> 0] /\ Goto(w, "read")
     ELSE Goto(w, "stat") /\ UNCHANGED lock
  /\ UNCHANGED <<lease, call, lag, grant, pruning, robbed, stops>>

\* Mutant: a lock file is never too old.
StaleNever == lock = NoLock

\* _lock_is_stale, for which a file that has gone is stale as well.
LockIsStale == lock = NoLock \/ lock.age > StaleAfter

\* After a failed open; at the deadline of the loop TimeoutError ends the process.
Stat(w) ==
  /\ pc[w] = "stat"
  /\ IF LockIsStale
     THEN Goto(w, "unlink") /\ UNCHANGED grant
     ELSE IF lag[w] >= LockTimeout
          THEN Goto(w, "down") /\ grant' = [grant EXCEPT ![w] = 0]
          ELSE Goto(w, "open") /\ UNCHANGED grant
  /\ UNCHANGED <<lease, lock, call, lag, pruning, robbed, stops>>

\* Unlinking the lock file: whoever uses it at that moment is robbed of it.
RemoveLock(w) ==
  /\ lock' = NoLock
  /\ robbed' = (robbed \/ \E v \in Worker \ {w} : lock.by = v /\ pc[v] \in Critical)

Unlink(w) ==
  /\ pc[w] = "unlink"
  /\ RemoveLock(w)
  /\ Goto(w, "open")
  /\ UNCHANGED <<lease, call, lag, grant, pruning, stops>>

\* Mutant: a lease counts as expired one unit of time early.
RefusedLate(w) == lease.owner \notin {w, Nobody} /\ lease.left + lag[w] > 1

\* Another worker's lease that had not expired when the call began.
Refused(w) == lease.owner \notin {w, Nobody} /\ lease.left + lag[w] > 0

\* Mutant: release removes the lease of whichever process has it.
ReadReleasingAny(w) ==
  /\ pc[w] = "read"
  /\ \/ call[w] # "release" /\ ~Refused(w) /\ Goto(w, "write")
     \/ call[w] # "release" /\ Refused(w) /\ Goto(w, "leave")
     \/ call[w] = "release" /\ Goto(w, "remove")
  /\ UNCHANGED <<lease, lock, call, lag, grant, pruning, robbed, stops>>

Read(w) ==
  /\ pc[w] = "read"
  /\ \/ call[w] # "release" /\ ~Refused(w) /\ Goto(w, "write")
     \/ call[w] # "release" /\ Refused(w) /\ Goto(w, "leave")
     \/ call[w] = "release" /\ lease.owner = w /\ Goto(w, "remove")
     \/ call[w] = "release" /\ lease.owner # w /\ Goto(w, "leave")
  /\ UNCHANGED <<lease, lock, call, lag, grant, pruning, robbed, stops>>

\* The new lease runs from the time the call began.
Write(w) ==
  /\ pc[w] = "write"
  /\ lease' = [owner |-> w, left |-> Ttl - lag[w]]
  /\ grant' = [grant EXCEPT ![w] = IF lag[w] < Ttl THEN Ttl - lag[w] ELSE 0]
  /\ Goto(w, "granted")
  /\ UNCHANGED <<lock, call, lag, pruning, robbed, stops>>

Remove(w) ==
  /\ pc[w] = "remove"
  /\ lease' = NoLease
  /\ grant' = [grant EXCEPT ![w] = 0]
  /\ Goto(w, "leave")
  /\ UNCHANGED <<lock, call, lag, pruning, robbed, stops>>

\* The finally clause of _role_lock, and the return to the worker loop: only a
\* granted acquire admits a pass, and what renew returns is not looked at.
Unlock(w) ==
  /\ pc[w] \in {"granted", "leave"}
  /\ RemoveLock(w)
  /\ Goto(w, IF pc[w] = "granted" /\ call[w] = "acquire" THEN "pass" ELSE "idle")
  /\ UNCHANGED <<lease, call, lag, grant, pruning, stops>>

-----------------------------------------------------------------------------
\* The process is killed: the lock file it may have created stays.
Crash(w) ==
  /\ pc[w] # "down"
  /\ stops < MaxStops
  /\ Goto(w, "down")
  /\ grant' = [grant EXCEPT ![w] = 0]
  /\ stops' = stops + 1
  /\ UNCHANGED <<lease, lock, call, lag, pruning, robbed>>

\* docker compose restarts it, under the same identity.
Restart(w) ==
  /\ pc[w] = "down"
  /\ Goto(w, "idle")
  /\ UNCHANGED <<lease, lock, call, lag, grant, pruning, robbed, stops>>

\* list_leases, on a status request: it takes no lock between reading a lease
\* file and unlinking it.
StatusRead ==
  /\ ~pruning
  /\ lease # NoLease /\ lease.left < -Retention
  /\ pruning' = TRUE
  /\ UNCHANGED <<lease, lock, pc, call, lag, grant, robbed, stops>>

StatusPrune ==
  /\ pruning
  /\ lease' = NoLease
  /\ pruning' = FALSE
  /\ robbed' = (robbed \/ lease.left > 0)
  /\ UNCHANGED <<lock, pc, call, lag, grant, stops>>

\* Ages stop growing where nothing tells a greater one apart.
Tick ==
  /\ \A w \in Worker : pc[w] \in InCall => lag[w] < MaxLag
  /\ lease' = IF lease = NoLease THEN lease
              ELSE [lease EXCEPT !.left = IF @ < -(Retention + MaxLag) THEN @ ELSE @ - 1]
  /\ lock' = IF lock = NoLock THEN lock
             ELSE [lock EXCEPT !.age = IF @ > StaleAfter THEN @ ELSE @ + 1]
  /\ lag' = [w \in Worker |-> IF pc[w] \in InCall THEN lag[w] + 1 ELSE lag[w]]
  /\ grant' = [w \in Worker |-> IF grant[w] = 0 THEN 0 ELSE grant[w] - 1]
  /\ UNCHANGED <<pc, call, pruning, robbed, stops>>

\* The steps a running process takes by itself.
Step(w) ==
  \/ Renew(w)
  \/ Open(w) \/ Stat(w) \/ Unlink(w)
  \/ Read(w) \/ Write(w) \/ Remove(w) \/ Unlock(w)

Next ==
  \/ \E w \in Worker : Acquire(w) \/ Release(w) \/ Step(w) \/ Crash(w) \/ Restart(w)
  \/ StatusRead \/ StatusPrune
  \/ Tick

Spec == Init /\ [][Next]_vars

\* Processes keep running, are restarted, and come back to the lease at every turn
\* of the worker loop; time passes.
FairSpec ==
  /\ Spec
  /\ \A w \in Worker : WF_vars(Step(w)) /\ WF_vars(Restart(w)) /\ WF_vars(Acquire(w))
  /\ WF_vars(Tick)

-----------------------------------------------------------------------------
(* Properties.                                                             *)

(* As long as nobody was robbed of the lock and no running lease pruned,   *)
(* no two processes hold a lease that is still running: a takeover waits   *)
(* for the expiry, however late the lease is read, written or renewed, and *)
(* whoever stops meanwhile.                                              *)
ExclusiveGrant ==
  ~robbed => \A w, v \in Worker : grant[w] > 0 /\ grant[v] > 0 => w = v

(* A crash at any point, lock held or not, does not end the role: some     *)
(* process is admitted again and again, provided stops come to an end.   *)
RoleServed == []<>(\E w \in Worker : pc[w] = "pass")

-----------------------------------------------------------------------------
(* The promise the lease keeps: the holder is the process whose last grant *)
(* still runs.                                                             *)

Running == {w \in Worker : grant[w] > 0}
Holder == IF robbed \/ Running = {} THEN Nobody ELSE CHOOSE w \in Worker : w \in Running
Left == IF Holder = Nobody THEN 0 ELSE grant[Holder]

Promise == INSTANCE RoleHolder WITH holder <- Holder, left <- Left, void <- robbed

(* Every step of the files and processes is a step of the promise or none: *)
(* the role passes from one process to another only over a vacancy, and a  *)
(* grant never runs longer than the time to live.                          *)
KeepsPromise == Promise!Spec

=============================================================================
