----------------------------- MODULE RoleHolder -----------------------------
(***************************************************************************)
(* What the worker lease of a role promises: one process at a time holds   *)
(* the role, for at most Ttl after each grant, and another process takes   *)
(* over only after the holder's time ran out or it gave up.  Once the      *)
(* promise is void, because the lock was taken from its user, nobody       *)
(* counts as the holder any more.                                          *)
(***************************************************************************)
EXTENDS Naturals

CONSTANTS Worker, Nobody, Ttl

VARIABLES
  holder,  \* the process that holds the role, or Nobody
  left,    \* how long it still holds it
  void     \* the promise no longer holds

promise == <<holder, left, void>>

Vacant == holder' = Nobody /\ left' = 0

Init == holder = Nobody /\ left = 0 /\ void = FALSE

\* The role is taken when it is free, or kept by its holder.
Take(w) ==
  /\ ~void /\ holder \in {w, Nobody}
  /\ holder' = w /\ left' \in 1..Ttl
  /\ UNCHANGED void

\* The holder is killed, gives the role up, or renews too late.
GiveUp == holder # Nobody /\ Vacant /\ UNCHANGED void

Pass ==
  /\ holder # Nobody
  /\ left' = left - 1
  /\ holder' = IF left' = 0 THEN Nobody ELSE holder
  /\ UNCHANGED void

Void == ~void /\ void' = TRUE /\ Vacant

Next == (\E w \in Worker : Take(w)) \/ GiveUp \/ Pass \/ Void

Spec == Init /\ [][Next]_promise

=============================================================================
