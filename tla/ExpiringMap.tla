----------------------------- MODULE ExpiringMap -----------------------------
(***************************************************************************)
(* What RedisExpiredHash (qx_core/storage/redis.py) promises: a map whose  *)
(* entries disappear by themselves when the time they were given is over,  *)
(* never before, and can be replaced or removed at any moment.             *)
(***************************************************************************)
EXTENDS Integers

CONSTANTS
  NULL,
  Fields,
  Values,
  Lifetimes     \* for how long after the present an entry may be put

VARIABLES
  now,
  map           \* [Fields -> NULL or [val, until]]

vars == <<now, map>>

Init ==
  /\ now \in Nat
  /\ map = [f \in Fields |-> NULL]

Put(f, v, until) ==
  /\ until - now \in Lifetimes
  /\ until > now
  /\ map' = [map EXCEPT ![f] = [val |-> v, until |-> until]]
  /\ UNCHANGED now

Remove(f) ==
  /\ map' = [map EXCEPT ![f] = NULL]
  /\ UNCHANGED now

Tick ==
  /\ now' = now + 1
  /\ map' = [f \in Fields |->
       IF map[f] # NULL /\ map[f].until = now + 1 THEN NULL ELSE map[f]]

Next ==
  \/ \E f \in Fields :
       \/ Remove(f)
       \/ \E v \in Values, life \in Lifetimes : Put(f, v, now + life)
  \/ Tick

Spec == Init /\ [][Next]_vars
==============================================================================
