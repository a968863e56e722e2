------------------------------ MODULE Callers ------------------------------
(***************************************************************************)
(* What RateLimiter, ApiKeys and ClientSession have in common: the time,   *)
(* and who is there to make steps.                                         *)
(***************************************************************************)
EXTENDS Integers

CONSTANTS
  User,
  Crowds,  \* bound: the sets of callers, of which one is there
  MaxTime, \* bound: the last moment
  Nil

ASSUME TimeAssumption == MaxTime \in Nat

VARIABLES clock, crowd

callerVars == <<clock, crowd>>

CallersInit == clock = 0 /\ crowd \in Crowds

Tick ==
  /\ clock < MaxTime
  /\ clock' = clock + 1
  /\ UNCHANGED crowd
=============================================================================
