---------------------------- MODULE RateLimiter ----------------------------
(***************************************************************************)
(* The sliding window that guards the routes for signing in, registering   *)
(* and setting up.  The dependency is a plain function, so its calls run   *)
(* in worker threads, and nothing guards the counters: a thread may be     *)
(* suspended between any two of the steps below.  Nothing looks at the     *)
(* order of the times in a counter, so they are a bag here: how many there *)
(* are of each moment.                                                     *)
(***************************************************************************)
EXTENDS Callers, FiniteSets, Functions

CONSTANTS
  Thread,
  Key,         \* client addresses and paths
  MaxRequests,
  Window,
  MaxCalls     \* bound: calls of one key

ASSUME LimiterAssumption ==
  /\ MaxRequests \in Nat \ {0} /\ Window \in Nat /\ MaxCalls \in Nat
  /\ Nil \notin Thread /\ Nil \notin Key /\ Nil \notin 0..MaxTime

VARIABLES
  limits,   \* key -> the counter in the dict: the thread that made it, or Nil
  requests, \* key -> thread -> the times in the counter it made
  calls,    \* thread -> its call in progress
  arrived,  \* key -> how many calls there were
  grants,   \* key -> the times of the calls that were granted, auxiliary
  overlaps  \* the keys of which calls have overlapped, auxiliary

limiterVars == <<limits, requests, calls, arrived, grants, overlaps>>

Moment == 0..MaxTime
NoTimes == [t \in Moment |-> 0]
Size(times) == SumFunctionOnSet(times, Moment)

NoCall == [at |-> "idle", key |-> Nil, counter |-> Nil, now |-> Nil, kept |-> NoTimes, alone |-> TRUE]

LimiterInit ==
  /\ limits = [k \in Key |-> Nil]
  /\ requests = [k \in Key |-> [q \in Thread |-> NoTimes]]
  /\ calls = [q \in Thread |-> NoCall]
  /\ arrived = [k \in Key |-> 0]
  /\ grants = [k \in Key |-> NoTimes]
  /\ overlaps = {}

(* Slip: what is exactly Window old still counts. *)
SinceAndAt(times, now) == [t \in Moment |-> IF t >= now - Window THEN times[t] ELSE 0]

Recent(times, now) == [t \in Moment |-> IF t > now - Window THEN times[t] ELSE 0]

At(q, step) == calls[q].at = step
Goes(q, step) == calls' = [calls EXCEPT ![q].at = step]

(* The counter of a call. *)
Requests(q) == requests[calls[q].key][calls[q].counter]
SetRequests(q, times) ==
  requests' = [requests EXCEPT ![calls[q].key][calls[q].counter] = times]

Arrive(q, k) ==
  LET others == {r \in Thread : calls[r].key = k}
  IN  /\ q \in crowd /\ At(q, "idle")
      /\ arrived[k] < MaxCalls
      /\ arrived' = [arrived EXCEPT ![k] = @ + 1]
      /\ calls' = [r \in Thread |->
                     IF r = q THEN [NoCall EXCEPT !.at = "find", !.key = k, !.alone = others = {}]
                     ELSE IF r \in others THEN [calls[r] EXCEPT !.alone = FALSE] ELSE calls[r]]
      /\ overlaps' = IF others = {} THEN overlaps ELSE overlaps \cup {k}
  /\ UNCHANGED <<limits, requests, grants>>

(* The defaultdict has the counter, or makes one. *)
Find(q) ==
  /\ At(q, "find")
  /\ LET counter == limits[calls[q].key]
     IN  calls' = [calls EXCEPT ![q].counter = counter,
                                ![q].at = IF counter = Nil THEN "make" ELSE "time"]
  /\ UNCHANGED <<limits, requests, arrived, grants, overlaps>>

Make(q) ==
  /\ At(q, "make")
  /\ limits' = [limits EXCEPT ![calls[q].key] = q]
  /\ calls' = [calls EXCEPT ![q].counter = q, ![q].at = "time"]
  /\ UNCHANGED <<requests, arrived, grants, overlaps>>

ReadTime(q) ==
  /\ At(q, "time")
  /\ calls' = [calls EXCEPT ![q].now = clock, ![q].at = "filter"]
  /\ UNCHANGED <<limits, requests, arrived, grants, overlaps>>

Filter(q) ==
  /\ At(q, "filter")
  /\ calls' = [calls EXCEPT ![q].kept = Recent(Requests(q), calls[q].now), ![q].at = "store"]
  /\ UNCHANGED <<limits, requests, arrived, grants, overlaps>>

Store(q) ==
  /\ At(q, "store")
  /\ SetRequests(q, calls[q].kept)
  /\ Goes(q, "test")
  /\ UNCHANGED <<limits, arrived, grants, overlaps>>

(* 429. *)
Refuse(q) ==
  /\ At(q, "test")
  /\ Size(Requests(q)) >= MaxRequests
  /\ calls' = [calls EXCEPT ![q] = NoCall]
  /\ UNCHANGED <<limits, requests, arrived, grants, overlaps>>

Pass(q) ==
  /\ At(q, "test")
  /\ Size(Requests(q)) < MaxRequests
  /\ Goes(q, "append")
  /\ UNCHANGED <<limits, requests, arrived, grants, overlaps>>

Grant(q) ==
  /\ At(q, "append")
  /\ SetRequests(q, [Requests(q) EXCEPT ![calls[q].now] = @ + 1])
  /\ grants' = [grants EXCEPT ![calls[q].key][calls[q].now] = @ + 1]
  /\ calls' = [calls EXCEPT ![q] = NoCall]
  /\ UNCHANGED <<limits, arrived, overlaps>>

LimiterNext ==
  \E q \in Thread :
    \/ \E k \in Key : Arrive(q, k)
    \/ Find(q) \/ Make(q) \/ ReadTime(q) \/ Filter(q) \/ Store(q)
    \/ Refuse(q) \/ Pass(q) \/ Grant(q)

-----------------------------------------------------------------------------
Times == [Moment -> Nat]

Call == [at: {"idle", "find", "make", "time", "filter", "store", "test", "append"},
         key: Key \cup {Nil}, counter: Thread \cup {Nil}, now: Moment \cup {Nil},
         kept: Times, alone: BOOLEAN]

(* Only a call in progress has a key, none has a counter before the dict   *)
(* has one, and its time has passed.                                       *)
CallOK(c) ==
  /\ c.at = "idle" => c = NoCall
  /\ c.at # "idle" => c.key \in Key
  /\ c.counter # Nil => limits[c.key] # Nil
  /\ c.at \in {"time", "filter", "store", "test", "append"} => c.counter # Nil
  /\ c.at \in {"filter", "store", "test", "append"} => c.now \in 0..clock

LimiterTypeOK ==
  /\ limits \in [Key -> Thread \cup {Nil}]
  /\ requests \in [Key -> [Thread -> Times]]
  /\ grants \in [Key -> Times]
  /\ arrived \in [Key -> 0..MaxCalls] /\ overlaps \subseteq Key
  /\ calls \in [Thread -> Call]
  /\ \A q \in Thread : CallOK(calls[q])

(* How many calls of key k were granted in the window before now. *)
GrantedBefore(k, now) ==
  Size([t \in Moment |-> IF t > now - Window THEN grants[k][t] ELSE 0])

(* A call is granted exactly if fewer than MaxRequests calls were granted  *)
(* in the window before it.  Threads that overlap lose each other's        *)
(* entries, so more may pass; but then, too, no call that has its counter  *)
(* to itself is refused for calls that are past or were never granted.     *)
LimitKept ==
  [][\A q \in Thread :
       LET before == GrantedBefore(calls[q].key, calls[q].now)
       IN  /\ Refuse(q) /\ calls[q].alone => before >= MaxRequests
           /\ Grant(q) /\ calls[q].key \notin overlaps => before < MaxRequests]_limiterVars
=============================================================================
