---------------------------- MODULE AccessProofs ----------------------------
(***************************************************************************)
(* Access for any number of threads, sessions, tabs, requests, users and   *)
(* vaults and any lives of the tokens.  There is an invariant for each of  *)
(* the three modules that it composes.                                     *)
(***************************************************************************)
EXTENDS Access, FoldProofs

(***************************************************************************)
(* The rate limiter.  As long as no two calls of a key have overlapped its *)
(* counter holds just the granted calls of the window, and whatever        *)
(* overlaps it never holds more.                                           *)
(***************************************************************************)

(* No counter and no call at the start.                                    *)
LEMMA LimiterInitTyped ==
  ASSUME CallersInit, LimiterInit
  PROVE  LimiterTypeOK
PROOF
  <1> USE TimeAssumption, LimiterAssumption
  <1>1. NoTimes \in Times
    BY DEF NoTimes, Times
  <1>2. NoCall \in Call
    BY <1>1 DEF NoCall, Call
  <1>3. NoCall.at = "idle" /\ NoCall.counter = Nil
    BY DEF NoCall
  <1> QED
    BY <1>1, <1>2, <1>3 DEF LimiterInit, LimiterTypeOK, CallOK

(* What is left of a list of times is a list of times.                     *)
LEMMA RecentTyped ==
  ASSUME NEW times \in Times, NEW now \in Moment
  PROVE  Recent(times, now) \in Times
PROOF
  BY LimiterAssumption DEF Recent, Times, Moment

(* One step of thread q, which leaves the calls of the others as they are  *)
(* but for alone.                                                          *)
LEMMA LimiterStepTyped ==
  ASSUME LimiterTypeOK, clock \in Moment, LimiterNext, UNCHANGED clock
  PROVE  LimiterTypeOK'
PROOF
  <1> USE TimeAssumption, LimiterAssumption
  <1>1. PICK q \in Thread :
          \/ \E k \in Key : Arrive(q, k)
          \/ Find(q) \/ Make(q) \/ ReadTime(q) \/ Filter(q) \/ Store(q)
          \/ Refuse(q) \/ Pass(q) \/ Grant(q)
    BY DEF LimiterNext
  <1>2. calls[q] \in Call /\ CallOK(calls[q])
    BY DEF LimiterTypeOK
  <1>3. NoTimes \in Times
    BY DEF NoTimes, Times
  <1>4. NoCall \in Call /\ NoCall.at = "idle" /\ NoCall.counter = Nil
    BY <1>3 DEF NoCall, Call
  <1>5. ASSUME NEW k \in Key, Arrive(q, k)
        PROVE  LimiterTypeOK'
    <2> DEFINE mine == [NoCall EXCEPT !.at = "find", !.key = k,
                                      !.alone = {r \in Thread : calls[r].key = k} = {}]
    <2>1. mine \in Call /\ mine.at = "find" /\ mine.key = k /\ mine.counter = Nil
      BY <1>3 DEF NoCall, Call
    <2>2. ASSUME NEW r \in Thread
          PROVE  \/ calls'[r] = mine \/ calls'[r] = calls[r]
                 \/ calls'[r] = [calls[r] EXCEPT !.alone = FALSE] /\ calls[r].key = k
      BY <1>5 DEF Arrive
    <2>3. ASSUME NEW r \in Thread
          PROVE  (calls[r] \in Call /\ CallOK(calls[r]))'
      <3>1. CASE calls'[r] = mine
        BY <1>5, <2>1, <3>1 DEF CallOK, Arrive
      <3>2. CASE calls'[r] = calls[r]
        BY <1>5, <3>2 DEF LimiterTypeOK, CallOK, Arrive
      <3>3. CASE calls'[r] = [calls[r] EXCEPT !.alone = FALSE] /\ calls[r].key = k
        <4>1. calls[r] \in Call /\ calls[r].at # "idle"
          BY <3>3 DEF LimiterTypeOK, CallOK, NoCall
        <4>2. CallOK(calls[r]) /\ limits' = limits /\ clock' = clock
          BY <1>5 DEF LimiterTypeOK, Arrive
        <4>3. calls'[r] \in Call /\ calls'[r].at = calls[r].at /\ calls'[r].key = calls[r].key
              /\ calls'[r].counter = calls[r].counter /\ calls'[r].now = calls[r].now
          <5> HIDE DEF mine
          <5> QED
            BY <3>3, <4>1 DEF Call
        <4> HIDE DEF mine
        <4> QED
          BY <4>1, <4>2, <4>3 DEF CallOK
      <3> QED
        BY <2>2, <3>1, <3>2, <3>3
    <2>4. calls' \in [Thread -> Call]
      <3>1. calls' = [r \in Thread |-> calls'[r]]
        BY <1>5 DEF Arrive
      <3> QED
        BY <2>3, <3>1
    <2>5. arrived' \in [Key -> 0..MaxCalls]
      <3>1. arrived[k] \in 0..MaxCalls /\ arrived[k] < MaxCalls
        BY <1>5 DEF Arrive, LimiterTypeOK
      <3>2. arrived[k] + 1 \in 0..MaxCalls
        BY <3>1
      <3>3. arrived' = [arrived EXCEPT ![k] = arrived[k] + 1]
        BY <1>5 DEF Arrive
      <3> QED
        BY <3>2, <3>3 DEF LimiterTypeOK
    <2>6. overlaps' \subseteq Key
      BY <1>5 DEF Arrive, LimiterTypeOK
    <2> QED
      BY <1>5, <2>3, <2>4, <2>5, <2>6 DEF Arrive, LimiterTypeOK
  <1>6. ASSUME NEW c \in Call, calls' = [calls EXCEPT ![q] = c],
               CallOK(c)', limits' \in [Key -> Thread \cup {Nil}],
               \A k \in Key : limits[k] # Nil => limits'[k] # Nil,
               requests' \in [Key -> [Thread -> Times]], grants' \in [Key -> Times],
               UNCHANGED <<arrived, overlaps>>
        PROVE  LimiterTypeOK'
    <2>1. ASSUME NEW r \in Thread, r # q
          PROVE  CallOK(calls[r])'
      <3>1. calls'[r] = calls[r] /\ CallOK(calls[r])
        BY <1>6, <2>1 DEF LimiterTypeOK
      <3>2. calls[r].counter # Nil => calls[r].key \in Key
        BY <3>1 DEF CallOK, NoCall
      <3> QED
        BY <1>6, <3>1, <3>2 DEF CallOK
    <2>2. calls'[q] = c /\ calls' \in [Thread -> Call]
      BY <1>6 DEF LimiterTypeOK
    <2> QED
      BY <1>6, <2>1, <2>2 DEF LimiterTypeOK
  <1>7. CASE Find(q)
    <2> DEFINE counter == limits[calls[q].key]
               c == [calls[q] EXCEPT !.counter = counter,
                                     !.at = IF counter = Nil THEN "make" ELSE "time"]
    <2>1. calls[q].at = "find" /\ calls[q].key \in Key
      BY <1>2, <1>7 DEF Find, At, CallOK
    <2>2. counter \in Thread \cup {Nil}
      BY <2>1 DEF LimiterTypeOK
    <2>3. c \in Call /\ CallOK(c)
      BY <1>2, <2>1, <2>2 DEF Call, CallOK
    <2>4. calls' = [calls EXCEPT ![q] = c]
      BY <1>7 DEF Find, LimiterTypeOK
    <2> HIDE DEF c
    <2> QED
      BY <1>6, <1>7, <2>3, <2>4 DEF Find, CallOK, LimiterTypeOK
  <1>8. CASE Make(q)
    <2>1. calls[q].at = "make" /\ calls[q].key \in Key
      BY <1>2, <1>8 DEF Make, At, CallOK
    <2>2. limits' = [limits EXCEPT ![calls[q].key] = q]
      BY <1>8 DEF Make
    <2>3. PICK c \in Call : c = [calls[q] EXCEPT !.counter = q, !.at = "time"]
      BY <1>2 DEF Call
    <2>4. c.at = "time" /\ c.key = calls[q].key /\ c.counter = q
      BY <1>2, <2>3 DEF Call
    <2>5. calls' = [calls EXCEPT ![q] = c]
      BY <1>8, <2>3 DEF Make, LimiterTypeOK
    <2>6. limits' \in [Key -> Thread \cup {Nil}] /\ limits'[calls[q].key] # Nil
      BY <2>1, <2>2 DEF LimiterTypeOK
    <2>7. \A k \in Key : limits[k] # Nil => limits'[k] # Nil
      BY <2>2 DEF LimiterTypeOK
    <2>8. CallOK(c)'
      BY <2>1, <2>4, <2>6 DEF CallOK
    <2> QED
      BY <1>6, <1>8, <2>5, <2>6, <2>7, <2>8 DEF Make, LimiterTypeOK
  <1>9. CASE ReadTime(q)
    <2> DEFINE c == [calls[q] EXCEPT !.now = clock, !.at = "filter"]
    <2>1. calls[q].at = "time"
      BY <1>9 DEF ReadTime, At
    <2>2. c \in Call /\ CallOK(c)
      <3>1. /\ c.at = "filter" /\ c.key = calls[q].key /\ c.counter = calls[q].counter
            /\ c.now = clock /\ c \in Call
        BY <1>2 DEF Call
      <3>2. clock \in 0..clock
        BY DEF Moment
      <3> HIDE DEF c
      <3> QED
        BY <1>2, <2>1, <3>1, <3>2 DEF CallOK
    <2>3. calls' = [calls EXCEPT ![q] = c]
      BY <1>9 DEF ReadTime, LimiterTypeOK
    <2> HIDE DEF c
    <2> QED
      BY <1>6, <1>9, <2>2, <2>3 DEF ReadTime, CallOK, LimiterTypeOK
  <1>10. ASSUME calls[q].at \in {"filter", "store", "test", "append"}
         PROVE  /\ calls[q].key \in Key /\ calls[q].counter \in Thread
                /\ calls[q].now \in 0..clock /\ calls[q].now \in Moment
                /\ Requests(q) \in Times
    <2>1. /\ calls[q].key \in Key /\ calls[q].counter \in Thread
          /\ calls[q].now \in 0..clock
      BY <1>2, <1>10 DEF Call, CallOK
    <2> QED
      BY <2>1 DEF Requests, LimiterTypeOK, Moment
  <1>11. CASE Filter(q)
    <2> DEFINE c == [calls[q] EXCEPT !.kept = Recent(Requests(q), calls[q].now), !.at = "store"]
    <2>1. calls[q].at = "filter"
      BY <1>11 DEF Filter, At
    <2>2. Recent(Requests(q), calls[q].now) \in Times
      BY <1>10, <2>1, RecentTyped
    <2>3. c \in Call /\ CallOK(c)
      BY <1>2, <2>1, <2>2 DEF Call, CallOK
    <2>4. calls' = [calls EXCEPT ![q] = c]
      BY <1>11 DEF Filter, LimiterTypeOK
    <2> HIDE DEF c
    <2> QED
      BY <1>6, <1>11, <2>3, <2>4 DEF Filter, CallOK, LimiterTypeOK
  <1>12. ASSUME NEW times \in Times, SetRequests(q, times),
                calls[q].at \in {"filter", "store", "test", "append"}
         PROVE  requests' \in [Key -> [Thread -> Times]]
    <2>1. calls[q].key \in Key /\ calls[q].counter \in Thread
      BY <1>10, <1>12
    <2> QED
      BY <1>12, <2>1 DEF SetRequests, LimiterTypeOK
  <1>13. CASE Store(q)
    <2> DEFINE c == [calls[q] EXCEPT !.at = "test"]
    <2>1. calls[q].at = "store"
      BY <1>13 DEF Store, At
    <2>2. c \in Call /\ CallOK(c)
      BY <1>2, <2>1 DEF Call, CallOK
    <2>3. calls' = [calls EXCEPT ![q] = c]
      BY <1>13 DEF Store, Goes, LimiterTypeOK
    <2>4. calls[q].kept \in Times
      BY <1>2 DEF Call
    <2>5. requests' \in [Key -> [Thread -> Times]]
      BY <1>12, <1>13, <2>1, <2>4 DEF Store
    <2> HIDE DEF c
    <2> QED
      BY <1>6, <1>13, <2>2, <2>3, <2>5 DEF Store, CallOK, LimiterTypeOK
  <1>14. CASE Refuse(q)
    BY <1>4, <1>6, <1>14 DEF Refuse, CallOK, LimiterTypeOK
  <1>15. CASE Pass(q)
    <2> DEFINE c == [calls[q] EXCEPT !.at = "append"]
    <2>1. calls[q].at = "test"
      BY <1>15 DEF Pass, At
    <2>2. c \in Call /\ CallOK(c)
      BY <1>2, <2>1 DEF Call, CallOK
    <2>3. calls' = [calls EXCEPT ![q] = c]
      BY <1>15 DEF Pass, Goes, LimiterTypeOK
    <2> HIDE DEF c
    <2> QED
      BY <1>6, <1>15, <2>2, <2>3 DEF Pass, CallOK, LimiterTypeOK
  <1>16. CASE Grant(q)
    <2> DEFINE more == [Requests(q) EXCEPT ![calls[q].now] = @ + 1]
    <2>1. calls[q].at = "append"
      BY <1>16 DEF Grant, At
    <2>2. calls[q].key \in Key /\ calls[q].now \in Moment /\ Requests(q) \in Times
      BY <1>10, <2>1
    <2>3. more \in Times
      BY <2>2 DEF Times
    <2>4. SetRequests(q, more)
      BY <1>16 DEF Grant
    <2>5. requests' \in [Key -> [Thread -> Times]]
      BY <1>12, <2>1, <2>3, <2>4
    <2>6. grants' \in [Key -> Times]
      <3>1. grants[calls[q].key] \in Times
        BY <2>2 DEF LimiterTypeOK
      <3>2. [grants[calls[q].key] EXCEPT ![calls[q].now] = @ + 1] \in Times
        BY <2>2, <3>1 DEF Times
      <3> QED
        BY <1>16, <2>2, <3>2 DEF Grant, LimiterTypeOK
    <2> QED
      BY <1>4, <1>6, <1>16, <2>5, <2>6 DEF Grant, CallOK, LimiterTypeOK
  <1> QED
    BY <1>1, <1>5, <1>7, <1>8, <1>9, <1>11, <1>13, <1>14, <1>15, <1>16

(* The counter of a key, its callers and what they have read of it fit     *)
(* together as long as no two calls of the key have overlapped.            *)
Tallied(k) ==
  /\ \A q, r \in Thread : calls[q].key = k /\ calls[r].key = k => q = r
  /\ limits[k] = Nil => grants[k] = NoTimes /\ \A q \in Thread : requests[k][q] = NoTimes
  /\ limits[k] # Nil =>
       \A t \in Moment : t > clock - Window => requests[k][limits[k]][t] = grants[k][t]

Fits(q) ==
  LET c == calls[q]
      k == c.key
  IN  /\ c.counter # Nil => c.counter = limits[k]
      /\ c.at = "make" => limits[k] = Nil
      /\ c.at = "filter" =>
           \A t \in Moment : t > c.now - Window => requests[k][limits[k]][t] = grants[k][t]
      /\ c.at = "store" => c.kept = Recent(grants[k], c.now)
      /\ c.at \in {"test", "append"} => requests[k][limits[k]] = Recent(grants[k], c.now)
      /\ c.at = "append" => Size(requests[k][limits[k]]) < MaxRequests

Exact ==
  \A k \in Key \ overlaps :
    Tallied(k) /\ \A q \in Thread : calls[q].key = k => Fits(q)

(* Which times are left depends on the times inside the window alone.      *)
LEMMA RecentSame ==
  ASSUME NEW f \in Times, NEW g \in Times, NEW now \in Moment,
         \A t \in Moment : t > now - Window => f[t] = g[t]
  PROVE  Recent(f, now) = Recent(g, now)
PROOF
  <1>1. ASSUME NEW t \in Moment
        PROVE  (IF t > now - Window THEN f[t] ELSE 0) = (IF t > now - Window THEN g[t] ELSE 0)
    OBVIOUS
  <1> QED
    BY <1>1, Zenon DEF Recent

(* A time inside a later window is kept by an earlier filter.              *)
LEMMA RecentKeeps ==
  ASSUME NEW f \in Times, NEW now \in Moment, NEW later \in Int, later >= now,
         NEW t \in Moment, t > later - Window
  PROVE  Recent(f, now)[t] = f[t]
PROOF
  BY LimiterAssumption, TimeAssumption DEF Recent, Moment

(* Without a counter there is nothing to tally.                            *)
LEMMA ExactInit ==
  ASSUME CallersInit, LimiterInit
  PROVE  Exact
PROOF
  BY LimiterAssumption DEF LimiterInit, Exact, Tallied, Fits, NoCall

(* Time only pushes entries out of the window, in the counter and in the   *)
(* record of grants alike.                                                 *)
LEMMA ExactTick ==
  ASSUME LimiterTypeOK, clock \in Moment, Exact, Tick, UNCHANGED limiterVars
  PROVE  Exact'
PROOF
  <1>1. clock' = clock + 1 /\ UNCHANGED limiterVars
    BY DEF Tick
  <1> SUFFICES ASSUME NEW k \in Key, k \notin overlaps
               PROVE  Tallied(k)' /\ \A q \in Thread : calls[q].key = k => Fits(q)'
    BY <1>1 DEF Exact, limiterVars
  <1>2. Tallied(k) /\ \A q \in Thread : calls[q].key = k => Fits(q)
    BY DEF Exact
  <1>3. Tallied(k)'
    <2>1. \A t \in Moment : t > clock' - Window => t > clock - Window
      BY <1>1, LimiterAssumption, TimeAssumption DEF Moment
    <2> QED
      BY <1>1, <1>2, <2>1 DEF Tallied, limiterVars
  <1> QED
    BY <1>1, <1>2, <1>3 DEF Fits, limiterVars

(* A step of thread q touches nothing of the keys that q does not call.    *)
LEMMA ExactStep ==
  ASSUME LimiterTypeOK, clock \in Moment, Exact, LimiterNext, UNCHANGED clock
  PROVE  Exact'
PROOF
  <1> USE TimeAssumption, LimiterAssumption
  <1>1. PICK q \in Thread :
          \/ \E k \in Key : Arrive(q, k)
          \/ Find(q) \/ Make(q) \/ ReadTime(q) \/ Filter(q) \/ Store(q)
          \/ Refuse(q) \/ Pass(q) \/ Grant(q)
    BY DEF LimiterNext
  <1>2. calls[q] \in Call /\ CallOK(calls[q]) /\ LimiterTypeOK'
    BY LimiterStepTyped DEF LimiterTypeOK
  <1> SUFFICES ASSUME NEW k \in Key, k \notin overlaps'
               PROVE  Tallied(k)' /\ \A r \in Thread : calls'[r].key = k => Fits(r)'
    BY DEF Exact
  <1>3. k \notin overlaps
    BY <1>1 DEF Arrive, Find, Make, ReadTime, Filter, Store, Refuse, Pass, Grant
  <1>4. Tallied(k) /\ \A r \in Thread : calls[r].key = k => Fits(r)
    BY <1>3 DEF Exact
  <1>5. ASSUME NEW j \in Key, Arrive(q, j)
        PROVE  Tallied(k)' /\ \A r \in Thread : calls'[r].key = k => Fits(r)'
    <2>1. UNCHANGED <<limits, requests, grants>> /\ calls[q].key = Nil
      <3>1. calls[q] = NoCall
        BY <1>2, <1>5 DEF Arrive, At, CallOK
      <3> QED
        <4>1. NoCall.key = Nil
          BY DEF NoCall
        <4> QED
          BY <1>5, <3>1, <4>1 DEF Arrive
    <2>2. CASE j # k
      <3>1. \A r \in Thread : calls'[r].key = k => r # q /\ calls'[r] = calls[r]
        <4>1. calls'[q].key = j
          BY <1>5 DEF Arrive, NoCall
        <4>2. ASSUME NEW r \in Thread, r # q
              PROVE  calls'[r] = calls[r] \/ calls'[r].key = j
          <5>1. calls[r] \in Call
            BY <1>2, <4>2 DEF LimiterTypeOK
          <5>2. CASE calls[r].key = j
            <6>1. calls'[r] = [calls[r] EXCEPT !.alone = FALSE]
              BY <1>5, <4>2, <5>2 DEF Arrive
            <6> QED
              BY <5>1, <5>2, <6>1 DEF Call
          <5>3. CASE calls[r].key # j
            BY <1>5, <4>2, <5>3 DEF Arrive
          <5> QED
            BY <5>2, <5>3
        <4> QED
          BY <2>2, <4>1, <4>2
      <3> QED
        BY <1>4, <2>1, <3>1 DEF Tallied, Fits
    <2>3. CASE j = k
      <3>1. \A r \in Thread : calls[r].key # k
        BY <1>5, <2>3 DEF Arrive
      <3>2. \A r \in Thread : r # q => calls'[r] = calls[r]
        BY <1>5, <2>3, <3>1 DEF Arrive
      <3>3. calls'[q].at = "find" /\ calls'[q].counter = Nil
        BY <1>5 DEF Arrive, NoCall
      <3> QED
        BY <1>4, <2>1, <3>1, <3>2, <3>3 DEF Tallied, Fits
    <2> QED
      BY <2>2, <2>3
  <1>6. CASE ~\E j \in Key : Arrive(q, j)
    <2>1. /\ calls[q].key \in Key
          /\ \A r \in Thread : r # q => calls'[r] = calls[r]
          /\ calls'[q].key \in {calls[q].key, Nil}
      <3>1. calls[q].at # "idle"
        BY <1>1, <1>6 DEF Find, Make, ReadTime, Filter, Store, Refuse, Pass, Grant, At
      <3>2. calls[q].key \in Key
        BY <1>2, <3>1 DEF CallOK
      <3>3. /\ \A r \in Thread : r # q => calls'[r] = calls[r]
            /\ calls'[q].key \in {calls[q].key, Nil}
        <4>1. calls \in [Thread -> Call] /\ calls[q] \in Call
          BY <1>2 DEF LimiterTypeOK
        <4>2. CASE Find(q) \/ ReadTime(q)
          BY <4>1, <4>2 DEF Find, ReadTime, Call
        <4>3. CASE Make(q) \/ Filter(q)
          BY <4>1, <4>3 DEF Make, Filter, Call
        <4>4. CASE Store(q) \/ Pass(q)
          BY <4>1, <4>4 DEF Store, Pass, Goes, Call
        <4>5. CASE Refuse(q) \/ Grant(q)
          BY <4>1, <4>5 DEF Refuse, Grant, NoCall
        <4> QED
          BY <1>1, <1>6, <4>2, <4>3, <4>4, <4>5
      <3> QED
        BY <3>2, <3>3
    <2>2. CASE calls[q].key # k
      <3>1. limits'[k] = limits[k] /\ requests'[k] = requests[k] /\ grants'[k] = grants[k]
        <4>1. CASE UNCHANGED <<limits, requests, grants>>
          BY <4>1
        <4>2. CASE Make(q)
          BY <2>2, <4>2 DEF Make, LimiterTypeOK
        <4>3. CASE Store(q)
          BY <2>2, <4>3 DEF Store, SetRequests, LimiterTypeOK
        <4>4. CASE Grant(q)
          BY <2>2, <4>4 DEF Grant, SetRequests, LimiterTypeOK
        <4> QED
          BY <1>1, <1>6, <4>1, <4>2, <4>3, <4>4 DEF Find, ReadTime, Filter, Refuse, Pass
      <3>2. \A r \in Thread : calls'[r].key = k => calls[r].key = k /\ calls'[r] = calls[r]
        BY <2>1, <2>2
      <3>3. Tallied(k)'
        BY <1>4, <3>1, <3>2 DEF Tallied
      <3>4. ASSUME NEW r \in Thread, calls'[r].key = k
            PROVE  Fits(r)'
        <4>1. Fits(r) /\ calls'[r] = calls[r] /\ calls[r].key = k
          BY <1>4, <3>2, <3>4
        <4> QED
          BY <3>1, <4>1 DEF Fits
      <3> QED
        BY <3>3, <3>4
    <2>3. CASE calls[q].key = k
      <3> DEFINE c == calls[q]
                 l == limits[k]
      <3>0. Fits(q) /\ \A r \in Thread : calls[r].key = k => r = q
        BY <1>4, <2>3 DEF Tallied
      <3>00. \A r \in Thread : calls'[r].key = k => r = q
        BY <2>1, <3>0
      <3>a. ASSUME limits'[k] = Nil => grants'[k] = NoTimes /\ \A r \in Thread : requests'[k][r] = NoTimes,
                   limits'[k] # Nil =>
                     \A t \in Moment : t > clock - Window => requests'[k][limits'[k]][t] = grants'[k][t],
                   calls'[q].key = k => Fits(q)'
            PROVE  Tallied(k)' /\ \A r \in Thread : calls'[r].key = k => Fits(r)'
        <4>1. Tallied(k)'
          BY <3>00, <3>a DEF Tallied
        <4> QED
          BY <3>00, <3>a, <4>1
      <3>b. ASSUME UNCHANGED <<limits, requests, grants>>, calls'[q].key = k => Fits(q)'
            PROVE  Tallied(k)' /\ \A r \in Thread : calls'[r].key = k => Fits(r)'
        BY <1>4, <3>a, <3>b DEF Tallied
      <3>1. CASE Find(q)
        <4>1. /\ calls'[q].counter = limits[k] /\ calls'[q].key = k
              /\ calls'[q].at = IF limits[k] = Nil THEN "make" ELSE "time"
          BY <1>2, <2>3, <3>1 DEF Find, LimiterTypeOK, Call
        <4> QED
          <5>1. UNCHANGED <<limits, requests, grants>>
            BY <3>1 DEF Find
          <5>2. Fits(q)'
            BY <4>1, <5>1 DEF Fits
          <5> QED
            BY <3>b, <5>1, <5>2
      <3>2. CASE Make(q)
        <4>1. c.at = "make" /\ limits[k] = Nil
          BY <2>3, <3>0, <3>2 DEF Make, At, Fits
        <4>2. limits'[k] = q /\ UNCHANGED <<requests, grants>>
          BY <2>3, <3>2 DEF Make, LimiterTypeOK
        <4>3. calls'[q].counter = q /\ calls'[q].at = "time" /\ calls'[q].key = k
          BY <1>2, <2>3, <3>2 DEF Make, LimiterTypeOK, Call
        <4>4. requests'[k][limits'[k]] = grants'[k] /\ limits'[k] # Nil
          BY <1>4, <4>1, <4>2 DEF Tallied
        <4> QED
          BY <3>a, <4>2, <4>3, <4>4 DEF Fits
      <3>3. CASE ReadTime(q)
        <4>1. c.at = "time" /\ c.counter = l /\ l # Nil
          BY <1>2, <2>3, <3>0, <3>3 DEF ReadTime, At, Fits, CallOK
        <4>2. /\ calls'[q].key = k /\ calls'[q].counter = c.counter
              /\ calls'[q].at = "filter" /\ calls'[q].now = clock
          BY <1>2, <2>3, <3>3 DEF ReadTime, LimiterTypeOK, Call
        <4> QED
          <5>1. UNCHANGED <<limits, requests, grants>>
            BY <3>3 DEF ReadTime
          <5>2. \A t \in Moment : t > clock - Window => requests[k][limits[k]][t] = grants[k][t]
            BY <1>4, <4>1 DEF Tallied
          <5>3. Fits(q)'
            BY <4>1, <4>2, <5>1, <5>2 DEF Fits
          <5> QED
            BY <3>b, <5>1, <5>3
      <3>4. ASSUME c.at \in {"filter", "store", "test", "append"}
            PROVE  /\ l \in Thread /\ c.counter = l /\ c.now \in Moment /\ c.now <= clock
                   /\ Requests(q) = requests[k][l] /\ Requests(q) \in Times /\ grants[k] \in Times
        <4>1. c.counter # Nil /\ c.now \in 0..clock
          BY <1>2, <3>4 DEF CallOK
        <4>2. c.counter = l /\ l \in Thread
          BY <1>2, <2>3, <3>0, <4>1 DEF Fits, Call
        <4> QED
          BY <2>3, <4>1, <4>2 DEF Requests, LimiterTypeOK, Moment
      <3>5. CASE Filter(q)
        <4>1. c.at = "filter"
          BY <3>5 DEF Filter, At
        <4>2. /\ calls'[q].key = k /\ calls'[q].counter = c.counter
              /\ calls'[q].at = "store" /\ calls'[q].now = c.now
              /\ calls'[q].kept = Recent(Requests(q), c.now)
          BY <1>2, <2>3, <3>5 DEF Filter, LimiterTypeOK, Call
        <4>3. Recent(Requests(q), c.now) = Recent(grants[k], c.now)
          <5>1. \A t \in Moment : t > c.now - Window => Requests(q)[t] = grants[k][t]
            BY <2>3, <3>0, <3>4, <4>1 DEF Fits
          <5> QED
            BY <3>4, <4>1, <5>1, RecentSame
        <4> QED
          BY <3>b, <3>4, <3>5, <4>1, <4>2, <4>3 DEF Fits, Filter
      <3>6. CASE Store(q)
        <4>1. c.at = "store" /\ c.kept = Recent(grants[k], c.now)
          BY <2>3, <3>0, <3>6 DEF Store, At, Fits
        <4>2. /\ calls'[q].key = k /\ calls'[q].counter = c.counter
              /\ calls'[q].at = "test" /\ calls'[q].now = c.now
          BY <1>2, <2>3, <3>6 DEF Store, Goes, LimiterTypeOK, Call
        <4>3. requests'[k][l] = Recent(grants[k], c.now) /\ UNCHANGED <<limits, grants>>
          BY <2>3, <3>4, <3>6, <4>1 DEF Store, SetRequests, LimiterTypeOK
        <4>4. \A t \in Moment : t > clock - Window => requests'[k][l][t] = grants[k][t]
          BY <3>4, <4>1, <4>3, RecentKeeps DEF Moment
        <4> QED
          BY <3>a, <3>4, <4>1, <4>2, <4>3, <4>4 DEF Fits
      <3>7. CASE Refuse(q)
        <4>1. calls'[q].key # k
          BY <1>2, <3>7 DEF Refuse, NoCall, LimiterTypeOK
        <4> QED
          BY <3>b, <3>7, <4>1 DEF Refuse
      <3>8. CASE Pass(q)
        <4>1. c.at = "test" /\ Size(Requests(q)) < MaxRequests
          BY <3>8 DEF Pass, At
        <4>2. /\ calls'[q].key = k /\ calls'[q].counter = c.counter
              /\ calls'[q].at = "append" /\ calls'[q].now = c.now
          BY <1>2, <2>3, <3>8 DEF Pass, Goes, LimiterTypeOK, Call
        <4>3. requests[k][limits[k]] = Recent(grants[k], c.now)
          BY <2>3, <3>0, <4>1 DEF Fits
        <4> QED
          BY <3>b, <3>4, <3>8, <4>1, <4>2, <4>3 DEF Fits, Pass
      <3>9. CASE Grant(q)
        <4>1. c.at = "append" /\ requests[k][l] = Recent(grants[k], c.now)
          BY <2>3, <3>0, <3>9 DEF Grant, At, Fits
        <4>2. calls'[q].key # k /\ UNCHANGED limits
          BY <1>2, <3>9 DEF Grant, NoCall, LimiterTypeOK
        <4>3. requests'[k][l] = [requests[k][l] EXCEPT ![c.now] = @ + 1]
          BY <2>3, <3>4, <3>9, <4>1 DEF Grant, SetRequests, LimiterTypeOK
        <4>4. grants'[k] = [grants[k] EXCEPT ![c.now] = @ + 1]
          BY <2>3, <3>9, <4>1 DEF Grant, LimiterTypeOK
        <4>5. ASSUME NEW t \in Moment, t > clock - Window
              PROVE  requests'[k][l][t] = grants'[k][t]
          <5>1. requests[k][l][t] = grants[k][t]
            BY <3>4, <4>1, <4>5, RecentKeeps DEF Moment
          <5> QED
            BY <3>4, <4>1, <4>3, <4>4, <5>1 DEF Times
        <4> QED
          BY <3>a, <3>4, <4>1, <4>2, <4>5 DEF Fits
      <3> QED
        BY <1>1, <1>6, <3>1, <3>2, <3>3, <3>5, <3>6, <3>7, <3>8, <3>9
    <2> QED
      BY <2>2, <2>3
  <1> QED
    BY <1>5, <1>6

AtMost(f, g) == \A t \in Moment : f[t] <= g[t]

(* Threads that overlap lose entries and bring back old ones, but nothing  *)
(* is in a counter, or about to be put there, that was not granted; and    *)
(* nobody touches the counter of a call that is alone.                     *)
Within(q) ==
  LET c == calls[q]
      recent == Recent(grants[c.key], c.now)
  IN  /\ c.alone => \A r \in Thread : calls[r].key = c.key => r = q
      /\ c.at = "store" => AtMost(c.kept, recent)
      /\ c.at = "test" /\ c.alone => AtMost(Requests(q), recent)

OnlyGranted ==
  /\ \A k \in Key, q \in Thread : AtMost(requests[k][q], grants[k])
  /\ \A q \in Thread : calls[q].key # Nil => Within(q)

(* Where there is more, there is more left of it in a window.              *)
LEMMA RecentAtMost ==
  ASSUME NEW f \in Times, NEW g \in Times, AtMost(f, g), NEW now
  PROVE  AtMost(Recent(f, now), Recent(g, now)) /\ AtMost(Recent(g, now), g)
PROOF
  BY DEF AtMost, Recent, Times

(* A smaller bag has a smaller size.                                       *)
LEMMA SizeMonotone ==
  ASSUME NEW f \in Times, NEW g \in Times, AtMost(f, g)
  PROVE  Size(f) \in Int /\ Size(g) \in Int /\ Size(f) <= Size(g)
PROOF
  <1>1. IsFiniteSet(Moment)
    BY TimeAssumption, FS_Interval DEF Moment
  <1>2. \A t \in Moment : f[t] \in Int /\ g[t] \in Int /\ f[t] <= g[t]
    BY DEF Times, AtMost
  <1> QED
    BY <1>1, <1>2, SumInt, SumMonotone DEF Size

(* Nobody has called yet, and nothing was granted.                         *)
LEMMA OnlyGrantedInit ==
  ASSUME CallersInit, LimiterInit
  PROVE  OnlyGranted
PROOF
  BY LimiterAssumption DEF LimiterInit, OnlyGranted, AtMost, NoTimes, NoCall

(* A step of thread q adds to its counter what it adds to the grants.      *)
LEMMA OnlyGrantedStep ==
  ASSUME LimiterTypeOK, clock \in Moment, OnlyGranted, LimiterNext, UNCHANGED clock
  PROVE  OnlyGranted'
PROOF
  <1> USE TimeAssumption, LimiterAssumption
  <1>1. PICK q \in Thread :
          \/ \E k \in Key : Arrive(q, k)
          \/ Find(q) \/ Make(q) \/ ReadTime(q) \/ Filter(q) \/ Store(q)
          \/ Refuse(q) \/ Pass(q) \/ Grant(q)
    BY DEF LimiterNext
  <1>2. calls[q] \in Call /\ CallOK(calls[q]) /\ calls \in [Thread -> Call] /\ LimiterTypeOK'
    BY LimiterStepTyped DEF LimiterTypeOK
  <1>3. ASSUME NEW k \in Key, Arrive(q, k)
        PROVE  OnlyGranted'
    <2> DEFINE others == {r \in Thread : calls[r].key = k}
               mine == [NoCall EXCEPT !.at = "find", !.key = k, !.alone = others = {}]
    <2>1. UNCHANGED <<requests, grants>>
      BY <1>3 DEF Arrive
    <2>2. calls[q].key = Nil
      <3>1. calls[q] = NoCall
        BY <1>2, <1>3 DEF Arrive, At, CallOK
      <3> QED
        BY <3>1 DEF NoCall
    <2>3. calls'[q] = mine /\ mine.at = "find" /\ mine.key = k /\ mine.alone = (others = {})
      BY <1>3 DEF Arrive, NoCall
    <2>4. ASSUME NEW r \in Thread, r # q
          PROVE  calls'[r] = IF r \in others THEN [calls[r] EXCEPT !.alone = FALSE] ELSE calls[r]
      BY <1>3, <2>4 DEF Arrive
    <2> HIDE DEF mine
    <2>5. ASSUME NEW r \in Thread, r # q
          PROVE  /\ calls'[r].key = calls[r].key /\ calls'[r].at = calls[r].at
                 /\ calls'[r].now = calls[r].now /\ calls'[r].kept = calls[r].kept
                 /\ calls'[r].counter = calls[r].counter
                 /\ calls'[r].alone => calls[r].alone /\ calls[r].key # k
      <3>1. calls[r] \in Call
        BY <1>2
      <3>2. CASE r \in others
        <4>1. calls'[r] = [calls[r] EXCEPT !.alone = FALSE]
          BY <2>4, <2>5, <3>2
        <4> QED
          BY <3>1, <4>1 DEF Call
      <3>3. CASE r \notin others
        <4>1. calls'[r] = calls[r] /\ calls[r].key # k
          BY <2>4, <2>5, <3>3
        <4> QED
          BY <4>1
      <3> QED
        BY <3>2, <3>3
    <2>6. ASSUME NEW r \in Thread, calls'[r].key # Nil
          PROVE  Within(r)'
      <3>1. CASE r = q
        BY <2>3, <2>5, <3>1 DEF Within
      <3>2. CASE r # q
        <4>1. Within(r)
          BY <2>5, <2>6, <3>2 DEF OnlyGranted
        <4>2. calls'[r].alone => \A s \in Thread : calls'[s].key = calls'[r].key => s = r
          BY <2>3, <2>5, <3>2, <4>1 DEF Within
        <4> QED
          BY <2>1, <2>5, <3>2, <4>1, <4>2 DEF Within, Requests, AtMost
      <3> QED
        BY <3>1, <3>2
    <2> QED
      BY <2>1, <2>6 DEF OnlyGranted
  <1>4. CASE Find(q) \/ Make(q) \/ ReadTime(q) \/ Filter(q) \/ Store(q)
             \/ Refuse(q) \/ Pass(q) \/ Grant(q)
    <2> DEFINE c == calls[q]
    <2>1. /\ \A r \in Thread : r # q => calls'[r] = calls[r]
          /\ calls'[q].key \in {c.key, Nil}
          /\ calls'[q].key # Nil => calls'[q].alone = c.alone
      <3>1. c.key \in Key \cup {Nil}
        BY <1>2 DEF Call
      <3>2. CASE Refuse(q) \/ Grant(q)
        BY <1>2, <3>2 DEF Refuse, Grant, NoCall
      <3>3. CASE Find(q) \/ Make(q) \/ ReadTime(q) \/ Filter(q)
        BY <1>2, <3>3 DEF Find, Make, ReadTime, Filter, Call
      <3>4. CASE Store(q) \/ Pass(q)
        BY <1>2, <3>4 DEF Store, Pass, Goes, Call
      <3> QED
        BY <1>4, <3>2, <3>3, <3>4
    <2>2. ASSUME c.at \in {"filter", "store", "test", "append"}
          PROVE  /\ c.key \in Key /\ c.counter \in Thread /\ c.now \in Moment /\ c.key # Nil
                 /\ Requests(q) = requests[c.key][c.counter] /\ Requests(q) \in Times
                 /\ grants[c.key] \in Times /\ c.kept \in Times
      BY <1>2, <2>2 DEF Call, CallOK, Requests, LimiterTypeOK, Moment
    <2>3. CASE ~Store(q) /\ ~Grant(q)
      <3>1. UNCHANGED <<requests, grants>>
        BY <1>4, <2>3 DEF Find, Make, ReadTime, Filter, Refuse, Pass
      <3>2. ASSUME NEW r \in Thread, calls'[r].key # Nil
            PROVE  Within(r)'
        <4>1. calls[r].key = calls'[r].key /\ Within(r)
          BY <2>1, <3>2 DEF OnlyGranted
        <4>2. calls'[r].alone => \A s \in Thread : calls'[s].key = calls'[r].key => s = r
          BY <2>1, <3>2, <4>1 DEF Within
        <4>3. CASE r # q
          BY <2>1, <3>1, <4>1, <4>2, <4>3 DEF Within, Requests, AtMost
        <4>4. CASE r = q /\ Filter(q)
          <5>1. /\ calls'[q].at = "store" /\ calls'[q].now = c.now
                /\ calls'[q].kept = Recent(Requests(q), c.now)
            BY <1>2, <4>4 DEF Filter, Call
          <5>2. AtMost(Requests(q), grants[c.key])
            BY <2>2, <4>4 DEF OnlyGranted, Filter, At
          <5>3. AtMost(Recent(Requests(q), c.now), Recent(grants[c.key], c.now))
            BY <2>2, <4>4, <5>2, RecentAtMost DEF Filter, At
          <5> QED
            BY <3>1, <4>1, <4>2, <4>4, <5>1, <5>3 DEF Within, AtMost
        <4>5. CASE r = q /\ ~Filter(q)
          <5>1. calls'[q].at \notin {"store", "test"}
            <6>1. Find(q) \/ Make(q) \/ ReadTime(q) \/ Pass(q) \/ Refuse(q)
              BY <1>4, <2>3, <4>5
            <6> QED
              BY <1>2, <6>1 DEF Find, Make, ReadTime, Pass, Refuse, Goes, Call, NoCall
          <5> QED
            BY <4>2, <4>5, <5>1 DEF Within
        <4> QED
          BY <4>3, <4>4, <4>5
      <3> QED
        BY <3>1, <3>2 DEF OnlyGranted, AtMost
    <2>4. CASE Store(q) \/ Grant(q)
      <3>1. c.at = (IF Store(q) THEN "store" ELSE "append") /\ c.key \in Key /\ c.counter \in Thread
        <4>1. c.at = (IF Store(q) THEN "store" ELSE "append")
          BY <2>4 DEF Store, Grant, At
        <4> QED
          BY <2>2, <4>1
      <3> DEFINE k == c.key
                 new == requests'[k][c.counter]
      <3>2. /\ Store(q) => new = c.kept
            /\ Grant(q) => new = [Requests(q) EXCEPT ![c.now] = @ + 1]
        BY <3>1 DEF Store, Grant, SetRequests, LimiterTypeOK
      <3>3. \A j \in Key, r \in Thread :
              j # k \/ r # c.counter => requests'[j][r] = requests[j][r]
        BY <2>4, <3>1 DEF Store, Grant, SetRequests, LimiterTypeOK
      <3>4. /\ Store(q) => grants' = grants
            /\ Grant(q) => grants' = [grants EXCEPT ![k][c.now] = @ + 1]
        BY DEF Store, Grant
      <3>5. \A j \in Key : grants[j] \in Times /\ grants'[j] \in Times /\ AtMost(grants[j], grants'[j])
        <4>1. \A j \in Key : grants[j] \in Times /\ grants'[j] \in Times
          BY <1>2 DEF LimiterTypeOK
        <4>2. CASE Store(q)
          BY <3>4, <4>1, <4>2 DEF AtMost, Times
        <4>3. CASE Grant(q)
          <5>1. c.now \in Moment
            BY <2>2, <4>3 DEF Grant, At
          <5>2. ASSUME NEW j \in Key, NEW t \in Moment
                PROVE  grants[j][t] <= grants'[j][t]
            <6>1. grants[j][t] \in Nat
              BY <4>1 DEF Times
            <6>2. \/ grants'[j][t] = grants[j][t]
                  \/ grants'[j][t] = grants[j][t] + 1
              <7>1. grants'[j] = IF j = k THEN [grants[j] EXCEPT ![c.now] = @ + 1] ELSE grants[j]
                BY <3>1, <3>4, <4>3 DEF LimiterTypeOK
              <7> QED
                BY <4>1, <7>1 DEF Times
            <6> QED
              BY <6>1, <6>2
          <5> QED
            BY <4>1, <5>2 DEF AtMost
        <4> QED
          BY <2>4, <4>1, <4>2, <4>3
      <3>6. AtMost(new, grants'[k])
        <4>1. CASE Store(q)
          <5>1. AtMost(c.kept, Recent(grants[k], c.now))
            BY <2>2, <3>1, <4>1 DEF OnlyGranted, Within
          <5>2. AtMost(Recent(grants[k], c.now), grants[k])
            BY <2>2, <3>1, <3>5, <4>1, RecentAtMost DEF AtMost, Times
          <5>3. Recent(grants[k], c.now) \in Times
            BY <2>2, <3>1, <4>1, RecentTyped
          <5> QED
            BY <2>2, <3>1, <3>2, <3>4, <4>1, <5>1, <5>2, <5>3 DEF AtMost, Times
        <4>2. CASE Grant(q)
          <5>1. c.at = "append"
            BY <4>2 DEF Grant, At
          <5>2. AtMost(Requests(q), grants[k])
            BY <2>2, <5>1 DEF OnlyGranted
          <5>3. grants'[k] = [grants[k] EXCEPT ![c.now] = @ + 1]
            BY <3>1, <3>4, <4>2 DEF LimiterTypeOK
          <5>4. ASSUME NEW t \in Moment
                PROVE  new[t] <= grants'[k][t]
            <6>1. Requests(q) \in Times /\ grants[k] \in Times /\ c.now \in Moment
              BY <2>2, <5>1
            <6>2. Requests(q)[t] \in Nat /\ grants[k][t] \in Nat /\ Requests(q)[t] <= grants[k][t]
              BY <5>2, <6>1 DEF AtMost, Times
            <6>3. new[t] = (IF t = c.now THEN Requests(q)[t] + 1 ELSE Requests(q)[t])
              BY <3>2, <4>2, <6>1 DEF Times
            <6>4. grants'[k][t] = (IF t = c.now THEN grants[k][t] + 1 ELSE grants[k][t])
              BY <5>3, <6>1 DEF Times
            <6> HIDE DEF new
            <6> QED
              BY <6>2, <6>3, <6>4
          <5> QED
            BY <5>4 DEF AtMost
        <4> QED
          BY <2>4, <4>1, <4>2
      <3>7. \A j \in Key, r \in Thread : AtMost(requests'[j][r], grants'[j])
        <4> SUFFICES ASSUME NEW j \in Key, NEW r \in Thread, j # k \/ r # c.counter
                     PROVE  AtMost(requests'[j][r], grants'[j])
          BY <3>6
        <4>1. requests'[j][r] = requests[j][r] /\ AtMost(requests[j][r], grants[j])
          BY <3>3 DEF OnlyGranted
        <4> QED
          BY <3>5, <4>1 DEF AtMost, Times, LimiterTypeOK
      <3>8. ASSUME NEW r \in Thread, calls'[r].key # Nil
            PROVE  Within(r)'
        <4>1. calls[r].key = calls'[r].key /\ Within(r)
          BY <2>1, <3>8 DEF OnlyGranted
        <4>2. calls'[r].alone => \A s \in Thread : calls'[s].key = calls'[r].key => s = r
          BY <2>1, <3>8, <4>1 DEF Within
        <4>3. CASE r # q
          <5> DEFINE d == calls[r]
          <5>1. calls'[r] = d /\ d.key \in Key /\ d \in Call /\ CallOK(d)
            BY <1>2, <2>1, <3>8, <4>3 DEF Call, LimiterTypeOK
          <5>2. ASSUME d.at \in {"store", "test"}
                PROVE  /\ d.now \in Moment
                       /\ Recent(grants[d.key], d.now) \in Times
                       /\ AtMost(Recent(grants[d.key], d.now), Recent(grants'[d.key], d.now))
            <6>1. d.now \in Moment
              BY <5>1, <5>2 DEF CallOK, Moment
            <6> QED
              BY <3>5, <5>1, <6>1, RecentTyped, RecentAtMost
          <5>3. ASSUME d.at = "store"
                PROVE  AtMost(d.kept, Recent(grants'[d.key], d.now))
            <6>1. Recent(grants'[d.key], d.now) \in Times
              BY <3>5, <5>1, <5>2, <5>3, RecentTyped
            <6> QED
              BY <4>1, <5>1, <5>2, <5>3, <6>1 DEF Within, AtMost, Times, Call
          <5>4. ASSUME d.at = "test", d.alone
                PROVE  AtMost(requests'[d.key][d.counter], Recent(grants'[d.key], d.now))
            <6>1. d.key # k
              BY <3>1, <4>1, <4>3, <5>4 DEF Within
            <6>2. d.counter \in Thread
              BY <5>1, <5>4 DEF CallOK, Call
            <6>3. requests'[d.key][d.counter] = Requests(r) /\ Requests(r) \in Times
              BY <3>3, <5>1, <6>1, <6>2 DEF Requests, LimiterTypeOK
            <6>4. Recent(grants'[d.key], d.now) \in Times
              BY <3>5, <5>1, <5>2, <5>4, RecentTyped
            <6> QED
              BY <4>1, <5>2, <5>4, <6>3, <6>4 DEF Within, AtMost, Times
          <5> QED
            BY <4>2, <5>1, <5>3, <5>4 DEF Within, Requests, AtMost, Recent
        <4>4. CASE r = q
          <5>1. Store(q)
            BY <1>2, <2>4, <3>8, <4>4 DEF Grant, NoCall, LimiterTypeOK
          <5>2. /\ calls'[q].at = "test" /\ calls'[q].now = c.now
                /\ calls'[q].key = k /\ calls'[q].counter = c.counter
            BY <1>2, <5>1 DEF Store, Goes, Call
          <5>3. AtMost(c.kept, Recent(grants[k], c.now))
            BY <3>1, <4>1, <4>4, <5>1 DEF Within
          <5> QED
            BY <3>2, <3>4, <4>2, <4>4, <5>1, <5>2, <5>3 DEF Within, Requests, AtMost
        <4> QED
          BY <4>3, <4>4
      <3> QED
        BY <3>7, <3>8 DEF OnlyGranted
    <2> QED
      BY <1>4, <2>3, <2>4
  <1> QED
    BY <1>1, <1>3, <1>4

(* A call that is alone is refused for what was granted in its window.     *)
LEMMA RefusedForGranted ==
  ASSUME LimiterTypeOK, clock \in Moment, OnlyGranted,
         NEW q \in Thread, Refuse(q), calls[q].alone
  PROVE  GrantedBefore(calls[q].key, calls[q].now) >= MaxRequests
PROOF
  <1> DEFINE c == calls[q]
             recent == Recent(grants[c.key], c.now)
  <1>1. c.at = "test" /\ Size(Requests(q)) >= MaxRequests
    BY DEF Refuse, At
  <1>2. c.key \in Key /\ c.counter \in Thread /\ c.now \in Moment /\ c.key # Nil
    <2>1. c \in Call /\ CallOK(c)
      BY DEF LimiterTypeOK
    <2>2. c.key \in Key /\ c.counter # Nil /\ c.now \in 0..clock
      BY <1>1, <2>1 DEF CallOK
    <2> QED
      BY <2>1, <2>2, LimiterAssumption, TimeAssumption DEF Call, Moment
  <1>3. Requests(q) \in Times /\ recent \in Times
    BY <1>2, RecentTyped DEF Requests, LimiterTypeOK
  <1>4. AtMost(Requests(q), recent)
    BY <1>1, <1>2 DEF OnlyGranted, Within
  <1>5. GrantedBefore(c.key, c.now) = Size(recent)
    BY DEF GrantedBefore, Recent
  <1> HIDE DEF recent
  <1> QED
    BY <1>1, <1>3, <1>4, <1>5, SizeMonotone, LimiterAssumption

-----------------------------------------------------------------------------
(***************************************************************************)
(* The API keys.  What the session that holds the write lock has not       *)
(* committed yet agrees with what is committed on every revoked key.       *)
(***************************************************************************)

(* What is not committed yet leaves no key out, and of a revoked one it    *)
(* changes the time of its use only.                                       *)
DraftKeeps ==
  owner # Nil =>
    \A k \in KeyId : keys[k] # Nil =>
      /\ draft[k] # Nil
      /\ ~keys[k].active => draft[k] = [keys[k] EXCEPT !.used = draft[k].used]

KeysInv == KeysTypeOK /\ DraftKeeps

(* The empty table satisfies the invariant.                                *)
LEMMA KeysInitInv ==
  ASSUME KeysInit
  PROVE  KeysInv
PROOF
  <1>1. NoJob \in Job /\ NoJob.at = "idle"
    BY DEF NoJob, Job
  <1> QED
    BY <1>1, KeysAssumption DEF KeysInit, KeysInv, KeysTypeOK, DraftKeeps, KeyTable

(* The first write of a session that leaves no key out and changes nothing *)
(* of a revoked one but the time of its use.                               *)
LEMMA WritesInv ==
  ASSUME KeysInv, NEW s \in Session, NEW rows \in KeyTable, Writes(s, rows),
         \A k \in KeyId : keys[k] # Nil =>
           rows[k] # Nil /\ (~keys[k].active => rows[k] = [keys[k] EXCEPT !.used = rows[k].used])
  PROVE  KeysInv'
PROOF
  <1>1. owner = Nil /\ owner' = s /\ draft' = rows /\ UNCHANGED keys
    BY DEF Writes
  <1>2. s # Nil
    BY KeysAssumption
  <1>3. jobs' = [jobs EXCEPT ![s].at = "commit"]
    BY DEF Writes
  <1>4. /\ jobs' \in [Session -> Job] /\ jobs'[s].at = "commit"
        /\ \A r \in Session : r # s => jobs'[r] = jobs[r]
    BY <1>3 DEF KeysInv, KeysTypeOK, Job
  <1>5. \A r \in Session : jobs'[r].at = "commit" <=> owner' = r
    <2>1. \A r \in Session : r # s => jobs[r].at # "commit"
      BY <1>1, KeysAssumption DEF KeysInv, KeysTypeOK
    <2> QED
      BY <1>1, <1>4, <2>1
  <1>6. \A r \in Session : jobs'[r].at \in {"touch", "mark"} =>
          jobs'[r].key # Nil /\ keys'[jobs'[r].key] # Nil /\ jobs'[r].read # Nil
    BY <1>1, <1>4 DEF KeysInv, KeysTypeOK
  <1>7. KeysTypeOK'
    BY <1>1, <1>2, <1>4, <1>5, <1>6 DEF KeysInv, KeysTypeOK
  <1>8. DraftKeeps'
    BY <1>1 DEF DraftKeeps
  <1> QED
    BY <1>7, <1>8 DEF KeysInv

(* A request that goes on to its write or ends, and does not hold the      *)
(* lock.                                                                   *)
LEMMA JobInv ==
  ASSUME KeysInv, NEW s \in Session, NEW job \in Job, jobs' = [jobs EXCEPT ![s] = job],
         UNCHANGED <<keys, draft, owner>>, owner # s, job.at # "commit",
         job.at \in {"touch", "mark"} => job.key # Nil /\ keys[job.key] # Nil /\ job.read # Nil
  PROVE  KeysInv'
PROOF
  <1>1. /\ jobs' \in [Session -> Job] /\ jobs'[s] = job
        /\ \A r \in Session : r # s => jobs'[r] = jobs[r]
    BY DEF KeysInv, KeysTypeOK
  <1>2. KeysTypeOK'
    BY <1>1 DEF KeysInv, KeysTypeOK
  <1>3. DraftKeeps'
    BY DEF KeysInv, DraftKeeps
  <1> QED
    BY <1>2, <1>3 DEF KeysInv

(* Every step of a session on the table of keys.                           *)
LEMMA KeysStepInv ==
  ASSUME KeysInv, clock \in 0..MaxTime, KeysNext
  PROVE  KeysInv'
PROOF
  <1>0. PICK s \in Session :
          \/ \E k \in KeyId, u \in User : CreateKey(s, k, u) \/ RevokeKey(s, k, u)
          \/ \E k \in KeyId : UseKey(s, k)
          \/ Touch(s) \/ Mark(s) \/ MarkAgain(s) \/ Commit(s) \/ Rollback(s)
    BY DEF KeysNext
  <1>1. /\ keys \in KeyTable /\ jobs[s] \in Job
        /\ jobs[s].at = "commit" <=> owner = s
        /\ jobs[s].at \in {"touch", "mark"} =>
             /\ jobs[s].key \in KeyId /\ keys[jobs[s].key] \in KeyRow /\ keys[jobs[s].key] # Nil
             /\ jobs[s].read # Nil
    BY DEF KeysInv, KeysTypeOK, Job, KeyTable
  <1>2. NoJob \in Job /\ NoJob.at = "idle"
    BY DEF NoJob, Job
  <1>3. Nil \notin KeyRow
    BY KeysAssumption DEF KeyRow
  <1>4. ASSUME NEW k \in KeyId, NEW u \in User, CreateKey(s, k, u)
        PROVE  KeysInv'
    <2> DEFINE row == [user |-> u, active |-> TRUE, used |-> Nil]
               rows == [keys EXCEPT ![k] = row]
    <2>1. row \in KeyRow
      BY DEF KeyRow
    <2>2. rows \in KeyTable /\ \A j \in KeyId : keys[j] # Nil => rows[j] = keys[j]
      BY <1>1, <1>4, <2>1 DEF KeyTable, CreateKey
    <2>3. \A j \in KeyId : keys[j] # Nil =>
            rows[j] # Nil /\ (~keys[j].active => rows[j] = [keys[j] EXCEPT !.used = rows[j].used])
      BY <1>1, <2>2 DEF KeyTable, KeyRow
    <2>4. Writes(s, rows)
      BY <1>4 DEF CreateKey
    <2> HIDE DEF rows
    <2> QED
      BY <2>2, <2>3, <2>4, WritesInv
  <1>5. ASSUME NEW k \in KeyId, NEW next \in {"touch", "mark"}, jobs[s].at = "idle",
               keys[k] # Nil, Selects(s, k, next)
        PROVE  KeysInv'
    <2>1. PICK job \in Job : job = [at |-> next, key |-> k, read |-> keys[k]]
      BY <1>1 DEF Job, KeyTable
    <2>2. job.at = next /\ job.key = k /\ job.read = keys[k]
      BY <2>1
    <2>3. jobs' = [jobs EXCEPT ![s] = job] /\ UNCHANGED <<keys, draft, owner>>
      BY <1>5, <2>1 DEF Selects
    <2>4. k # Nil
      BY KeysAssumption
    <2> QED
      BY <1>1, <1>5, <2>2, <2>3, <2>4, JobInv
  <1>6. ASSUME NEW k \in KeyId, NEW row \in KeyRow, keys[k] # Nil,
               ~keys[k].active => row = [keys[k] EXCEPT !.used = row.used],
               Writes(s, [keys EXCEPT ![k] = row])
        PROVE  KeysInv'
    <2> DEFINE rows == [keys EXCEPT ![k] = row]
    <2>1. rows \in KeyTable /\ rows[k] = row /\ \A j \in KeyId : j # k => rows[j] = keys[j]
      BY <1>1 DEF KeyTable
    <2>2. \A j \in KeyId : keys[j] # Nil =>
            rows[j] # Nil /\ (~keys[j].active => rows[j] = [keys[j] EXCEPT !.used = rows[j].used])
      BY <1>1, <1>3, <1>6, <2>1 DEF KeyTable, KeyRow
    <2>3. Writes(s, rows)
      BY <1>6
    <2> HIDE DEF rows
    <2> QED
      BY <2>1, <2>2, <2>3, WritesInv
  <1>7. CASE Touch(s)
    <2> DEFINE k == jobs[s].key
    <2>1. jobs[s].at = "touch" /\ Writes(s, [keys EXCEPT ![k] = Touched(s)])
      BY <1>7 DEF Touch
    <2>2. k \in KeyId /\ keys[k] \in KeyRow /\ keys[k] # Nil
      BY <1>1, <2>1
    <2>3. Touched(s) \in KeyRow /\ Touched(s) = [keys[k] EXCEPT !.used = Touched(s).used]
      BY <2>2 DEF Touched, KeyRow
    <2> QED
      BY <1>6, <2>1, <2>2, <2>3
  <1>8. CASE Mark(s)
    <2> DEFINE k == jobs[s].key
               row == [keys[k] EXCEPT !.active = FALSE]
    <2>1. jobs[s].at = "mark" /\ Writes(s, [keys EXCEPT ![k].active = FALSE])
      BY <1>8 DEF Mark
    <2>2. k \in KeyId /\ keys[k] \in KeyRow /\ keys[k] # Nil
      BY <1>1, <2>1
    <2>3. row \in KeyRow /\ (~keys[k].active => row = [keys[k] EXCEPT !.used = row.used])
      BY <2>2 DEF KeyRow
    <2>4. Writes(s, [keys EXCEPT ![k] = row])
      BY <2>1, <2>2
    <2> HIDE DEF row, k
    <2> QED
      BY <1>6, <2>2, <2>3, <2>4
  <1>9. CASE MarkAgain(s)
    <2>1. jobs[s].at # "commit"
      BY <1>9 DEF MarkAgain
    <2> QED
      BY <1>1, <1>2, <1>9, <2>1, JobInv DEF MarkAgain
  <1>10. CASE Commit(s)
    <2>1. owner = s /\ s # Nil
      BY <1>1, <1>10, KeysAssumption DEF Commit
    <2>2. draft \in KeyTable
      BY <2>1 DEF KeysInv, KeysTypeOK
    <2>3. keys' = draft /\ draft' = Nil /\ owner' = Nil
      BY <1>10 DEF Commit
    <2>4. /\ jobs' \in [Session -> Job] /\ jobs'[s].at = "idle"
          /\ \A r \in Session : r # s => jobs'[r] = jobs[r] /\ jobs'[r].at # "commit"
      BY <1>2, <1>10, <2>1 DEF Commit, KeysInv, KeysTypeOK
    <2>5. \A k \in KeyId : keys[k] # Nil => draft[k] # Nil
      BY <2>1 DEF KeysInv, DraftKeeps
    <2>6. \A r \in Session : jobs'[r].at \in {"touch", "mark"} =>
            jobs'[r].key # Nil /\ keys'[jobs'[r].key] # Nil /\ jobs'[r].read # Nil
      BY <2>3, <2>4, <2>5 DEF KeysInv, KeysTypeOK, Job
    <2>7. \A r \in Session : jobs'[r].at = "commit" <=> owner' = r
      BY <2>3, <2>4, KeysAssumption
    <2>8. KeysTypeOK'
      BY <2>2, <2>3, <2>4, <2>6, <2>7 DEF KeysTypeOK
    <2> QED
      BY <2>3, <2>8 DEF KeysInv, DraftKeeps
  <1>11. CASE Rollback(s)
    <2>1. CASE owner = s
      <3>1. draft' = Nil /\ owner' = Nil /\ UNCHANGED keys
        BY <1>11, <2>1 DEF Rollback
      <3>2. /\ jobs' \in [Session -> Job] /\ jobs'[s].at = "idle"
            /\ \A r \in Session : r # s => jobs'[r] = jobs[r] /\ jobs'[r].at # "commit"
        BY <1>2, <1>11, <2>1 DEF Rollback, KeysInv, KeysTypeOK
      <3>3. \A r \in Session : jobs'[r].at = "commit" <=> owner' = r
        BY <3>1, <3>2, KeysAssumption
      <3>4. KeysTypeOK'
        BY <3>1, <3>2, <3>3 DEF KeysInv, KeysTypeOK
      <3> QED
        BY <3>1, <3>4 DEF KeysInv, DraftKeeps
    <2>2. CASE owner # s
      BY <1>2, <1>11, <2>2, JobInv DEF Rollback
    <2> QED
      BY <2>1, <2>2
  <1> QED
    BY <1>0, <1>4, <1>5, <1>7, <1>8, <1>9, <1>10, <1>11 DEF UseKey, RevokeKey

(* Only a commit changes the keys.                                         *)
LEMMA RevokedStays ==
  ASSUME KeysInv, KeysNext, NEW k \in KeyId, keys[k] # Nil, ~keys[k].active
  PROVE  keys'[k] = [keys[k] EXCEPT !.used = keys'[k].used]
PROOF
  <1>0. PICK s \in Session :
          \/ \E j \in KeyId, u \in User : CreateKey(s, j, u) \/ RevokeKey(s, j, u)
          \/ \E j \in KeyId : UseKey(s, j)
          \/ Touch(s) \/ Mark(s) \/ MarkAgain(s) \/ Commit(s) \/ Rollback(s)
    BY DEF KeysNext
  <1>1. CASE UNCHANGED keys
    <2>1. keys[k] \in KeyRow
      BY DEF KeysInv, KeysTypeOK, KeyTable
    <2> QED
      BY <1>1, <2>1 DEF KeyRow
  <1>2. CASE Commit(s)
    <2>1. owner # Nil /\ keys' = draft
      BY <1>2, KeysAssumption DEF Commit, KeysInv, KeysTypeOK
    <2> QED
      BY <2>1 DEF KeysInv, DraftKeeps
  <1> QED
    BY <1>0, <1>1, <1>2
       DEF CreateKey, RevokeKey, UseKey, Touch, Mark, MarkAgain, Rollback, Writes, Selects

-----------------------------------------------------------------------------
(***************************************************************************)
(* The sign-in.  The invariant says what the page of the only tab and the  *)
(* stored tokens have to do with each other.                               *)
(***************************************************************************)

(* A request that waits has a refresh to wait for, and one that is not     *)
(* under way has nothing.                                                  *)
PageOK(p) ==
  \A r \in Slot :
    /\ p.requests[r].at = "waiting" => p.refreshing # Nil
    /\ p.requests[r].at = "idle" => p.requests[r] = NoRequest

(* A tab that nobody uses has nothing under way.                           *)
Unused(p) == p.refreshing = Nil /\ \A r \in Slot : p.requests[r] = NoRequest

StoreOK(s) ==
  s.refresh # Nil => s.access # Nil /\ s.access.user = s.refresh.user /\ s.refresh.user = s.name

(* The only page p and the store s: a refresh in flight is of the session  *)
(* that is stored; on the login page there is no session, and nothing but  *)
(* one request to sign in.                                                 *)
OnlyPage(p, s) ==
  /\ p.refreshing # Nil /\ s.refresh # Nil => p.refreshing = s.refresh
  /\ ~p.in /\ ~p.leaving =>
       /\ s.refresh = Nil /\ p.refreshing = Nil
       /\ \A r \in Slot : p.requests[r].login = Nil => p.requests[r] = NoRequest
  /\ p.in \/ p.leaving => \A r \in Slot : p.requests[r].login = Nil
  /\ \A q, r \in Slot : p.requests[q].login # Nil /\ p.requests[r].login # Nil => q = r

SessionInv ==
  /\ SessionTypeOK
  /\ \A t \in Tab : PageOK(tabs[t]) /\ (~Here(t) => Unused(tabs[t]))
  /\ OneTab => StoreOK(store) /\ \A t \in Tab : Here(t) => OnlyPage(tabs[t], store)

(* A page as it is loaded: no request, no refresh, and the stored token.   *)
LEMMA NewPageOK ==
  ASSUME NEW access \in Token \cup {Nil}
  PROVE  /\ NewPage(access) \in Page /\ PageOK(NewPage(access)) /\ Unused(NewPage(access))
         /\ \A s : s.access = access /\ StoreOK(s) => OnlyPage(NewPage(access), s)
PROOF
  <1>1. NoRequest \in Request /\ NoRequest.at = "idle" /\ NoRequest.login = Nil
    BY DEF NoRequest, Request
  <1> DEFINE p == NewPage(access)
  <1>2. /\ p.in = (access # Nil) /\ p.leaving = FALSE /\ p.refreshing = Nil
        /\ p.requests = [r \in Slot |-> NoRequest]
    BY DEF NewPage
  <1>3. p \in Page
    BY <1>1 DEF NewPage, Page
  <1> HIDE DEF p
  <1>4. PageOK(p) /\ Unused(p)
    BY <1>1, <1>2 DEF PageOK, Unused
  <1>5. ASSUME NEW s, s.access = access, StoreOK(s)
        PROVE  OnlyPage(p, s)
    BY <1>1, <1>2, <1>5 DEF OnlyPage, StoreOK
  <1> QED
    BY <1>3, <1>4, <1>5 DEF p

(* The signed-out start satisfies the invariant.                           *)
LEMMA SessionInitInv ==
  ASSUME SessionInit
  PROVE  SessionInv
PROOF
  <1>1. /\ tabs = [t \in Tab |-> NewPage(Nil)] /\ vault = Nil /\ outages = 0
        /\ store = [access |-> Nil, refresh |-> Nil, name |-> Nil]
    BY DEF SessionInit, SignedOut
  <1>2. store.access = Nil /\ StoreOK(store)
    BY <1>1 DEF StoreOK
  <1>3. /\ NewPage(Nil) \in Page /\ PageOK(NewPage(Nil)) /\ Unused(NewPage(Nil))
        /\ OnlyPage(NewPage(Nil), store)
    BY <1>2, NewPageOK
  <1>4. SessionTypeOK
    BY <1>1, <1>3, SessionAssumption DEF SessionTypeOK
  <1> QED
    BY <1>1, <1>2, <1>3, <1>4 DEF SessionInv

(* A step that turns the page of one tab that is in use into p and the     *)
(* store into s.                                                           *)
LEMMA PageStep ==
  ASSUME SessionInv, NEW t \in Tab, Here(t), NEW p \in Page,
         tabs' = [tabs EXCEPT ![t] = p], UNCHANGED crowd,
         vault' \in Vault \cup {Nil}, outages' \in 0..MaxOutages,
         store' \in [access: Token \cup {Nil}, refresh: Token \cup {Nil}, name: User \cup {Nil}],
         PageOK(p),
         StoreOK(store) /\ OnlyPage(tabs[t], store) => StoreOK(store') /\ OnlyPage(p, store')
  PROVE  SessionInv'
PROOF
  <1>1. /\ tabs' \in [Tab -> Page] /\ tabs'[t] = p
        /\ \A o \in Tab : o # t => tabs'[o] = tabs[o]
    BY DEF SessionInv, SessionTypeOK
  <1>2. SessionTypeOK'
    BY <1>1 DEF SessionTypeOK
  <1>3. (\A o \in Tab : Here(o)' <=> Here(o)) /\ (OneTab' <=> OneTab)
    BY DEF Here, OneTab
  <1>4. ASSUME NEW o \in Tab
        PROVE  PageOK(tabs'[o]) /\ (~Here(o) => Unused(tabs'[o]))
    BY <1>1 DEF SessionInv
  <1>5. ASSUME OneTab
        PROVE  StoreOK(store') /\ \A o \in Tab : Here(o) => OnlyPage(tabs'[o], store')
    <2>1. \A o \in Tab : Here(o) => o = t
      BY <1>5 DEF OneTab
    <2>2. StoreOK(store') /\ OnlyPage(p, store')
      BY <1>5 DEF SessionInv
    <2> QED
      BY <1>1, <2>1, <2>2
  <1> QED
    BY <1>2, <1>3, <1>4, <1>5 DEF SessionInv

(* One request of a page comes to an end.                                  *)
LEMMA SettledOK ==
  ASSUME NEW p \in Page, NEW q \in Page, NEW r \in Slot, PageOK(p),
         q.in = p.in, q.leaving = p.leaving, q.refreshing = p.refreshing, q.requests[r] = NoRequest,
         \A o \in Slot : o # r => q.requests[o] = p.requests[o]
  PROVE  PageOK(q) /\ \A s : OnlyPage(p, s) => OnlyPage(q, s)
PROOF
  <1>1. NoRequest.at = "idle" /\ NoRequest.login = Nil
    BY DEF NoRequest
  <1>2. PageOK(q)
    BY <1>1 DEF PageOK
  <1>3. ASSUME NEW s, OnlyPage(p, s)
        PROVE  OnlyPage(q, s)
    <2>1. \A o \in Slot : q.requests[o].login # Nil => q.requests[o] = p.requests[o]
      BY <1>1
    <2>2. \A o \in Slot : q.requests[o] = NoRequest \/ q.requests[o] = p.requests[o]
      OBVIOUS
    <2>3. p.refreshing # Nil /\ s.refresh # Nil => p.refreshing = s.refresh
      BY <1>3 DEF OnlyPage
    <2>4. ASSUME ~q.in /\ ~q.leaving
          PROVE  /\ s.refresh = Nil /\ q.refreshing = Nil
                 /\ \A o \in Slot : q.requests[o].login = Nil => q.requests[o] = NoRequest
      BY <1>3, <2>2, <2>4 DEF OnlyPage
    <2>5. ASSUME q.in \/ q.leaving
          PROVE  \A o \in Slot : q.requests[o].login = Nil
      BY <1>1, <1>3, <2>2, <2>5 DEF OnlyPage
    <2>6. \A n, o \in Slot : q.requests[n].login # Nil /\ q.requests[o].login # Nil => n = o
      BY <1>3, <2>1 DEF OnlyPage
    <2> QED
      BY <2>3, <2>4, <2>5, <2>6 DEF OnlyPage
  <1> QED
    BY <1>2, <1>3

(* A page whose request r has come to an end.                              *)
Without(p, r) == [p EXCEPT !.requests[r] = NoRequest]

(* A page that drops a request stays a page in order.                      *)
LEMMA WithoutOK ==
  ASSUME NEW p \in Page, NEW r \in Slot, PageOK(p)
  PROVE  /\ Without(p, r) \in Page /\ PageOK(Without(p, r))
         /\ \A s : OnlyPage(p, s) => OnlyPage(Without(p, r), s)
         /\ Without(p, r).in = p.in /\ Without(p, r).leaving = p.leaving
         /\ Without(p, r).refreshing = p.refreshing
PROOF
  <1>1. NoRequest \in Request
    BY DEF NoRequest, Request
  <1>2. /\ Without(p, r) \in Page
        /\ Without(p, r).in = p.in /\ Without(p, r).leaving = p.leaving
        /\ Without(p, r).refreshing = p.refreshing
        /\ Without(p, r).requests[r] = NoRequest
        /\ \A o \in Slot : o # r => Without(p, r).requests[o] = p.requests[o]
    BY <1>1 DEF Without, Page
  <1> QED
    BY <1>2, SettledOK

(* When a request of the login page ends, no other one is under way.       *)
LEMMA WithoutLogin ==
  ASSUME NEW p \in Page, NEW r \in Slot, p.requests[r].at # "idle", NEW s, OnlyPage(p, s)
  PROVE  \A o \in Slot : Without(p, r).requests[o].login = Nil
PROOF
  <1>1. NoRequest.at = "idle" /\ NoRequest.login = Nil
    BY DEF NoRequest
  <1>2. /\ Without(p, r).requests[r] = NoRequest
        /\ \A o \in Slot : o # r => Without(p, r).requests[o] = p.requests[o]
    BY DEF Without, Page
  <1>3. CASE p.in \/ p.leaving
    BY <1>1, <1>2, <1>3 DEF OnlyPage
  <1>4. CASE ~p.in /\ ~p.leaving
    <2>1. p.requests[r].login # Nil
      BY <1>1, <1>4 DEF OnlyPage
    <2> QED
      BY <1>1, <1>2, <2>1 DEF OnlyPage
  <1> QED
    BY <1>3, <1>4

(* The page is left or entered: no request to sign in is under way.        *)
LEMMA MovedOK ==
  ASSUME NEW p \in Page, NEW q \in Page, PageOK(p),
         q.refreshing = p.refreshing, q.requests = p.requests, q.in \/ q.leaving
  PROVE  /\ PageOK(q)
         /\ \A s : /\ \A r \in Slot : p.requests[r].login = Nil
                   /\ p.refreshing # Nil /\ s.refresh # Nil => p.refreshing = s.refresh
                   => OnlyPage(q, s)
PROOF
  BY DEF PageOK, OnlyPage

(* Request r of a page goes on, and maybe a refresh begins.                *)
Onward(p, r, request, refreshing) ==
  [p EXCEPT !.requests[r] = request, !.refreshing = refreshing]

(* A request that moves on leaves the page in order, if it waits only for  *)
(* a refresh there is.                                                     *)
LEMMA OnwardOK ==
  ASSUME NEW p \in Page, NEW r \in Slot, NEW request \in Request, NEW refreshing \in Token \cup {Nil},
         PageOK(p), request.at # "idle", request.at = "waiting" => refreshing # Nil,
         p.refreshing # Nil => refreshing = p.refreshing
  PROVE  LET q == Onward(p, r, request, refreshing)
         IN  /\ q \in Page /\ PageOK(q)
             /\ q.in = p.in /\ q.leaving = p.leaving /\ q.refreshing = refreshing
             /\ q.requests[r] = request
             /\ \A o \in Slot : o # r => q.requests[o] = p.requests[o]
PROOF
  <1> DEFINE q == Onward(p, r, request, refreshing)
  <1>1. /\ q \in Page
        /\ q.in = p.in /\ q.leaving = p.leaving /\ q.refreshing = refreshing
        /\ q.requests[r] = request
        /\ \A o \in Slot : o # r => q.requests[o] = p.requests[o]
    BY DEF Page, Onward
  <1> HIDE DEF q
  <1>2. PageOK(q)
    BY <1>1 DEF PageOK
  <1> QED
    BY <1>1, <1>2 DEF q

(* The tokens a login or a refresh issues now are tokens of the user.      *)
LEMMA TokensTyped ==
  ASSUME clock \in 0..MaxTime, NEW u \in User
  PROVE  /\ Access(u) \in Token /\ Refresh(u) \in Token
         /\ Access(u) # Nil /\ Refresh(u) # Nil
         /\ Access(u).user = u /\ Refresh(u).user = u
PROOF
  BY SessionAssumption, TimeAssumption DEF Access, Refresh, Token

(* An outage counts up to its bound, so a step that is one cannot be a     *)
(* stutter.                                                                *)
LEMMA OutageTyped ==
  ASSUME outages \in 0..MaxOutages, Outage \/ UNCHANGED outages
  PROVE  outages' \in 0..MaxOutages /\ (Outage => outages' # outages)
PROOF
  BY SessionAssumption DEF Outage

(* An answer the server gives a request, of every kind.                    *)
LEMMA AnswerInv ==
  ASSUME SessionInv, clock \in 0..MaxTime, UNCHANGED crowd,
         NEW t \in Tab, NEW r \in Slot,
         Answer(t, r)
  PROVE  SessionInv'
PROOF
  <1> DEFINE p == tabs[t]
             q == Without(p, r)
             Stores == [access: Token \cup {Nil}, refresh: Token \cup {Nil}, name: User \cup {Nil}]
  <1>1. /\ p \in Page /\ PageOK(p) /\ tabs \in [Tab -> Page] /\ store \in Stores
        /\ vault \in Vault \cup {Nil} /\ outages \in 0..MaxOutages
    BY DEF SessionInv, SessionTypeOK
  <1>2. p.requests[r].at = "sent" /\ Here(t) /\ p.requests[r] \in Request
    <2>1. p.requests[r].at = "sent"
      BY DEF Answer, Served, LoggedIn, TooMany, NotReady, Unauthorized
    <2>2. Here(t)
      BY <2>1 DEF SessionInv, Unused, NoRequest
    <2> QED
      BY <1>1, <2>1, <2>2 DEF Page
  <1>3. /\ q \in Page /\ PageOK(q) /\ (\A s : OnlyPage(p, s) => OnlyPage(q, s))
        /\ q.in = p.in /\ q.leaving = p.leaving /\ q.refreshing = p.refreshing
    BY <1>1, WithoutOK
  <1>4. Settled(t, r) = [tabs EXCEPT ![t] = q]
    BY <1>1 DEF Settled, Without
  <1>5. \A s : OnlyPage(p, s) => \A o \in Slot : q.requests[o].login = Nil
    BY <1>1, <1>2, WithoutLogin
  <1>6. CASE tabs' = Settled(t, r) /\ UNCHANGED <<vault, store, outages>>
    <2> HIDE DEF q
    <2> QED
      BY <1>1, <1>2, <1>3, <1>4, <1>6, PageStep
  <1>7. CASE LoggedIn(t, r)
    <2> DEFINE u == p.requests[r].login
               l == [q EXCEPT !.in = TRUE]
    <2>1. u \in User
      BY <1>1, <1>2, <1>7, SessionAssumption DEF LoggedIn, Request
    <2>2. l \in Page /\ l.in /\ l.leaving = q.leaving /\ l.refreshing = q.refreshing /\ l.requests = q.requests
      BY <1>3 DEF Page
    <2>3. tabs' = [tabs EXCEPT ![t] = l] /\ UNCHANGED <<vault, outages>>
      <3>1. tabs' = [Settled(t, r) EXCEPT ![t].in = TRUE] /\ UNCHANGED <<vault, outages>>
        BY <1>7 DEF LoggedIn
      <3> HIDE DEF q
      <3> QED
        BY <1>1, <1>4, <3>1
    <2>4. store' = [access |-> Access(u), refresh |-> Refresh(u), name |-> u]
      BY <1>7 DEF LoggedIn
    <2>5. store' \in Stores /\ StoreOK(store')
      BY <2>1, <2>4, TokensTyped DEF StoreOK
    <2>6. PageOK(l)
      BY <1>3, <2>2, MovedOK
    <2>7. ASSUME OnlyPage(p, store)
          PROVE  OnlyPage(l, store')
      <3>1. p.refreshing = Nil
        BY <2>1, <2>7, SessionAssumption DEF OnlyPage
      <3> HIDE DEF q, l
      <3> QED
        BY <1>3, <1>5, <2>2, <2>7, <3>1, MovedOK
    <2> HIDE DEF l, q
    <2> QED
      BY <1>1, <1>2, <2>2, <2>3, <2>5, <2>6, <2>7, PageStep
  <1>8. CASE NotReady(t, r)
    <2> DEFINE l == [q EXCEPT !.leaving = TRUE]
    <2>1. l \in Page /\ l.leaving /\ l.refreshing = q.refreshing /\ l.requests = q.requests
      BY <1>3 DEF Page
    <2>2. tabs' = [tabs EXCEPT ![t] = l] /\ UNCHANGED <<vault, store, outages>>
      BY <1>1, <1>4, <1>8 DEF NotReady
    <2>3. PageOK(l)
      BY <1>3, <2>1, MovedOK
    <2>4. ASSUME OnlyPage(p, store)
          PROVE  OnlyPage(l, store)
      <3>1. q.refreshing # Nil /\ store.refresh # Nil => q.refreshing = store.refresh
        BY <1>3, <2>4 DEF OnlyPage
      <3> HIDE DEF q, l
      <3> QED
        BY <1>3, <1>5, <2>1, <2>4, <3>1, MovedOK
    <2> HIDE DEF l, q
    <2> QED
      BY <1>1, <1>2, <2>1, <2>2, <2>3, <2>4, PageStep
  <1>9. CASE Unauthorized(t, r)
    <2>1. CASE ~MayRetry(p.requests[r])
      BY <1>6, <1>9, <2>1 DEF Unauthorized, Rejected
    <2>2. CASE MayRetry(p.requests[r])
      <3> DEFINE request == [p.requests[r] EXCEPT !.at = "waiting", !.retry = TRUE]
                 refreshing == IF p.refreshing = Nil THEN store.refresh ELSE p.refreshing
                 w == Onward(p, r, request, refreshing)
      <3>1. request \in Request /\ request.at = "waiting" /\ request.login = p.requests[r].login
        BY <1>2 DEF Request
      <3>2. store.refresh # Nil /\ refreshing \in Token /\ (p.refreshing # Nil => refreshing = p.refreshing)
        BY <1>1, <2>2 DEF MayRetry, Page
      <3>3. refreshing # Nil
        BY <3>2
      <3>4. tabs' = [tabs EXCEPT ![t] = w] /\ UNCHANGED <<vault, store, outages>>
        <4>1. tabs' = [tabs EXCEPT ![t].requests[r] = request, ![t].refreshing = refreshing]
          BY <1>9, <2>2 DEF Unauthorized
        <4>2. UNCHANGED <<vault, store, outages>>
          BY <1>9, <2>2 DEF Unauthorized
        <4> HIDE DEF request, refreshing
        <4> QED
          BY <1>1, <4>1, <4>2 DEF Page, Onward
      <3> HIDE DEF request, refreshing
      <3>5. /\ w \in Page /\ PageOK(w)
            /\ w.in = p.in /\ w.leaving = p.leaving /\ w.refreshing = refreshing
            /\ w.requests[r] = request
            /\ \A o \in Slot : o # r => w.requests[o] = p.requests[o]
        BY <1>1, <3>1, <3>2, <3>3, OnwardOK
      <3> HIDE DEF w
      <3>6. ASSUME OnlyPage(p, store)
            PROVE  OnlyPage(w, store)
        <4>1. p.in \/ p.leaving
          BY <3>2, <3>6 DEF OnlyPage
        <4>2. refreshing = store.refresh
          BY <3>2, <3>6 DEF OnlyPage, refreshing
        <4> QED
          BY <3>1, <3>5, <3>6, <4>1, <4>2 DEF OnlyPage
      <3> QED
        BY <1>1, <1>2, <3>4, <3>5, <3>6, PageStep
    <2> QED
      BY <2>1, <2>2
  <1> QED
    BY <1>6, <1>7, <1>8, <1>9 DEF Answer, Served, TooMany

(* A request or a login that leaves the page.                              *)
LEMMA SendInv ==
  ASSUME SessionInv, UNCHANGED crowd, NEW t \in Tab, NEW r \in Slot,
         Send(t, r) \/ \E u \in User : SendLogin(t, r, u)
  PROVE  SessionInv'
PROOF
  <1> DEFINE p == tabs[t]
  <1>1. /\ p \in Page /\ PageOK(p) /\ tabs \in [Tab -> Page] /\ store.access \in Token \cup {Nil}
        /\ UNCHANGED <<vault, store, outages>>
        /\ vault \in Vault \cup {Nil} /\ outages \in 0..MaxOutages
        /\ store \in [access: Token \cup {Nil}, refresh: Token \cup {Nil}, name: User \cup {Nil}]
    BY DEF SessionInv, SessionTypeOK, Send, SendLogin
  <1>2. Here(t) /\ p.refreshing \in Token \cup {Nil}
    BY <1>1 DEF Send, SendLogin, Here, Page
  <1>3. ASSUME NEW request \in Request, request.at = "sent",
               tabs' = [tabs EXCEPT ![t].requests[r] = request],
               OnlyPage(p, store) => OnlyPage(Onward(p, r, request, p.refreshing), store)
        PROVE  SessionInv'
    <2> DEFINE q == Onward(p, r, request, p.refreshing)
    <2>1. q \in Page /\ PageOK(q)
      BY <1>1, <1>2, <1>3, OnwardOK
    <2>2. tabs' = [tabs EXCEPT ![t] = q]
      BY <1>1, <1>3 DEF Onward, Page
    <2> HIDE DEF q
    <2>3. OnlyPage(p, store) => OnlyPage(q, store)
      BY <1>3 DEF q
    <2> QED
      BY <1>1, <1>2, <2>1, <2>2, <2>3, PageStep
  <1>4. CASE Send(t, r)
    <2>1. PICK request \in Request : request = [NoRequest EXCEPT !.at = "sent", !.token = store.access]
      BY <1>1 DEF NoRequest, Request
    <2>2. request.at = "sent" /\ request.login = Nil
      BY <2>1 DEF NoRequest
    <2>3. tabs' = [tabs EXCEPT ![t].requests[r] = request]
      BY <1>4, <2>1 DEF Send
    <2>4. ASSUME OnlyPage(p, store)
          PROVE  OnlyPage(Onward(p, r, request, p.refreshing), store)
      <3> DEFINE q == Onward(p, r, request, p.refreshing)
      <3>1. /\ q.in = p.in /\ q.leaving = p.leaving /\ q.refreshing = p.refreshing
            /\ q.requests[r] = request
            /\ \A o \in Slot : o # r => q.requests[o] = p.requests[o]
        BY <1>1, <1>2, <2>2, OnwardOK
      <3> HIDE DEF q
      <3>2. p.in
        BY <1>4 DEF Send
      <3>3. OnlyPage(q, store)
        BY <2>2, <2>4, <3>1, <3>2 DEF OnlyPage
      <3> QED
        BY <3>3 DEF q
    <2> QED
      BY <1>3, <2>2, <2>3, <2>4
  <1>5. ASSUME NEW u \in User, SendLogin(t, r, u)
        PROVE  SessionInv'
    <2>1. PICK request \in Request : request = [NoRequest EXCEPT !.at = "sent", !.login = u]
      BY DEF NoRequest, Request
    <2>2. request.at = "sent" /\ request.login = u
      BY <2>1 DEF NoRequest
    <2>3. tabs' = [tabs EXCEPT ![t].requests[r] = request]
      BY <1>5, <2>1 DEF SendLogin
    <2>4. ASSUME OnlyPage(p, store)
          PROVE  OnlyPage(Onward(p, r, request, p.refreshing), store)
      <3> DEFINE q == Onward(p, r, request, p.refreshing)
      <3>1. /\ q.in = p.in /\ q.leaving = p.leaving /\ q.refreshing = p.refreshing
            /\ q.requests[r] = request
            /\ \A o \in Slot : o # r => q.requests[o] = p.requests[o]
        BY <1>1, <1>2, <2>2, OnwardOK
      <3> HIDE DEF q
      <3>2. ~p.in /\ ~p.leaving /\ \A o \in Slot : p.requests[o].login = Nil
        BY <1>5 DEF SendLogin
      <3>3. \A o \in Slot : o # r => q.requests[o].login = Nil
        BY <3>1, <3>2
      <3>4. q.requests[r].login # Nil
        BY <2>2, <3>1, SessionAssumption
      <3>5. /\ store.refresh = Nil /\ q.refreshing = Nil
            /\ \A o \in Slot : q.requests[o].login = Nil => q.requests[o] = NoRequest
        BY <2>4, <3>1, <3>2, <3>4 DEF OnlyPage
      <3>6. OnlyPage(q, store)
        BY <3>1, <3>2, <3>3, <3>5 DEF OnlyPage
      <3> QED
        BY <3>6 DEF q
    <2> QED
      BY <1>3, <2>2, <2>3, <2>4
  <1> QED
    BY <1>4, <1>5

(* The end of a refresh, which serves or rejects all who wait for it.      *)
LEMMA RefreshInv ==
  ASSUME SessionInv, clock \in 0..MaxTime, UNCHANGED crowd, NEW t \in Tab,
         Refreshed(t) \/ RefreshFailed(t)
  PROVE  SessionInv'
PROOF
  <1> DEFINE p == tabs[t]
             Stores == [access: Token \cup {Nil}, refresh: Token \cup {Nil}, name: User \cup {Nil}]
  <1>1. /\ p \in Page /\ PageOK(p) /\ tabs \in [Tab -> Page] /\ store \in Stores
        /\ vault \in Vault \cup {Nil} /\ outages \in 0..MaxOutages
    BY DEF SessionInv, SessionTypeOK
  <1>2. Here(t) /\ p.refreshing \in Token /\ p.refreshing # Nil
    <2>1. p.refreshing # Nil
      BY DEF Refreshed, RefreshFailed
    <2> QED
      BY <1>1, <2>1 DEF SessionInv, Unused, Page
  <1>3. NoRequest \in Request /\ NoRequest.at = "idle" /\ NoRequest.login = Nil
    BY DEF NoRequest, Request
  <1>4. CASE Refreshed(t)
    <2> DEFINE token == Access(p.refreshing.user)
               Resent(request) ==
                 IF request.at = "waiting" THEN [request EXCEPT !.at = "sent", !.token = token] ELSE request
               q == [p EXCEPT !.refreshing = Nil, !.requests = [o \in Slot |-> Resent(p.requests[o])]]
    <2>1. token \in Token /\ token # Nil /\ token.user = p.refreshing.user
      <3>1. p.refreshing.user \in User
        BY <1>2 DEF Token
      <3> QED
        BY <3>1, TokensTyped
    <2>2. /\ tabs' = [tabs EXCEPT ![t] = q] /\ store' = [store EXCEPT !.access = token]
          /\ UNCHANGED <<vault, outages>>
      <3> HIDE DEF token
      <3>1. tabs' = [tabs EXCEPT ![t].refreshing = Nil,
                                 ![t].requests = [o \in Slot |-> Resent(@[o])]]
        BY <1>4 DEF Refreshed, token
      <3>2. store' = [store EXCEPT !.access = token] /\ UNCHANGED <<vault, outages>>
        BY <1>4 DEF Refreshed, token
      <3> QED
        BY <1>1, <3>1, <3>2 DEF Page
    <2> HIDE DEF token
    <2>3. ASSUME NEW o \in Slot
          PROVE  /\ Resent(p.requests[o]) \in Request
                 /\ Resent(p.requests[o]).at # "waiting"
                 /\ Resent(p.requests[o]).login = p.requests[o].login
                 /\ \/ Resent(p.requests[o]) = p.requests[o]
                    \/ p.requests[o].at = "waiting" /\ Resent(p.requests[o]).at = "sent"
      <3>1. p.requests[o] \in Request
        BY <1>1 DEF Page
      <3> QED
        BY <2>1, <3>1 DEF Request
    <2>4. /\ q \in Page /\ q.in = p.in /\ q.leaving = p.leaving /\ q.refreshing = Nil
          /\ \A o \in Slot : q.requests[o] = Resent(p.requests[o])
      BY <1>1, <2>3 DEF Page
    <2>5. store' \in Stores /\ store'.access = token /\ store'.refresh = store.refresh /\ store'.name = store.name
      BY <1>1, <2>1, <2>2
    <2> HIDE DEF Resent, q
    <2>6. PageOK(q)
      BY <1>1, <2>3, <2>4 DEF PageOK
    <2>7. ASSUME StoreOK(store), OnlyPage(p, store)
          PROVE  StoreOK(store') /\ OnlyPage(q, store')
      <3>1. p.in \/ p.leaving
        BY <1>2, <2>7 DEF OnlyPage
      <3>2. store.refresh # Nil => p.refreshing = store.refresh
        BY <1>2, <2>7 DEF OnlyPage
      <3>3. StoreOK(store')
        BY <2>1, <2>5, <2>7, <3>2 DEF StoreOK
      <3>4. OnlyPage(q, store')
        BY <2>3, <2>4, <2>5, <2>7, <3>1 DEF OnlyPage
      <3> QED
        BY <3>3, <3>4
    <2> QED
      BY <1>1, <1>2, <2>2, <2>4, <2>5, <2>6, <2>7, PageStep
  <1>5. CASE RefreshFailed(t)
    <2> DEFINE Ended(request) == IF request.at = "waiting" THEN NoRequest ELSE request
               q == [p EXCEPT !.refreshing = Nil, !.leaving = TRUE,
                              !.requests = [o \in Slot |-> Ended(p.requests[o])]]
    <2>1. /\ tabs' = [tabs EXCEPT ![t] = q]
          /\ store' = [store EXCEPT !.access = Nil, !.refresh = Nil]
          /\ UNCHANGED vault /\ (Outage \/ UNCHANGED outages)
      <3>1. tabs' = [tabs EXCEPT ![t].refreshing = Nil, ![t].leaving = TRUE,
                                 ![t].requests = [o \in Slot |-> Ended(@[o])]]
        BY <1>5 DEF RefreshFailed
      <3>2. /\ store' = [store EXCEPT !.access = Nil, !.refresh = Nil]
            /\ UNCHANGED vault /\ (Outage \/ UNCHANGED outages)
        BY <1>5 DEF RefreshFailed
      <3> QED
        BY <1>1, <3>1, <3>2 DEF Page
    <2>2. ASSUME NEW o \in Slot
          PROVE  /\ Ended(p.requests[o]) \in Request
                 /\ Ended(p.requests[o]).at # "waiting"
                 /\ Ended(p.requests[o]) = NoRequest \/ Ended(p.requests[o]) = p.requests[o]
      BY <1>1, <1>3 DEF Page
    <2>3. /\ q \in Page /\ q.in = p.in /\ q.leaving /\ q.refreshing = Nil
          /\ \A o \in Slot : q.requests[o] = Ended(p.requests[o])
      BY <1>1, <2>2 DEF Page
    <2>4. store' \in Stores /\ store'.refresh = Nil
      BY <1>1, <2>1
    <2>5. outages' \in 0..MaxOutages
      BY <1>1, <2>1, OutageTyped
    <2> HIDE DEF Ended, q
    <2>6. PageOK(q)
      BY <1>1, <1>3, <2>2, <2>3 DEF PageOK
    <2>7. ASSUME StoreOK(store), OnlyPage(p, store)
          PROVE  StoreOK(store') /\ OnlyPage(q, store')
      <3>1. p.in \/ p.leaving
        BY <1>2, <2>7 DEF OnlyPage
      <3>2. \A o \in Slot : q.requests[o].login = Nil
        BY <1>3, <2>2, <2>3, <2>7, <3>1 DEF OnlyPage
      <3> QED
        BY <2>3, <2>4, <3>2 DEF OnlyPage, StoreOK
    <2> QED
      BY <1>1, <1>2, <2>1, <2>3, <2>4, <2>5, <2>6, <2>7, PageStep
  <1> QED
    BY <1>4, <1>5

(* Every step of the client and of the vaults behind it.                   *)
LEMMA SessionStepInv ==
  ASSUME SessionInv, clock \in 0..MaxTime, UNCHANGED crowd, SessionNext
  PROVE  SessionInv'
PROOF
  <1> DEFINE Stores == [access: Token \cup {Nil}, refresh: Token \cup {Nil}, name: User \cup {Nil}]
  <1>1. /\ tabs \in [Tab -> Page] /\ store \in Stores
        /\ vault \in Vault \cup {Nil} /\ outages \in 0..MaxOutages
    BY DEF SessionInv, SessionTypeOK
  <1>2. ASSUME NEW t \in Tab, Logout(t)
        PROVE  SessionInv'
    <2> DEFINE p == tabs[t]
               q == [p EXCEPT !.in = FALSE, !.leaving = TRUE]
    <2>1. p \in Page /\ PageOK(p) /\ Here(t) /\ p.in
      BY <1>2 DEF SessionInv, SessionTypeOK, Logout
    <2>2. tabs' = [tabs EXCEPT ![t] = q] /\ UNCHANGED <<vault, outages>>
      BY <1>1, <1>2 DEF Logout, LeftFor
    <2>3. store' \in Stores /\ store'.refresh = Nil
      BY <1>2 DEF Logout, SignedOut
    <2>4. q \in Page /\ q.leaving /\ q.refreshing = p.refreshing /\ q.requests = p.requests
      BY <2>1 DEF Page
    <2> HIDE DEF q
    <2>5. PageOK(q)
      BY <2>1, <2>4, MovedOK
    <2>6. ASSUME OnlyPage(p, store)
          PROVE  StoreOK(store') /\ OnlyPage(q, store')
      <3>1. \A r \in Slot : p.requests[r].login = Nil
        BY <2>1, <2>6 DEF OnlyPage
      <3> QED
        BY <2>1, <2>3, <2>4, <3>1, MovedOK DEF StoreOK
    <2> QED
      BY <1>1, <2>1, <2>2, <2>3, <2>4, <2>5, <2>6, PageStep
  <1>3. ASSUME NEW t \in Tab, Load(t)
        PROVE  SessionInv'
    <2>1. /\ NewPage(store.access) \in Page /\ PageOK(NewPage(store.access))
          /\ (StoreOK(store) => OnlyPage(NewPage(store.access), store))
      BY <1>1, NewPageOK
    <2> QED
      BY <1>1, <1>3, <2>1, PageStep DEF Load
  <1>4. CASE (\E v \in Vault : Unlock(v)) \/ Restart
    <2>1. UNCHANGED <<store, tabs>> /\ vault' \in Vault \cup {Nil} /\ (Outage \/ UNCHANGED outages)
      BY <1>4 DEF Unlock, Restart
    <2>2. outages' \in 0..MaxOutages
      BY <1>1, <2>1, OutageTyped
    <2>3. SessionTypeOK'
      BY <1>1, <2>1, <2>2 DEF SessionTypeOK
    <2> QED
      BY <2>1, <2>3 DEF SessionInv, Here, OneTab
  <1> QED
    BY <1>2, <1>3, <1>4, AnswerInv, SendInv, RefreshInv DEF SessionNext

(* A step of another part of the system leaves the session as it is.       *)
LEMMA SessionStays ==
  ASSUME SessionInv, UNCHANGED <<crowd, sessionVars>>
  PROVE  SessionInv'
PROOF
  BY DEF sessionVars, SessionInv, SessionTypeOK, Here, OneTab

(* What ends the session.                                                  *)
LEMMA SessionEnds ==
  ASSUME SessionInv, clock \in 0..MaxTime, SessionNext
  PROVE  EndsForAReason
PROOF
  <1> SUFFICES ASSUME store.refresh # Nil, store'.refresh = Nil
               PROVE  \/ \E t \in Tab : Logout(t)
                      \/ \E t \in Tab : GaveUp(t) /\ (OneTab => tabs[t].refreshing = store.refresh)
    BY DEF EndsForAReason
  <1>1. /\ tabs \in [Tab -> Page] /\ outages \in 0..MaxOutages
        /\ store \in [access: Token \cup {Nil}, refresh: Token \cup {Nil}, name: User \cup {Nil}]
    BY DEF SessionInv, SessionTypeOK
  <1>2. ASSUME NEW t \in Tab, RefreshFailed(t)
        PROVE  GaveUp(t) /\ (OneTab => tabs[t].refreshing = store.refresh)
    <2>1. tabs[t].refreshing # Nil /\ (IF RefreshGranted(t) THEN Outage ELSE UNCHANGED outages)
      BY <1>2 DEF RefreshFailed
    <2>2. tabs'[t].refreshing = Nil
      <3> DEFINE Ended(request) == IF request.at = "waiting" THEN NoRequest ELSE request
      <3>1. tabs' = [tabs EXCEPT ![t].refreshing = Nil, ![t].leaving = TRUE,
                                 ![t].requests = [o \in Slot |-> Ended(@[o])]]
        BY <1>2 DEF RefreshFailed
      <3> QED
        BY <1>1, <3>1 DEF Page
    <2>3. ~RefreshGranted(t) \/ outages' # outages
      BY <1>1, <2>1, OutageTyped
    <2>4. ASSUME OneTab
          PROVE  tabs[t].refreshing = store.refresh
      BY <2>1, <2>4 DEF SessionInv, Unused, OnlyPage
    <2> QED
      BY <2>1, <2>2, <2>3, <2>4 DEF GaveUp
  <1>3. ASSUME NEW t \in Tab, Refreshed(t)
        PROVE  FALSE
    BY <1>1, <1>3 DEF Refreshed
  <1>4. ASSUME NEW t \in Tab, NEW r \in Slot, LoggedIn(t, r)
        PROVE  FALSE
    <2> DEFINE u == tabs[t].requests[r].login
    <2>1. u \in User
      BY <1>4, SessionAssumption DEF LoggedIn, SessionInv, SessionTypeOK
    <2>2. store'.refresh = Refresh(u)
      BY <1>4 DEF LoggedIn
    <2> QED
      BY <2>1, <2>2, TokensTyped
  <1>5. CASE UNCHANGED store
    BY <1>5
  <1> QED
    BY <1>2, <1>3, <1>4, <1>5, ZenonT(30)
       DEF SessionNext, Send, SendLogin, Answer, Served, TooMany, NotReady, Unauthorized, Rejected,
           Load, Unlock, Restart

-----------------------------------------------------------------------------
AccessInv ==
  /\ clock \in Moment /\ crowd \in Crowds
  /\ LimiterTypeOK /\ Exact /\ OnlyGranted
  /\ KeysInv
  /\ SessionInv

(* The three invariants together, at the start.                            *)
LEMMA InvInit ==
  ASSUME Init
  PROVE  AccessInv
PROOF
  <1>1. clock \in Moment /\ crowd \in Crowds
    BY TimeAssumption DEF Init, CallersInit, Moment
  <1> QED
    BY <1>1, LimiterInitTyped, ExactInit, OnlyGrantedInit, KeysInitInv, SessionInitInv DEF Init, AccessInv

(* The passing of time disturbs none of the parts.                         *)
LEMMA InvTick ==
  ASSUME AccessInv, Tick, UNCHANGED <<limiterVars, keyVars, sessionVars>>
  PROVE  AccessInv'
PROOF
  <1>1. clock \in Moment /\ clock' = clock + 1 /\ clock' \in Moment /\ UNCHANGED crowd
    BY TimeAssumption DEF AccessInv, Tick, Moment
  <1>2. LimiterTypeOK'
    <2>1. \A q \in Thread : CallOK(calls[q]) => CallOK(calls[q])'
      BY <1>1, LimiterAssumption DEF CallOK, limiterVars, Moment
    <2> QED
      BY <2>1 DEF AccessInv, LimiterTypeOK, limiterVars
  <1>3. Exact'
    BY ExactTick DEF AccessInv
  <1>4. KeysInv'
    BY DEF AccessInv, KeysInv, KeysTypeOK, DraftKeeps, keyVars
  <1>6. OnlyGranted'
    BY <1>1 DEF AccessInv, OnlyGranted, Within, Requests, limiterVars
  <1>5. SessionInv'
    BY <1>1, SessionStays DEF AccessInv
  <1> QED
    BY <1>1, <1>2, <1>3, <1>4, <1>5, <1>6 DEF AccessInv

(* A step belongs to one of the three parts, which share the clock and     *)
(* the crowd.                                                              *)
LEMMA InvStep ==
  ASSUME AccessInv, [Next]_vars
  PROVE  AccessInv'
PROOF
  <1>1. clock \in Moment /\ clock \in 0..MaxTime /\ crowd \in Crowds
    BY DEF AccessInv, Moment
  <1>2. ASSUME UNCHANGED limiterVars, UNCHANGED clock
        PROVE  LimiterTypeOK' /\ Exact' /\ OnlyGranted'
    <2>1. LimiterTypeOK' /\ Exact'
      BY <1>2 DEF AccessInv, LimiterTypeOK, CallOK, Exact, Tallied, Fits, limiterVars
    <2>2. OnlyGranted'
      BY <1>2 DEF AccessInv, OnlyGranted, Within, Requests, limiterVars
    <2> QED
      BY <2>1, <2>2
  <1>3. ASSUME UNCHANGED keyVars
        PROVE  KeysInv'
    BY <1>3 DEF AccessInv, KeysInv, KeysTypeOK, DraftKeeps, keyVars
  <1>4. ASSUME UNCHANGED sessionVars, UNCHANGED crowd
        PROVE  SessionInv'
    BY <1>4, SessionStays DEF AccessInv
  <1>5. CASE LimiterNext /\ UNCHANGED <<callerVars, keyVars, sessionVars>>
    BY <1>1, <1>3, <1>4, <1>5, LimiterStepTyped, ExactStep, OnlyGrantedStep DEF AccessInv, callerVars
  <1>6. CASE KeysNext /\ UNCHANGED <<callerVars, limiterVars, sessionVars>>
    BY <1>1, <1>2, <1>4, <1>6, KeysStepInv DEF AccessInv, callerVars
  <1>7. CASE SessionNext /\ UNCHANGED <<callerVars, limiterVars, keyVars>>
    BY <1>1, <1>2, <1>3, <1>7, SessionStepInv DEF AccessInv, callerVars
  <1>8. CASE UNCHANGED vars
    BY <1>1, <1>2, <1>3, <1>4, <1>8 DEF AccessInv, vars, callerVars
  <1> QED
    BY <1>5, <1>6, <1>7, <1>8, InvTick DEF Next

(* The invariant of the composition holds in every state.                  *)
LEMMA Invariance == Spec => []AccessInv
PROOF
  <1> QED
    BY InvInit, InvStep, PTL DEF Spec

(* The tables, the counters, the stored tokens and the pages keep their    *)
(* shape, one session at most holds uncommitted keys, and a request waits  *)
(* only for a refresh that is in flight.                                   *)
THEOREM TypeCorrect == Spec => []TypeOK
PROOF
  <1>1. AccessInv => TypeOK
    BY DEF AccessInv, TypeOK, Moment, KeysInv, SessionInv, PageOK
  <1> QED
    BY <1>1, Invariance, PTL

(* With one tab the stored tokens and the stored name are of one user.     *)
THEOREM OneUser == Spec => []OneTabOneUser
PROOF
  <1>1. AccessInv => OneTabOneUser
    BY DEF AccessInv, SessionInv, StoreOK, OneTabOneUser
  <1> QED
    BY <1>1, Invariance, PTL

(* A session ends only by signing out or by a refresh that fails for a     *)
(* reason, with one tab that of its own token.                             *)
THEOREM NotSignedOutByChance == Spec => SignedOutForAReason
PROOF
  <1>1. ASSUME AccessInv, [Next]_vars
        PROVE  [EndsForAReason]_sessionVars
    <2>1. CASE SessionNext
      BY <1>1, <2>1, SessionEnds DEF AccessInv, Moment
    <2>2. CASE UNCHANGED sessionVars
      BY <2>2
    <2> QED
      BY <1>1, <2>1, <2>2 DEF Next, vars
  <1> QED
    BY <1>1, Invariance, PTL DEF Spec, SignedOutForAReason

(* A revoked key stays revoked, whatever requests with it were under way.  *)
THEOREM Revoked == Spec => RevokedForGood
PROOF
  <1> DEFINE Stays ==
        \A k \in KeyId :
          keys[k] # Nil /\ ~keys[k].active => keys'[k] = [keys[k] EXCEPT !.used = keys'[k].used]
  <1>1. ASSUME AccessInv, [Next]_vars
        PROVE  [Stays]_keyVars
    <2>1. CASE KeysNext
      BY <1>1, <2>1, RevokedStays DEF AccessInv
    <2>2. CASE UNCHANGED keyVars
      BY <2>2
    <2> QED
      BY <1>1, <2>1, <2>2 DEF Next, vars
  <1> QED
    BY <1>1, Invariance, PTL DEF Spec, RevokedForGood

(* As long as the calls of a key do not overlap, a call is granted exactly *)
(* if fewer than MaxRequests calls were granted in the window before it.   *)
ExactUnlessOverlapping ==
  \A q \in Thread :
    calls[q].key \notin overlaps =>
      LET before == GrantedBefore(calls[q].key, calls[q].now)
      IN  (Refuse(q) => before >= MaxRequests) /\ (Grant(q) => before < MaxRequests)

(* The counter holds then what was granted in the window.                  *)
LEMMA ExactIfApart ==
  ASSUME AccessInv
  PROVE  ExactUnlessOverlapping
PROOF
  <1> SUFFICES ASSUME NEW q \in Thread, calls[q].key \notin overlaps,
                      calls[q].at \in {"test", "append"}
               PROVE  LET before == GrantedBefore(calls[q].key, calls[q].now)
                      IN  (Refuse(q) => before >= MaxRequests) /\ (Grant(q) => before < MaxRequests)
    BY DEF ExactUnlessOverlapping, Refuse, Grant, At
  <1> DEFINE k == calls[q].key
             now == calls[q].now
  <1>1. k \in Key /\ calls[q].counter # Nil
    BY DEF AccessInv, LimiterTypeOK, CallOK
  <1>2. Fits(q)
    BY <1>1 DEF AccessInv, Exact
  <1>3. Requests(q) = Recent(grants[k], now)
    BY <1>1, <1>2 DEF Fits, Requests
  <1>4. GrantedBefore(k, now) = Size(Requests(q))
    BY <1>3 DEF GrantedBefore, Recent
  <1>5. ASSUME Grant(q)
        PROVE  GrantedBefore(k, now) < MaxRequests
    <2>1. Size(requests[k][limits[k]]) < MaxRequests /\ calls[q].counter = limits[k]
      BY <1>1, <1>2, <1>5 DEF Fits, Grant, At
    <2> QED
      BY <1>4, <2>1 DEF Requests
  <1>6. ASSUME Refuse(q)
        PROVE  GrantedBefore(k, now) >= MaxRequests
    BY <1>4, <1>6 DEF Refuse
  <1> QED
    BY <1>5, <1>6

(* A call is granted exactly if fewer than MaxRequests calls were granted  *)
(* in the window before it.  Where threads overlap more may pass; a call   *)
(* that is alone is still refused for granted calls only.                  *)
THEOREM LimitIsKept == Spec => LimitKept
PROOF
  <1> DEFINE Kept ==
        \A q \in Thread :
          LET before == GrantedBefore(calls[q].key, calls[q].now)
          IN  /\ Refuse(q) /\ calls[q].alone => before >= MaxRequests
              /\ Grant(q) /\ calls[q].key \notin overlaps => before < MaxRequests
  <1>1. AccessInv => Kept
    <2> SUFFICES ASSUME AccessInv, NEW q \in Thread
                 PROVE  /\ Refuse(q) /\ calls[q].alone =>
                             GrantedBefore(calls[q].key, calls[q].now) >= MaxRequests
                        /\ Grant(q) /\ calls[q].key \notin overlaps =>
                             GrantedBefore(calls[q].key, calls[q].now) < MaxRequests
      OBVIOUS
    <2>1. Refuse(q) /\ calls[q].alone =>
            GrantedBefore(calls[q].key, calls[q].now) >= MaxRequests
      BY RefusedForGranted DEF AccessInv
    <2>2. Grant(q) /\ calls[q].key \notin overlaps =>
            GrantedBefore(calls[q].key, calls[q].now) < MaxRequests
      BY ExactIfApart DEF ExactUnlessOverlapping
    <2> QED
      BY <2>1, <2>2
  <1> QED
    BY <1>1, Invariance, PTL DEF LimitKept
=============================================================================
