------------------------------- MODULE Access -------------------------------
(***************************************************************************)
(* How users and scripts get in: the rate limiter, API keys, and the       *)
(* session of the browser.  They share the clock only; the callers of one  *)
(* behaviour belong to one of them.                                        *)
(***************************************************************************)
EXTENDS RateLimiter, ApiKeys, ClientSession

vars == <<callerVars, limiterVars, keyVars, sessionVars>>

Init == CallersInit /\ LimiterInit /\ KeysInit /\ SessionInit

Next ==
  \/ Tick /\ UNCHANGED <<limiterVars, keyVars, sessionVars>>
  \/ LimiterNext /\ UNCHANGED <<callerVars, keyVars, sessionVars>>
  \/ KeysNext /\ UNCHANGED <<callerVars, limiterVars, sessionVars>>
  \/ SessionNext /\ UNCHANGED <<callerVars, limiterVars, keyVars>>

(* Requests are answered, if only by an error of the network, and axios    *)
(* settles its promises.                                                   *)
Answers(t, r) == Answer(t, r) /\ UNCHANGED <<callerVars, limiterVars, keyVars>>
EndsRefresh(t) == (Refreshed(t) \/ RefreshFailed(t)) /\ UNCHANGED <<callerVars, limiterVars, keyVars>>

Spec ==
  /\ Init /\ [][Next]_vars
  /\ \A t \in Tab, r \in Slot : WF_vars(Answers(t, r))
  /\ \A t \in Tab : WF_vars(EndsRefresh(t))

-----------------------------------------------------------------------------
Request == [at: {"idle", "sent", "waiting"}, token: Token \cup {Nil}, retry: BOOLEAN,
            login: User \cup {Nil}]

Page == [in: BOOLEAN, leaving: BOOLEAN, refreshing: Token \cup {Nil}, requests: [Slot -> Request]]

SessionTypeOK ==
  /\ vault \in Vault \cup {Nil}
  /\ store \in [access: Token \cup {Nil}, refresh: Token \cup {Nil}, name: User \cup {Nil}]
  /\ tabs \in [Tab -> Page]
  /\ outages \in 0..MaxOutages

(* Every part has its shape, and nobody waits for a refresh that is not in *)
(* flight.                                                                 *)
TypeOK ==
  /\ clock \in 0..MaxTime /\ crowd \in Crowds
  /\ LimiterTypeOK /\ KeysTypeOK /\ SessionTypeOK
  /\ \A t \in Tab, r \in Slot : tabs[t].requests[r].at = "waiting" => tabs[t].refreshing # Nil

OneTab == \E t \in Tab : \A o \in Tab : Here(o) <=> o = t

(* With one tab the two tokens and the name that are stored are of one     *)
(* user, though a refresh that began before a logout may still be answered *)
(* after it: loading the login page has ended the refresh before somebody  *)
(* else can sign in.  (Of two tabs one may store an access token of the    *)
(* user who was signed in when its refresh began.)                         *)
OneTabOneUser ==
  OneTab /\ store.refresh # Nil =>
    /\ store.access # Nil
    /\ store.access.user = store.refresh.user /\ store.refresh.user = store.name

GaveUp(t) ==
  /\ tabs[t].refreshing # Nil /\ tabs'[t].refreshing = Nil
  /\ ~RefreshGranted(t) \/ outages' # outages

(* A session ends only when somebody signs out or a refresh fails because  *)
(* its token has run out, no vault is unlocked or the answer is lost; with *)
(* one tab it is the session's own token.  No 401 ends it, however many    *)
(* requests are refused at once or again after their retry.                *)
EndsForAReason ==
  store.refresh # Nil /\ store'.refresh = Nil =>
    \/ \E t \in Tab : Logout(t)
    \/ \E t \in Tab : GaveUp(t) /\ (OneTab => tabs[t].refreshing = store.refresh)

SignedOutForAReason == [][EndsForAReason]_sessionVars

(* Every request comes to an end: it is answered, or rejected, or its page *)
(* goes.  A user who is not in the database of the vault that is open gets *)
(* a new token as often as one is asked for, and still no request is sent  *)
(* for ever.                                                               *)
RequestsSettle ==
  \A t \in Tab, r \in Slot :
    tabs[t].requests[r].at # "idle" ~> tabs[t].requests[r].at = "idle"
=============================================================================
