--------------------------- MODULE ClientSession ---------------------------
(***************************************************************************)
(* The session of a user in the browser: the tokens in localStorage, which *)
(* all tabs share, the requests of each tab, and the one refresh of the    *)
(* access token that the requests of a tab wait for together.  JavaScript  *)
(* runs an answer's handlers, with the promises that they settle, in one   *)
(* go.  A tab that has been sent to another page goes on until that page   *)
(* is loaded, which ends its requests.                                     *)
(*                                                                         *)
(* A token is its user and the last moment at which it is valid.           *)
(***************************************************************************)
EXTENDS Callers

CONSTANTS
  Tab, Slot,   \* requests are told apart by <<tab, slot>>
  Vault,       \* the vaults: the sets of the users in their databases
  AccessLife, RefreshLife,
  MaxOutages   \* bound: unlocked vaults that go, and refreshes that get no answer

VARIABLES
  vault,   \* the vault that is unlocked, or Nil
  store,   \* localStorage: access, refresh and name, each maybe Nil
  tabs,    \* tab -> its page and its requests
  outages  \* how many of MaxOutages have happened

sessionVars == <<vault, store, tabs, outages>>

Token == [user: User, until: 0..(MaxTime + RefreshLife)]

ASSUME SessionAssumption ==
  /\ AccessLife \in Nat /\ RefreshLife \in Nat /\ AccessLife <= RefreshLife
  /\ MaxOutages \in Nat /\ Vault \subseteq SUBSET User
  /\ Nil \notin User /\ Nil \notin Token

NoRequest == [at |-> "idle", token |-> Nil, retry |-> FALSE, login |-> Nil]
SignedOut == [access |-> Nil, refresh |-> Nil, name |-> Nil]

(* A page as it is loaded, on which the AuthProvider looks for a token. *)
NewPage(access) ==
  [in |-> access # Nil, leaving |-> FALSE, refreshing |-> Nil, requests |-> [r \in Slot |-> NoRequest]]

SessionInit ==
  /\ vault = Nil
  /\ store = SignedOut
  /\ tabs = [t \in Tab |-> NewPage(Nil)]
  /\ outages = 0

Outage == outages < MaxOutages /\ outages' = outages + 1

Here(t) == \E r \in Slot : <<t, r>> \in crowd

Valid(token) == token # Nil /\ token.until >= clock

(* create_access_token(), create_refresh_token(). *)
Access(u) == [user |-> u, until |-> clock + AccessLife]
Refresh(u) == [user |-> u, until |-> clock + RefreshLife]

(* get_current_user(): the token is good and its user is in the database.  *)
Authorized(token) == Valid(token) /\ token.user \in vault

-----------------------------------------------------------------------------
Send(t, r) ==
  /\ <<t, r>> \in crowd
  /\ tabs[t].in /\ tabs[t].requests[r].at = "idle"
  /\ tabs' = [tabs EXCEPT ![t].requests[r] = [NoRequest EXCEPT !.at = "sent", !.token = store.access]]
  /\ UNCHANGED <<vault, store, outages>>

(* The form of the login page sends one request at a time, with a token   *)
(* that the server does not look at.                                       *)
SendLogin(t, r, u) ==
  /\ <<t, r>> \in crowd
  /\ ~tabs[t].in /\ ~tabs[t].leaving
  /\ tabs[t].requests[r].at = "idle"
  /\ \A s \in Slot : tabs[t].requests[s].login = Nil
  /\ tabs' = [tabs EXCEPT ![t].requests[r] = [NoRequest EXCEPT !.at = "sent", !.login = u]]
  /\ UNCHANGED <<vault, store, outages>>

Settled(t, r) == [tabs EXCEPT ![t].requests[r] = NoRequest]

(* An answer that is neither 401 nor 503: what was asked for, or an error. *)
Served(t, r) ==
  /\ tabs[t].requests[r].at = "sent" /\ tabs[t].requests[r].login = Nil
  /\ vault # Nil /\ Authorized(tabs[t].requests[r].token)
  /\ tabs' = Settled(t, r)
  /\ UNCHANGED <<vault, store, outages>>

LoggedIn(t, r) ==
  LET u == tabs[t].requests[r].login
  IN  /\ tabs[t].requests[r].at = "sent"
      /\ vault # Nil /\ u \in vault
      /\ store' = [access |-> Access(u), refresh |-> Refresh(u), name |-> u]
      /\ tabs' = [Settled(t, r) EXCEPT ![t].in = TRUE]
      /\ UNCHANGED <<vault, outages>>

(* 429 of the rate limiter, which nothing retries. *)
TooMany(t, r) ==
  /\ tabs[t].requests[r].at = "sent" /\ tabs[t].requests[r].login # Nil
  /\ vault # Nil
  /\ tabs' = Settled(t, r)
  /\ UNCHANGED <<vault, store, outages>>

(* 503: the tab is sent to the setup page. *)
NotReady(t, r) ==
  /\ tabs[t].requests[r].at = "sent"
  /\ vault = Nil
  /\ tabs' = [Settled(t, r) EXCEPT ![t].leaving = TRUE]
  /\ UNCHANGED <<vault, store, outages>>

(* Slip: a request that was retried is retried again. *)
MayRetryAgain(request) == store.refresh # Nil

MayRetry(request) == ~request.retry /\ store.refresh # Nil

(* Slip: the retry is awaited where a failed refresh is caught. *)
RejectedAsRefresh(t, r) ==
  /\ tabs' = [Settled(t, r) EXCEPT ![t].leaving = TRUE]
  /\ store' = [store EXCEPT !.access = Nil, !.refresh = Nil]

Rejected(t, r) == tabs' = Settled(t, r) /\ UNCHANGED store

(* 401: a wrong password, or no token, or one that is no longer valid or   *)
(* whose user is not in the database.  The request waits for the refresh   *)
(* in flight, or for one of its own; no request does so twice.             *)
Unauthorized(t, r) ==
  LET request == tabs[t].requests[r]
  IN  /\ request.at = "sent"
      /\ vault # Nil
      /\ request.login # Nil \/ ~Authorized(request.token)
      /\ IF MayRetry(request)
         THEN /\ tabs' = [tabs EXCEPT ![t].requests[r] = [request EXCEPT !.at = "waiting", !.retry = TRUE],
                                      ![t].refreshing = IF @ = Nil THEN store.refresh ELSE @]
              /\ UNCHANGED store
         ELSE Rejected(t, r)
  /\ UNCHANGED <<vault, outages>>

(* POST /auth/refresh: the token is decoded, its user is not looked up.    *)
RefreshGranted(t) == vault # Nil /\ Valid(tabs[t].refreshing)

(* What waits is sent again with the new token. *)
Refreshed(t) ==
  LET token == Access(tabs[t].refreshing.user)
      Resent(request) ==
        IF request.at = "waiting" THEN [request EXCEPT !.at = "sent", !.token = token] ELSE request
  IN  /\ tabs[t].refreshing # Nil /\ RefreshGranted(t)
      /\ store' = [store EXCEPT !.access = token]
      /\ tabs' = [tabs EXCEPT ![t].refreshing = Nil,
                              ![t].requests = [r \in Slot |-> Resent(@[r])]]
      /\ UNCHANGED <<vault, outages>>

(* No answer, 401 or 503: the tokens go, whichever they are by now, and    *)
(* the tab is sent to the login page.                                      *)
RefreshFailed(t) ==
  LET Ended(request) == IF request.at = "waiting" THEN NoRequest ELSE request
  IN  /\ tabs[t].refreshing # Nil
      /\ IF RefreshGranted(t) THEN Outage ELSE UNCHANGED outages
      /\ store' = [store EXCEPT !.access = Nil, !.refresh = Nil]
      /\ tabs' = [tabs EXCEPT ![t].refreshing = Nil, ![t].leaving = TRUE,
                              ![t].requests = [r \in Slot |-> Ended(@[r])]]
      /\ UNCHANGED vault

(* Slip: signing out leaves the page where it is. *)
LeftInPlace(t) == [tabs EXCEPT ![t].in = FALSE]

LeftFor(t) == [tabs EXCEPT ![t].in = FALSE, ![t].leaving = TRUE]

Logout(t) ==
  /\ Here(t) /\ tabs[t].in
  /\ store' = SignedOut
  /\ tabs' = LeftFor(t)
  /\ UNCHANGED <<vault, outages>>

(* The page that the tab was sent to, or that the user asks for again.     *)
Load(t) ==
  /\ Here(t)
  /\ tabs' = [tabs EXCEPT ![t] = NewPage(store.access)]
  /\ UNCHANGED <<vault, store, outages>>

(* A vault is unlocked, over another one maybe. *)
Unlock(v) ==
  /\ \E t \in Tab : Here(t)
  /\ v # vault
  /\ IF vault = Nil THEN UNCHANGED outages ELSE Outage
  /\ vault' = v
  /\ UNCHANGED <<store, tabs>>

(* The server starts again, with no vault unlocked. *)
Restart ==
  /\ vault # Nil
  /\ Outage
  /\ vault' = Nil
  /\ UNCHANGED <<store, tabs>>

Answer(t, r) ==
  Served(t, r) \/ LoggedIn(t, r) \/ TooMany(t, r) \/ NotReady(t, r) \/ Unauthorized(t, r)

SessionNext ==
  \/ \E t \in Tab, r \in Slot :
       Send(t, r) \/ (\E u \in User : SendLogin(t, r, u)) \/ Answer(t, r)
  \/ \E t \in Tab : Refreshed(t) \/ RefreshFailed(t) \/ Logout(t) \/ Load(t)
  \/ (\E v \in Vault : Unlock(v)) \/ Restart
=============================================================================
