------------------------------ MODULE Whisper ------------------------------
(***************************************************************************)
(* Proposals of the assistant: WhisperService and its ProposalStore on the *)
(* server, the cards of WhisperFAB in one browser tab.  A message is       *)
(* parsed into a proposal that waits in memory; the card asks the user to  *)
(* confirm or to reject it; a confirmation records the proposal through    *)
(* TransactionService and then takes it out of the store.                  *)
(*                                                                         *)
(* The store has a lock for each of its operations, none for a request.    *)
(* The database commits when get_session is left; whether that is before   *)
(* or after the client has its answer depends on the FastAPI release, and  *)
(* pyproject.toml admits both.                                             *)
(***************************************************************************)
EXTENDS Naturals

CONSTANTS Proposal,  \* messages that become a proposal, or turn out not to
          Thread,    \* requests in flight at a time
          Nil

ASSUME NilOutside == Nil \notin Proposal \cup Thread \cup {"ok", "reply", "error"}

VARIABLES
  store,         \* Proposal -> "none", or "fresh" or "expired" in _pending
  req,           \* Thread -> the request it serves
  rows,          \* Proposal -> how often it is recorded in the database
  card,          \* Proposal -> what the user sees of it
  waits,         \* Proposal -> the request the card is busy with, or Nil
  answersFirst,  \* FastAPI answers before it leaves get_session
  overlapped,    \* auxiliary: proposals with two requests at a time
  rejected       \* auxiliary: proposals whose rejection was answered with ok

vars == <<store, req, rows, card, waits, answersFirst, overlapped, rejected>>

Idle == [op |-> "none", on |-> Nil, pc |-> "idle", answer |-> Nil, heard |-> FALSE]

(* The stages a request goes through. *)
AtStage(op, pc) ==
  \/ op = "none" /\ pc = "idle"
  \/ op = "parse" /\ pc \in {"put", "persona", "done"}
  \/ op = "confirm" /\ pc \in {"get", "write", "remove", "commit", "done"}
  \/ op = "reject" /\ pc \in {"get", "remove", "done"}

Request ==
  [op : {"none", "parse", "confirm", "reject"},
   on : Proposal \cup {Nil},
   pc : {"idle", "put", "persona", "get", "write", "remove", "commit", "done"},
   answer : {Nil, "ok", "reply", "error"},
   heard : BOOLEAN]

Init ==
  /\ store = [p \in Proposal |-> "none"]
  /\ req = [q \in Thread |-> Idle]
  /\ rows = [p \in Proposal |-> 0]
  /\ card = [p \in Proposal |-> "unsent"]
  /\ waits = [p \in Proposal |-> Nil]
  /\ answersFirst \in BOOLEAN
  /\ overlapped = {}
  /\ rejected = {}

-----------------------------------------------------------------------------
(* The server has more to do for the request. *)
Working(q) == req[q].pc \notin {"idle", "done"}

WorksOn(q, p) == Working(q) /\ req[q].on = p

(* A thread is free once its request is done and its answer is heard. *)
Rest(r) == IF r.pc = "done" /\ r.heard THEN Idle ELSE r

Becomes(q, r) == req' = [req EXCEPT ![q] = Rest(r)]

Goes(q, pc) == Becomes(q, [req[q] EXCEPT !.pc = pc])

Answer(q, a) == Becomes(q, [req[q] EXCEPT !.pc = "done", !.answer = a])

(* Slip: get() forgets the cleanup. *)
Untidied(s) == s

(* _cleanup_expired; put() and get() begin with it. *)
Cleaned(s) == [p \in Proposal |-> IF s[p] = "expired" THEN "none" ELSE s[p]]

OnServer == <<rows, card, waits, answersFirst, overlapped, rejected>>

-----------------------------------------------------------------------------
(* parse_message: the model's verdict is a proposal, a reply or an error;  *)
(* the queries for the remark may fail after the proposal is stored.       *)
Put(q) ==
  /\ req[q].pc = "put"
  /\ \/ /\ store' = [Cleaned(store) EXCEPT ![req[q].on] = "fresh"]
        /\ \/ Goes(q, "persona")
           \/ Answer(q, "ok")  \* _propose_transfer has no remark
     \/ /\ \E a \in {"reply", "error"} : Answer(q, a)
        /\ UNCHANGED store
  /\ UNCHANGED OnServer

Persona(q) ==
  /\ req[q].pc = "persona"
  /\ \E a \in {"ok", "error"} : Answer(q, a)
  /\ UNCHANGED store
  /\ UNCHANGED OnServer

(* Slip: a rejection goes the way of a confirmation. *)
RecordsAlways(op) == "write"

Following(op) == IF op = "confirm" THEN "write" ELSE "remove"

Get(q) ==
  /\ req[q].pc = "get"
  /\ store' = Cleaned(store)
  /\ IF store'[req[q].on] = "none" THEN Answer(q, "error") ELSE Goes(q, Following(req[q].op))
  /\ UNCHANGED OnServer

(* The first INSERT takes SQLite's write lock, which is kept to the commit. *)
LockHeld == \E q \in Thread : req[q].op = "confirm" /\ req[q].pc \in {"remove", "commit"}

(* The ledger records the proposal, or refuses: a wallet that is archived, *)
(* an amount that is none, a lock that stays busy.                         *)
Write(q) ==
  /\ req[q].pc = "write"
  /\ \/ ~LockHeld /\ Goes(q, "remove")
     \/ Answer(q, "error")
  /\ UNCHANGED store
  /\ UNCHANGED OnServer

(* Slip: a confirmation leaves the proposal to expire. *)
TakenOutIfRejected(q) ==
  IF req[q].op = "reject" THEN [store EXCEPT ![req[q].on] = "none"] ELSE store

(* Slip: a rejection leaves the proposal to expire. *)
TakenOutIfConfirmed(q) ==
  IF req[q].op = "confirm" THEN [store EXCEPT ![req[q].on] = "none"] ELSE store

TakenOut(q) == [store EXCEPT ![req[q].on] = "none"]

Remove(q) ==
  /\ req[q].pc = "remove"
  /\ store' = TakenOut(q)
  /\ IF req[q].op = "reject"
     THEN Answer(q, "ok") /\ rejected' = rejected \cup {req[q].on}
     ELSE /\ Becomes(q, [req[q] EXCEPT !.pc = "commit",
                                       !.answer = IF answersFirst THEN "ok" ELSE Nil])
          /\ UNCHANGED rejected
  /\ UNCHANGED <<rows, card, waits, answersFirst, overlapped>>

(* The session commits, or fails to and rolls back; the answer is the      *)
(* commit's unless it is out already.                                      *)
Commit(q) ==
  /\ req[q].pc = "commit"
  /\ \/ /\ rows' = [rows EXCEPT ![req[q].on] = @ + 1]
        /\ Answer(q, IF answersFirst THEN req[q].answer ELSE "ok")
     \/ /\ Answer(q, IF answersFirst THEN req[q].answer ELSE "error")
        /\ UNCHANGED rows
  /\ UNCHANGED <<store, card, waits, answersFirst, overlapped, rejected>>

Serve(q) == Put(q) \/ Persona(q) \/ Get(q) \/ Write(q) \/ Remove(q) \/ Commit(q)

-----------------------------------------------------------------------------
(* The server ends: proposals are forgotten, requests break off. *)
Restart ==
  /\ store' = [p \in Proposal |-> "none"]
  /\ req' = [q \in Thread |->
       IF Working(q)
       THEN Rest([req[q] EXCEPT !.pc = "done", !.answer = IF @ = Nil THEN "error" ELSE @])
       ELSE req[q]]
  /\ UNCHANGED OnServer

Expire(p) ==
  /\ store[p] = "fresh"
  /\ store' = [store EXCEPT ![p] = "expired"]
  /\ UNCHANGED <<req, OnServer>>

-----------------------------------------------------------------------------
(* sendMessage; the input is closed while a message is being parsed. *)
Send(q, p) ==
  /\ req[q] = Idle
  /\ card[p] = "unsent"
  /\ \A o \in Proposal : card[o] # "parsing"
  /\ req' = [req EXCEPT ![q] = [Idle EXCEPT !.op = "parse", !.on = p, !.pc = "put"]]
  /\ card' = [card EXCEPT ![p] = "parsing"]
  /\ waits' = [waits EXCEPT ![p] = q]
  /\ UNCHANGED <<store, rows, answersFirst, overlapped, rejected>>

(* handleConfirm, handleReject; the buttons are disabled while busy. *)
Decide(q, p, op) ==
  /\ req[q] = Idle
  /\ card[p] = "open" /\ waits[p] = Nil
  /\ req' = [req EXCEPT ![q] = [Idle EXCEPT !.op = op, !.on = p, !.pc = "get"]]
  /\ waits' = [waits EXCEPT ![p] = q]
  /\ overlapped' = IF \E o \in Thread : WorksOn(o, p) THEN overlapped \cup {p} ELSE overlapped
  /\ UNCHANGED <<store, rows, card, answersFirst, rejected>>

Outcome(op) == IF op = "confirm" THEN "confirmed" ELSE "rejected"

(* Slip: every answer to a decision is taken for a good one. *)
ShownWhateverComes(r, shown) ==
  IF r.op = "parse" THEN IF r.answer = "ok" THEN "open" ELSE "gone"
  ELSE IF shown # "gone" THEN Outcome(r.op) ELSE "gone"

(* The card after the answer; a message that was cleared stays away. *)
Shown(r, shown) ==
  IF r.op = "parse" THEN IF r.answer = "ok" THEN "open" ELSE "gone"
  ELSE IF r.answer = "ok" /\ shown # "gone" THEN Outcome(r.op) ELSE shown

(* Slip: busy is reset after the await instead of in finally. *)
StillBusy(q, p) == waits[p] = q /\ req[q].answer # "error"

(* The card waits for this answer; a card mounted anew waits for none. *)
Awaited(q, p) == waits[p] = q

Hear(q) ==
  /\ req[q].answer # Nil /\ ~req[q].heard
  /\ LET p == req[q].on
     IN  /\ card' = [card EXCEPT ![p] = Shown(req[q], @)]
         /\ waits' = [waits EXCEPT ![p] = IF Awaited(q, p) THEN Nil ELSE @]
  /\ Becomes(q, [req[q] EXCEPT !.heard = TRUE])
  /\ UNCHANGED <<store, rows, answersFirst, overlapped, rejected>>

(* The panel is closed, which unmounts the cards and their busy flags;     *)
(* loading belongs to the hook and stays.                                  *)
ClosePanel ==
  /\ waits' = [p \in Proposal |-> IF card[p] = "parsing" THEN waits[p] ELSE Nil]
  /\ UNCHANGED <<store, req, rows, card, answersFirst, overlapped, rejected>>

(* clearHistory: the answer to a message in flight still appears. *)
Clear ==
  /\ card' = [p \in Proposal |->
                IF card[p] \in {"unsent", "parsing"} THEN card[p] ELSE "gone"]
  /\ waits' = [p \in Proposal |-> IF card[p] = "parsing" THEN waits[p] ELSE Nil]
  /\ UNCHANGED <<store, req, rows, answersFirst, overlapped, rejected>>

(* The page is loaded anew: no answer to a request in flight is heard. *)
Reload ==
  /\ card' = [p \in Proposal |-> IF card[p] = "parsing" THEN "gone" ELSE card[p]]
  /\ waits' = [p \in Proposal |-> Nil]
  /\ req' = [q \in Thread |->
       IF req[q] = Idle THEN Idle ELSE Rest([req[q] EXCEPT !.heard = TRUE])]
  /\ UNCHANGED <<store, rows, answersFirst, overlapped, rejected>>

Next ==
  \/ \E q \in Thread : Serve(q) \/ Hear(q)
  \/ \E q \in Thread, p \in Proposal :
       Send(q, p) \/ \E op \in {"confirm", "reject"} : Decide(q, p, op)
  \/ \E p \in Proposal : Expire(p)
  \/ Restart \/ ClosePanel \/ Clear \/ Reload

Spec == Init /\ [][Next]_vars

(* Threads run on, and a connection delivers its answer or breaks. *)
FairSpec == Spec /\ \A q \in Thread : WF_vars(Serve(q)) /\ WF_vars(Hear(q))

-----------------------------------------------------------------------------
(* Type invariant: a request is at a stage of its operation, and a card    *)
(* that waits does so for a request on its own proposal.                   *)
TypeOK ==
  /\ store \in [Proposal -> {"none", "fresh", "expired"}]
  /\ req \in [Thread -> Request]
  /\ \A q \in Thread : AtStage(req[q].op, req[q].pc)
  /\ \A q \in Thread : (req[q].on = Nil) <=> (req[q].op = "none")
  /\ rows \in [Proposal -> Nat]
  /\ card \in [Proposal -> {"unsent", "parsing", "open", "confirmed", "rejected", "gone"}]
  /\ waits \in [Proposal -> Thread \cup {Nil}]
  /\ \A p \in Proposal : waits[p] # Nil => req[waits[p]].on = p
  /\ answersFirst \in BOOLEAN
  /\ overlapped \subseteq Proposal /\ rejected \subseteq Proposal

(* A proposal is recorded at most once, however often it is confirmed and  *)
(* whatever answers are lost, unless two requests on it overlap: confirm   *)
(* reads the store, writes, and only then takes the proposal out.          *)
RecordedOnce == \A p \in Proposal \ overlapped : rows[p] <= 1

(* A proposal whose rejection was answered with ok is not in the database, *)
(* nor is one recorded whose rejection succeeds, unless the two overlap.   *)
RejectedStaysOut == \A p \in rejected \ overlapped : rows[p] = 0

(* A card says that its transaction is saved only if it is, also when      *)
(* requests overlap and the server restarts, provided that FastAPI commits *)
(* before it answers.                                                      *)
ConfirmedIsRecorded ==
  ~answersFirst => \A p \in Proposal : card[p] = "confirmed" => rows[p] > 0

(* A proposal that was sent, is no longer to be had and is in nobody's     *)
(* hands is closed: expired, recorded, rejected or lost with the process.  *)
Closed(p) ==
  /\ card[p] \notin {"unsent", "parsing"}
  /\ store[p] # "fresh"
  /\ \A q \in Thread : WorksOn(q, p) => req[q].pc = "get"

(* No step, of any request, opens a closed proposal again or records it:   *)
(* get cleans up before it looks, so what has expired is never found.      *)
ClosedForGood == [][\A p \in Proposal : Closed(p) => Closed(p)' /\ rows'[p] = rows[p]]_vars

(* A card does not stay busy: the server answers every request or breaks   *)
(* off, and handleConfirm and handleReject reset busy whatever the answer. *)
BusyEnds == \A p \in Proposal : waits[p] # Nil ~> waits[p] = Nil
=============================================================================
