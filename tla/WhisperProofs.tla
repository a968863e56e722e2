--------------------------- MODULE WhisperProofs ---------------------------
(***************************************************************************)
(* Theorems about the life of a proposal, for any number of proposals and  *)
(* of requests in flight.                                                  *)
(***************************************************************************)
EXTENDS Whisper, TLAPS

(* TypeOK with what makes it inductive: a thread that serves nothing is    *)
(* blank, and a card waits for answers that are still to come.             *)
Shapes ==
  /\ TypeOK
  /\ \A q \in Thread : req[q].op = "none" => req[q] = Idle
  /\ \A p \in Proposal : waits[p] # Nil => ~req[waits[p]].heard

-----------------------------------------------------------------------------
(* A thread at rest.                                                       *)
LEMMA IdleShape ==
  /\ Idle \in Request
  /\ Idle.op = "none" /\ Idle.on = Nil /\ Idle.pc = "idle"
  /\ Idle.answer = Nil /\ Idle.heard = FALSE
  /\ AtStage(Idle.op, Idle.pc)
BY DEF Idle, Request, AtStage

(* A request that goes on keeps its shape, or its thread is blank again    *)
(* once the answer is heard.                                               *)
LEMMA GoesOn ==
  ASSUME Shapes, NEW q \in Thread, NEW r \in Request, Becomes(q, r),
         AtStage(r.op, r.pc), r.op # "none", r.on \in Proposal
  PROVE  /\ req' \in [Thread -> Request]
         /\ req'[q] = Rest(r)
         /\ \A o \in Thread : o # q => req'[o] = req[o]
         /\ \A o \in Thread : AtStage(req'[o].op, req'[o].pc)
         /\ \A o \in Thread : (req'[o].on = Nil) <=> (req'[o].op = "none")
         /\ \A o \in Thread : req'[o].op = "none" => req'[o] = Idle
<1>1. Rest(r) \in Request /\ Rest(r) \in {Idle, r}
  BY IdleShape DEF Rest
<1>2. req' = [req EXCEPT ![q] = Rest(r)]
  BY DEF Becomes
<1>3. req \in [Thread -> Request]
  BY DEF Shapes, TypeOK
<1>4. req' \in [Thread -> Request] /\ req'[q] = Rest(r)
      /\ \A o \in Thread : o # q => req'[o] = req[o]
  BY <1>1, <1>2, <1>3
<1>5. r.on # Nil
  BY NilOutside
<1>6. \A o \in Thread : /\ AtStage(req'[o].op, req'[o].pc)
                        /\ (req'[o].on = Nil) <=> (req'[o].op = "none")
                        /\ req'[o].op = "none" => req'[o] = Idle
  <2>1. TAKE o \in Thread
  <2>2. CASE o # q
    BY <1>4, <2>2 DEF Shapes, TypeOK
  <2>3. CASE o = q /\ req'[o] = Idle
    BY <2>3, IdleShape
  <2>4. CASE o = q /\ req'[o] = r
    BY <1>5, <2>4
  <2> QED
    BY <1>1, <1>4, <2>2, <2>3, <2>4
<1> QED
  BY <1>4, <1>6

(* What a thread that serves a request holds. *)
LEMMA Serving ==
  ASSUME Shapes, NEW q \in Thread, req[q].pc # "idle"
  PROVE  req[q] \in Request /\ req[q].op # "none" /\ req[q].on \in Proposal
BY NilOutside, IdleShape DEF Shapes, TypeOK, Request, AtStage

(* While the server works on a request, the cards that wait for it wait on. *)
LEMMA WaitersWait ==
  ASSUME Shapes, NEW q \in Thread, NEW r \in Request, Becomes(q, r),
         AtStage(r.op, r.pc), r.op # "none", r.on \in Proposal,
         r.on = req[q].on, r.heard = req[q].heard,
         waits' = waits
  PROVE  /\ \A p \in Proposal : waits'[p] # Nil => req'[waits'[p]].on = p
         /\ \A p \in Proposal : waits'[p] # Nil => ~req'[waits'[p]].heard
<1> SUFFICES ASSUME NEW p \in Proposal, waits[p] # Nil
             PROVE  req'[waits[p]].on = p /\ ~req'[waits[p]].heard
  OBVIOUS
<1>1. waits[p] \in Thread /\ req[waits[p]].on = p /\ ~req[waits[p]].heard
  BY DEF Shapes, TypeOK
<1>2. req'[q] = Rest(r) /\ \A o \in Thread : o # q => req'[o] = req[o]
  BY GoesOn
<1>3. CASE waits[p] # q
  BY <1>1, <1>2, <1>3
<1>4. CASE waits[p] = q
  BY <1>1, <1>2, <1>4 DEF Rest
<1> QED
  BY <1>3, <1>4

(* Every step of the server leaves one request at its next stage.          *)
LEMMA ServeBecomes ==
  ASSUME Shapes, NEW q \in Thread, Serve(q)
  PROVE  /\ req[q].on \in Proposal
         /\ \E r \in Request :
              /\ Becomes(q, r) /\ AtStage(r.op, r.pc) /\ r.op # "none" /\ r.on \in Proposal
              /\ r.op = req[q].op /\ r.on = req[q].on /\ r.heard = req[q].heard
<1>0. req[q].pc # "idle"
  BY DEF Serve, Put, Persona, Get, Write, Remove, Commit
<1>1. req[q] \in Request /\ req[q].op # "none" /\ req[q].on \in Proposal
      /\ AtStage(req[q].op, req[q].pc)
  BY <1>0, Serving DEF Shapes, TypeOK
<1> DEFINE Fits(r) ==
             /\ r \in Request /\ AtStage(r.op, r.pc)
             /\ r.op = req[q].op /\ r.on = req[q].on /\ r.heard = req[q].heard
<1>2. \A a \in {Nil, "ok", "reply", "error"} :
        Fits([req[q] EXCEPT !.pc = "done", !.answer = a])
  BY <1>1 DEF Request, AtStage
<1>3. \A a \in {Nil, "ok", "reply", "error"} : Answer(q, a) => \E r : Becomes(q, r) /\ Fits(r)
  BY <1>2 DEF Answer
<1>4. CASE Put(q)
  <2>1. Fits([req[q] EXCEPT !.pc = "persona"])
    BY <1>1, <1>4 DEF Put, Request, AtStage
  <2> QED
    BY <1>1, <1>3, <1>4, <2>1 DEF Put, Goes
<1>5. CASE Persona(q)
  BY <1>1, <1>3, <1>5 DEF Persona
<1>6. CASE Get(q)
  <2>1. Fits([req[q] EXCEPT !.pc = Following(req[q].op)])
    BY <1>1, <1>6 DEF Get, Request, AtStage, Following
  <2> QED
    BY <1>1, <1>3, <1>6, <2>1 DEF Get, Goes
<1>7. CASE Write(q)
  <2>1. Fits([req[q] EXCEPT !.pc = "remove"])
    BY <1>1, <1>7 DEF Write, Request, AtStage
  <2> QED
    BY <1>1, <1>3, <1>7, <2>1 DEF Write, Goes
<1>8. CASE Remove(q)
  <2>1. req[q].op # "reject" =>
          Fits([req[q] EXCEPT !.pc = "commit", !.answer = IF answersFirst THEN "ok" ELSE Nil])
    BY <1>1, <1>8 DEF Remove, Request, AtStage
  <2> QED
    BY <1>1, <1>3, <1>8, <2>1 DEF Remove
<1>9. CASE Commit(q)
  <2>1. req[q].answer \in {Nil, "ok", "reply", "error"}
    BY <1>1 DEF Request
  <2> QED
    BY <1>1, <1>3, <1>9, <2>1 DEF Commit
<1>10. \E r : Becomes(q, r) /\ Fits(r)
  BY <1>4, <1>5, <1>6, <1>7, <1>8, <1>9 DEF Serve
<1> QED
  BY <1>1, <1>10

-----------------------------------------------------------------------------
(* The start.                                                              *)
LEMMA ShapesInit == Init => Shapes
BY IdleShape DEF Init, Shapes, TypeOK

(* The steps of the server. *)
LEMMA ServeKeepsShapes ==
  ASSUME Shapes, NEW q \in Thread, Serve(q)
  PROVE  Shapes'
<1>1. PICK r \in Request :
        /\ Becomes(q, r) /\ AtStage(r.op, r.pc) /\ r.op # "none" /\ r.on \in Proposal
        /\ r.on = req[q].on /\ r.heard = req[q].heard
  BY ServeBecomes
<1>2. req[q].on \in Proposal
  BY ServeBecomes
<1>3. UNCHANGED <<card, waits, answersFirst, overlapped>>
  BY DEF Serve, Put, Persona, Get, Write, Remove, Commit, OnServer
<1>4. store' \in [Proposal -> {"none", "fresh", "expired"}]
  BY ZenonT(30) DEF Shapes, TypeOK, Serve, Put, Persona, Get, Write, Remove, Commit, Cleaned, TakenOut
<1>5. rows' \in [Proposal -> Nat]
  <2>1. rows \in [Proposal -> Nat]
    BY DEF Shapes, TypeOK
  <2>2. rows' = rows \/ rows' = [rows EXCEPT ![req[q].on] = @ + 1]
    BY DEF Serve, Put, Persona, Get, Write, Remove, Commit, OnServer
  <2> QED
    BY <2>1, <2>2
<1>6. rejected' \subseteq Proposal
  BY <1>2 DEF Shapes, TypeOK, Serve, Put, Persona, Get, Write, Remove, Commit, OnServer
<1>7. /\ req' \in [Thread -> Request]
      /\ \A o \in Thread : AtStage(req'[o].op, req'[o].pc)
      /\ \A o \in Thread : (req'[o].on = Nil) <=> (req'[o].op = "none")
      /\ \A o \in Thread : req'[o].op = "none" => req'[o] = Idle
  BY <1>1, GoesOn
<1>8. /\ \A p \in Proposal : waits'[p] # Nil => req'[waits'[p]].on = p
      /\ \A p \in Proposal : waits'[p] # Nil => ~req'[waits'[p]].heard
  <2>1. waits' = waits
    BY <1>3
  <2> QED
    BY <1>1, <2>1, WaitersWait
<1> QED
  BY <1>3, <1>4, <1>5, <1>6, <1>7, <1>8 DEF Shapes, TypeOK

(* An answer that reaches the browser.                                     *)
LEMMA HearKeepsShapes ==
  ASSUME Shapes, NEW q \in Thread, Hear(q)
  PROVE  Shapes'
<1> DEFINE r == [req[q] EXCEPT !.heard = TRUE]
<1>1. req[q].answer # Nil /\ ~req[q].heard
  BY DEF Hear
<1>2. req[q].op # "none" /\ req[q] \in Request /\ AtStage(req[q].op, req[q].pc)
  BY <1>1, IdleShape DEF Shapes, TypeOK
<1>3. req[q].on \in Proposal
  BY <1>2 DEF Shapes, TypeOK, Request
<1>4. r \in Request /\ AtStage(r.op, r.pc) /\ r.op # "none" /\ r.on \in Proposal
  BY <1>2, <1>3 DEF Request
<1>5. Becomes(q, r)
  BY DEF Hear
<1>6. /\ req' \in [Thread -> Request]
      /\ \A o \in Thread : o # q => req'[o] = req[o]
      /\ \A o \in Thread : AtStage(req'[o].op, req'[o].pc)
      /\ \A o \in Thread : (req'[o].on = Nil) <=> (req'[o].op = "none")
      /\ \A o \in Thread : req'[o].op = "none" => req'[o] = Idle
  BY <1>4, <1>5, GoesOn
<1>7. card' \in [Proposal -> {"unsent", "parsing", "open", "confirmed", "rejected", "gone"}]
  BY DEF Shapes, TypeOK, Hear, Shown, Outcome
<1>8. /\ waits' \in [Proposal -> Thread \cup {Nil}]
      /\ \A p \in Proposal : waits'[p] # Nil => waits'[p] = waits[p] /\ waits[p] # q
  BY NilOutside DEF Shapes, TypeOK, Hear, Awaited
<1>9. \A p \in Proposal : waits'[p] # Nil => req'[waits'[p]].on = p /\ ~req'[waits'[p]].heard
  BY <1>6, <1>8 DEF Shapes, TypeOK
<1> QED
  BY <1>6, <1>7, <1>8, <1>9 DEF Shapes, TypeOK, Hear

(* A request that begins on a thread that was free. *)
LEMMA BeginKeepsShapes ==
  ASSUME Shapes, NEW q \in Thread, NEW p \in Proposal, NEW op \in {"parse", "confirm", "reject"},
         NEW pc, AtStage(op, pc), req[q] = Idle,
         req' = [req EXCEPT ![q] = [Idle EXCEPT !.op = op, !.on = p, !.pc = pc]],
         waits' = [waits EXCEPT ![p] = q],
         card' \in [Proposal -> {"unsent", "parsing", "open", "confirmed", "rejected", "gone"}],
         overlapped' \subseteq Proposal,
         UNCHANGED <<store, rows, answersFirst, rejected>>
  PROVE  Shapes'
<1> DEFINE r == [Idle EXCEPT !.op = op, !.on = p, !.pc = pc]
<1>1. r \in Request /\ r.op = op /\ r.on = p /\ r.pc = pc /\ r.heard = FALSE
  BY DEF Idle, Request, AtStage
<1>2. req' \in [Thread -> Request] /\ req'[q] = r
      /\ \A o \in Thread : o # q => req'[o] = req[o]
  BY <1>1 DEF Shapes, TypeOK
<1>3. \A o \in Proposal : waits[o] # Nil => waits[o] # q
  BY IdleShape, NilOutside DEF Shapes, TypeOK
<1>4. waits' \in [Proposal -> Thread \cup {Nil}] /\ waits'[p] = q
      /\ \A o \in Proposal : o # p => waits'[o] = waits[o]
  BY DEF Shapes, TypeOK
<1>5. \A o \in Proposal : waits'[o] # Nil => req'[waits'[o]].on = o /\ ~req'[waits'[o]].heard
  BY <1>1, <1>2, <1>3, <1>4 DEF Shapes, TypeOK
<1>6. \A o \in Thread : /\ AtStage(req'[o].op, req'[o].pc)
                        /\ (req'[o].on = Nil) <=> (req'[o].op = "none")
                        /\ req'[o].op = "none" => req'[o] = Idle
  BY <1>1, <1>2, NilOutside DEF Shapes, TypeOK
<1> HIDE DEF r
<1> QED
  BY <1>2, <1>4, <1>5, <1>6 DEF Shapes, TypeOK

(* Requests that break off, or whose answers nobody hears any more. *)
LEMMA RestartKeepsShapes ==
  ASSUME Shapes, Restart
  PROVE  Shapes'
<1>1. ASSUME NEW q \in Thread
      PROVE  /\ req'[q] \in Request
             /\ AtStage(req'[q].op, req'[q].pc)
             /\ (req'[q].on = Nil) <=> (req'[q].op = "none")
             /\ req'[q].op = "none" => req'[q] = Idle
             /\ ~req[q].heard => req'[q].on = req[q].on /\ ~req'[q].heard
  <2> DEFINE r == [req[q] EXCEPT !.pc = "done", !.answer = IF @ = Nil THEN "error" ELSE @]
  <2>1. CASE ~Working(q)
    BY <2>1 DEF Restart, Shapes, TypeOK
  <2>2. CASE Working(q)
    <3>1. req[q].pc # "idle"
      BY <2>2 DEF Working
    <3>2. req[q] \in Request /\ req[q].op # "none" /\ req[q].on \in Proposal
          /\ AtStage(req[q].op, req[q].pc)
      BY <3>1, Serving DEF Shapes, TypeOK
    <3>3. r \in Request /\ AtStage(r.op, r.pc) /\ r.op = req[q].op /\ r.on = req[q].on
          /\ r.heard = req[q].heard
      BY <3>2 DEF Request, AtStage
    <3>4. req'[q] = Rest(r)
      BY <2>2 DEF Restart
    <3> HIDE DEF r
    <3>5. CASE Rest(r) = Idle /\ r.heard
      BY <3>3, <3>4, <3>5, IdleShape
    <3>6. CASE Rest(r) = r
      BY <3>2, <3>3, <3>4, <3>6, NilOutside
    <3> QED
      BY <3>5, <3>6 DEF Rest
  <2> QED
    BY <2>1, <2>2
<1>2. req' \in [Thread -> Request]
  <2>1. DOMAIN req' = Thread /\ req' = [q \in Thread |-> req'[q]]
    BY DEF Restart
  <2> QED
    BY <1>1, <2>1
<1>3. \A p \in Proposal : waits[p] # Nil => req'[waits[p]].on = p /\ ~req'[waits[p]].heard
  BY <1>1 DEF Shapes, TypeOK
<1>4. store' \in [Proposal -> {"none", "fresh", "expired"}]
      /\ UNCHANGED <<rows, card, waits, answersFirst, overlapped, rejected>>
  BY DEF Restart, OnServer
<1> QED
  BY <1>1, <1>2, <1>3, <1>4 DEF Shapes, TypeOK

(* A reload, after which nobody hears the answers in flight.               *)
LEMMA ReloadKeepsShapes ==
  ASSUME Shapes, Reload
  PROVE  Shapes'
<1>1. ASSUME NEW q \in Thread
      PROVE  /\ req'[q] \in Request
             /\ AtStage(req'[q].op, req'[q].pc)
             /\ (req'[q].on = Nil) <=> (req'[q].op = "none")
             /\ req'[q].op = "none" => req'[q] = Idle
  <2> DEFINE r == [req[q] EXCEPT !.heard = TRUE]
  <2>1. CASE req'[q] = Idle
    BY <2>1, IdleShape
  <2>2. CASE req[q] # Idle /\ req'[q] = r
    <3>1. req[q] \in Request /\ req[q].op # "none" /\ AtStage(req[q].op, req[q].pc)
          /\ req[q].on # Nil
      BY <2>2 DEF Shapes, TypeOK
    <3>2. r \in Request /\ r.op = req[q].op /\ r.pc = req[q].pc /\ r.on = req[q].on
      BY <3>1 DEF Request
    <3> HIDE DEF r
    <3> QED
      BY <2>2, <3>1, <3>2
  <2> QED
    BY <2>1, <2>2 DEF Reload, Rest
<1>2. req' \in [Thread -> Request]
  <2>1. DOMAIN req' = Thread /\ req' = [q \in Thread |-> req'[q]]
    BY DEF Reload
  <2> QED
    BY <1>1, <2>1
<1>3. /\ card' \in [Proposal -> {"unsent", "parsing", "open", "confirmed", "rejected", "gone"}]
      /\ waits' \in [Proposal -> Thread \cup {Nil}]
      /\ \A p \in Proposal : waits'[p] = Nil
      /\ UNCHANGED <<store, rows, answersFirst, overlapped, rejected>>
  BY DEF Reload, Shapes, TypeOK
<1> QED
  BY <1>1, <1>2, <1>3 DEF Shapes, TypeOK

(* Every step keeps the shapes.                                            *)
LEMMA ShapesNext == Shapes /\ [Next]_vars => Shapes'
<1> SUFFICES ASSUME Shapes, [Next]_vars PROVE Shapes'
  OBVIOUS
<1>1. ASSUME NEW q \in Thread, Serve(q) PROVE Shapes'
  BY <1>1, ServeKeepsShapes
<1>2. ASSUME NEW q \in Thread, Hear(q) PROVE Shapes'
  BY <1>2, HearKeepsShapes
<1>3. ASSUME NEW q \in Thread, NEW p \in Proposal, Send(q, p) PROVE Shapes'
  <2>1. card' \in [Proposal -> {"unsent", "parsing", "open", "confirmed", "rejected", "gone"}]
        /\ overlapped' \subseteq Proposal
    BY <1>3 DEF Send, Shapes, TypeOK
  <2>2. AtStage("parse", "put")
    BY DEF AtStage
  <2> QED
    BY <1>3, <2>1, <2>2, BeginKeepsShapes DEF Send
<1>4. ASSUME NEW q \in Thread, NEW p \in Proposal, NEW op \in {"confirm", "reject"},
             Decide(q, p, op)
      PROVE  Shapes'
  <2>1. card' \in [Proposal -> {"unsent", "parsing", "open", "confirmed", "rejected", "gone"}]
        /\ overlapped' \subseteq Proposal
    BY <1>4 DEF Decide, Shapes, TypeOK
  <2>2. AtStage(op, "get")
    BY DEF AtStage
  <2> QED
    BY <1>4, <2>1, <2>2, BeginKeepsShapes DEF Decide
<1>5. ASSUME NEW p \in Proposal, Expire(p) PROVE Shapes'
  BY <1>5 DEF Expire, OnServer, Shapes, TypeOK
<1>6. CASE Restart
  BY <1>6, RestartKeepsShapes
<1>7. CASE ClosePanel
  BY <1>7 DEF ClosePanel, Shapes, TypeOK
<1>8. CASE Clear
  BY <1>8 DEF Clear, Shapes, TypeOK
<1>9. CASE Reload
  BY <1>9, ReloadKeepsShapes
<1>10. CASE UNCHANGED vars
  BY <1>10 DEF vars, Shapes, TypeOK
<1> QED
  BY <1>1, <1>2, <1>3, <1>4, <1>5, <1>6, <1>7, <1>8, <1>9, <1>10 DEF Next

(* Requests stay at stages of their operation, and a card that waits does  *)
(* so for a request on its own proposal whose answer is still to come.     *)
THEOREM TypeCorrect == Spec => []TypeOK
<1>1. Shapes => TypeOK
  BY DEF Shapes
<1> QED
  BY <1>1, ShapesInit, ShapesNext, PTL DEF Spec

-----------------------------------------------------------------------------
(* Nothing has happened to a proposal before its message is sent.          *)
Untouched(p) ==
  /\ store[p] = "none" /\ rows[p] = 0 /\ p \notin rejected /\ p \notin overlapped
  /\ \A q \in Thread : req[q].on # p

(* A proposal is decided once it is recorded or rejected.                  *)
Decided(p) == rows[p] > 0 \/ p \in rejected

(* Without overlap one request at most works on a proposal.  What has been *)
(* decided is out of the store, so that a later request fails at get; what *)
(* a request is about to commit is out of the store as well.               *)
Single(p) ==
  /\ \A q, o \in Thread : WorksOn(q, p) /\ WorksOn(o, p) => q = o
  /\ rows[p] <= 1 /\ (p \in rejected => rows[p] = 0)
  /\ Decided(p) => store[p] = "none" /\ \A q \in Thread : WorksOn(q, p) => req[q].pc = "get"
  /\ \A q \in Thread : WorksOn(q, p) /\ req[q].pc = "commit" => store[p] = "none"

IInv ==
  /\ Shapes
  /\ \A p \in Proposal : card[p] = "unsent" => Untouched(p)
  /\ \A p \in Proposal \ overlapped : Single(p)

(* No proposal is being worked on at the start.                            *)
LEMMA IInvInit == Init => IInv
BY ShapesInit, IdleShape, NilOutside
   DEF Init, IInv, Untouched, Single, Decided, WorksOn, Working

(* A step that leaves a request on a proposal working no more than before, *)
(* and nothing else about the proposal but its entry in the store, which   *)
(* it may drop, keeps it single.                                           *)
LEMMA SingleStays ==
  ASSUME NEW p \in Proposal, Single(p),
         \A q \in Thread : WorksOn(q, p)' => WorksOn(q, p) /\ req'[q].pc = req[q].pc,
         store'[p] \in {store[p], "none"},
         rows'[p] = rows[p], p \in rejected' <=> p \in rejected
  PROVE  Single(p)'
BY DEF Single, Decided

(* An answer ends the work on a request, another stage goes on with it.    *)
LEMMA AnswerEnds ==
  ASSUME Shapes, NEW q \in Thread, NEW a, Answer(q, a)
  PROVE  req'[q].pc \in {"idle", "done"} /\ \A o \in Thread : o # q => req'[o] = req[o]
<1> DEFINE r == [req[q] EXCEPT !.pc = "done", !.answer = a]
<1>1. req \in [Thread -> Request] /\ req' = [req EXCEPT ![q] = Rest(r)]
  BY DEF Shapes, TypeOK, Answer, Becomes
<1>2. r.pc = "done"
  BY <1>1 DEF Request
<1>3. Rest(r).pc \in {"idle", "done"}
  BY <1>2, IdleShape DEF Rest
<1> HIDE DEF r
<1> QED
  BY <1>1, <1>3

(* A request that becomes another leaves the other threads alone.          *)
LEMMA GoesAt ==
  ASSUME Shapes, NEW q \in Thread, NEW r \in Request, Becomes(q, r), r.pc # "done"
  PROVE  req'[q] = r /\ \A o \in Thread : o # q => req'[o] = req[o]
BY DEF Shapes, TypeOK, Becomes, Rest

(* The same for a request at one of its stages. *)
LEMMA GoesTo ==
  ASSUME Shapes, NEW q \in Thread, Goes(q, "persona") \/ Goes(q, "write") \/ Goes(q, "remove")
  PROVE  /\ \A o \in Thread : o # q => req'[o] = req[o]
         /\ req'[q].pc \in {"persona", "write", "remove"} /\ req'[q].on = req[q].on
<1>1. PICK pc \in {"persona", "write", "remove"} : Goes(q, pc)
  OBVIOUS
<1> DEFINE r == [req[q] EXCEPT !.pc = pc]
<1>2. r \in Request /\ r.pc = pc /\ r.on = req[q].on
  BY DEF Shapes, TypeOK, Request
<1>3. Becomes(q, r)
  BY <1>1 DEF Goes
<1> HIDE DEF r
<1> QED
  BY <1>2, <1>3, GoesAt

(* What a step of the server leaves alone. *)
LEMMA ServeElsewhere ==
  ASSUME Shapes, NEW q \in Thread, Serve(q), NEW p \in Proposal, p # req[q].on
  PROVE  /\ store'[p] \in {store[p], "none"}
         /\ rows'[p] = rows[p] /\ (p \in rejected' <=> p \in rejected)
         /\ \A o \in Thread : req'[o].on = p => req'[o] = req[o]
<1>1. store'[p] \in {store[p], "none"}
  <2>1. store \in [Proposal -> {"none", "fresh", "expired"}]
    BY DEF Shapes, TypeOK
  <2>2. Cleaned(store) \in [Proposal -> {"none", "fresh", "expired"}]
        /\ Cleaned(store)[p] \in {store[p], "none"}
    BY <2>1 DEF Cleaned
  <2>3. \/ store' \in {store, Cleaned(store), TakenOut(q)}
        \/ store' = [Cleaned(store) EXCEPT ![req[q].on] = "fresh"]
    BY DEF Serve, Put, Persona, Get, Write, Remove, Commit
  <2> QED
    BY <2>1, <2>2, <2>3 DEF TakenOut
<1>2. rows'[p] = rows[p] /\ (p \in rejected' <=> p \in rejected)
  BY DEF Shapes, TypeOK, Serve, Put, Persona, Get, Write, Remove, Commit, OnServer
<1>3. PICK r \in Request :
        /\ Becomes(q, r) /\ AtStage(r.op, r.pc) /\ r.op # "none" /\ r.on \in Proposal
        /\ r.on = req[q].on
  BY ServeBecomes
<1>4. req'[q] = Rest(r) /\ \A o \in Thread : o # q => req'[o] = req[o]
  BY <1>3, GoesOn
<1>5. Rest(r).on # p
  BY <1>3, IdleShape, NilOutside DEF Rest
<1> QED
  BY <1>1, <1>2, <1>4, <1>5

(* A stage of the server keeps one request at most on the proposal it      *)
(* works on.                                                               *)
LEMMA ServeKeepsSingle ==
  ASSUME Shapes, NEW q \in Thread, Serve(q), NEW p \in Proposal, p = req[q].on, Single(p)
  PROVE  Single(p)'
<1>1. WorksOn(q, p)
  BY DEF WorksOn, Working, Serve, Put, Persona, Get, Write, Remove, Commit
<1>2. \A o \in Thread : WorksOn(o, p) => o = q
  BY <1>1 DEF Single
<1>3. store \in [Proposal -> {"none", "fresh", "expired"}] /\ rows \in [Proposal -> Nat]
  BY DEF Shapes, TypeOK
<1>4. ASSUME NEW a, Answer(q, a) PROVE \A o \in Thread : ~WorksOn(o, p)'
  <2>1. req'[q].pc \in {"idle", "done"} /\ \A o \in Thread : o # q => req'[o] = req[o]
    BY <1>4, AnswerEnds
  <2> QED
    BY <1>2, <2>1 DEF WorksOn, Working
<1>5. ASSUME Goes(q, "persona") \/ Goes(q, "write") \/ Goes(q, "remove")
      PROVE  \A o \in Thread :
               WorksOn(o, p)' => o = q /\ req'[o].pc \in {"persona", "write", "remove"}
  <2>1. /\ \A o \in Thread : o # q => req'[o] = req[o]
        /\ req'[q].pc \in {"persona", "write", "remove"}
    BY <1>5, GoesTo
  <2> QED
    BY <1>2, <2>1 DEF WorksOn, Working
<1>6. CASE Put(q)
  <2>1. ~Decided(p) /\ ~Decided(p)' /\ UNCHANGED <<rows, rejected>>
    BY <1>1, <1>6 DEF Put, OnServer, Single, Decided
  <2>2. \A o \in Thread : WorksOn(o, p)' => o = q /\ req'[o].pc = "persona"
    <3>1. \/ Goes(q, "persona")
          \/ \E a : Answer(q, a)
      BY <1>6 DEF Put
    <3>2. ASSUME Goes(q, "persona")
          PROVE  \A o \in Thread : o # q => req'[o] = req[o]
      BY <3>2, GoesTo
    <3>3. ASSUME Goes(q, "persona")
          PROVE  req'[q].pc = "persona"
      <4> DEFINE r == [req[q] EXCEPT !.pc = "persona"]
      <4>1. r \in Request /\ r.pc = "persona"
        BY DEF Shapes, TypeOK, Request
      <4>2. Becomes(q, r)
        BY <3>3 DEF Goes
      <4> HIDE DEF r
      <4> QED
        BY <4>1, <4>2, GoesAt
    <3> QED
      BY <1>2, <1>4, <3>1, <3>2, <3>3 DEF WorksOn, Working
  <2> QED
    BY <1>1, <2>1, <2>2 DEF Single
<1>7. CASE Persona(q)
  BY <1>4, <1>7 DEF Persona, OnServer, Single, Decided
<1>8. CASE Get(q)
  <2>1. store'[p] \in {store[p], "none"} /\ UNCHANGED <<rows, rejected>>
    BY <1>3, <1>8 DEF Get, OnServer, Cleaned
  <2>2. CASE store'[p] = "none"
    BY <1>4, <1>8, <2>1, <2>2 DEF Get, Single, Decided
  <2>3. CASE store'[p] # "none"
    <3>1. Goes(q, "write") \/ Goes(q, "remove")
      BY <1>8, <2>3 DEF Get, Following
    <3>2. ~Decided(p)
      BY <2>1, <2>3 DEF Single
    <3> QED
      BY <1>5, <2>1, <3>1, <3>2 DEF Single, Decided
  <2> QED
    BY <2>2, <2>3
<1>9. CASE Write(q)
  <2>1. ~Decided(p) /\ UNCHANGED <<store, rows, rejected>>
    BY <1>1, <1>9 DEF Write, OnServer, Single
  <2>2. Goes(q, "remove") \/ Answer(q, "error")
    BY <1>9 DEF Write
  <2> QED
    BY <1>4, <1>5, <2>1, <2>2 DEF Single, Decided
<1>10. CASE Remove(q)
  <2>0. store' = [store EXCEPT ![p] = "none"] /\ rows' = rows /\ req[q].pc # "get"
    BY <1>10 DEF Remove, TakenOut
  <2>1. ~Decided(p) /\ rows' = rows /\ store'[p] = "none"
    BY <1>1, <1>3, <2>0 DEF Single
  <2>2. CASE req[q].op = "reject"
    <3>1. Answer(q, "ok")
      BY <1>10, <2>2 DEF Remove
    <3>2. rows'[p] = 0
      BY <1>3, <2>1 DEF Decided
    <3> QED
      BY <1>4, <2>1, <3>1, <3>2 DEF Single
  <2>3. CASE req[q].op # "reject"
    <3>1. PICK r : Becomes(q, r) /\ rejected' = rejected
      BY <1>10, <2>3 DEF Remove
    <3>2. \A o \in Thread : o # q => req'[o] = req[o]
      BY <3>1 DEF Becomes, Shapes, TypeOK
    <3>3. \A o \in Thread : WorksOn(o, p)' => o = q
      BY <1>2, <3>2 DEF WorksOn, Working
    <3> QED
      BY <2>1, <3>1, <3>3 DEF Single, Decided
  <2> QED
    BY <2>2, <2>3
<1>11. CASE Commit(q)
  <2>1. ~Decided(p) /\ store'[p] = "none" /\ rejected' = rejected
    BY <1>1, <1>11 DEF Commit, Single
  <2>2. rows[p] = 0 /\ rows'[p] \in {0, 1}
    BY <1>3, <1>11, <2>1 DEF Commit, Decided
  <2>3. \E a : Answer(q, a)
    BY <1>11 DEF Commit
  <2> QED
    BY <1>4, <2>1, <2>2, <2>3 DEF Single, Decided
<1> QED
  BY <1>6, <1>7, <1>8, <1>9, <1>10, <1>11 DEF Serve

-----------------------------------------------------------------------------
(* A request of the server on one proposal, as seen from every proposal.   *)
LEMMA ServeKeepsIInv ==
  ASSUME IInv, NEW q \in Thread, Serve(q)
  PROVE  IInv'
<1>1. Shapes /\ Shapes' /\ req[q].on \in Proposal
  BY ServeKeepsShapes, ServeBecomes DEF IInv
<1>2. card' = card /\ overlapped' = overlapped
  BY DEF Serve, Put, Persona, Get, Write, Remove, Commit, OnServer
<1>3. ASSUME NEW p \in Proposal, card[p] = "unsent" PROVE Untouched(p)'
  <2>1. Untouched(p)
    BY <1>3 DEF IInv
  <2>2. p # req[q].on
    BY <2>1 DEF Untouched
  <2> QED
    BY <1>1, <1>2, <2>1, <2>2, ServeElsewhere DEF Untouched
<1>4. ASSUME NEW p \in Proposal \ overlapped PROVE Single(p)'
  <2>1. Single(p)
    BY DEF IInv
  <2>2. CASE p = req[q].on
    BY <1>1, <2>1, <2>2, ServeKeepsSingle
  <2>3. CASE p # req[q].on
    <3>1. /\ store'[p] \in {store[p], "none"}
          /\ rows'[p] = rows[p] /\ (p \in rejected' <=> p \in rejected)
          /\ \A o \in Thread : req'[o].on = p => req'[o] = req[o]
      BY <1>1, <2>3, ServeElsewhere
    <3>2. \A o \in Thread : WorksOn(o, p)' => WorksOn(o, p) /\ req'[o].pc = req[o].pc
      BY <3>1 DEF WorksOn, Working
    <3> QED
      BY <2>1, <3>1, <3>2, SingleStays
  <2> QED
    BY <2>2, <2>3
<1> QED
  BY <1>1, <1>2, <1>3, <1>4 DEF IInv

(* Steps after which no request works on more than before. *)
LEMMA QuietKeepsIInv ==
  ASSUME IInv, Shapes',
         \A q \in Thread : req'[q].on \in {req[q].on, Nil},
         \A q \in Thread : Working(q)' => Working(q) /\ req'[q].pc = req[q].pc,
         \A p \in Proposal : store'[p] \in {store[p], "none", "expired"},
         \A p \in Proposal : store[p] = "none" => store'[p] = "none",
         \A p \in Proposal : card'[p] = "unsent" => card[p] = "unsent",
         UNCHANGED <<rows, overlapped, rejected>>
  PROVE  IInv'
<1>1. ASSUME NEW p \in Proposal, card'[p] = "unsent" PROVE Untouched(p)'
  BY <1>1, NilOutside DEF IInv, Untouched
<1>2. ASSUME NEW p \in Proposal \ overlapped PROVE Single(p)'
  <2>1. Single(p)
    BY DEF IInv
  <2>2. \A q \in Thread : WorksOn(q, p)' => WorksOn(q, p) /\ req'[q].pc = req[q].pc
    BY NilOutside DEF WorksOn
  <2> QED
    BY <2>1, <2>2 DEF Single, Decided
<1> QED
  BY <1>1, <1>2 DEF IInv

(* A request that begins on a card that is unsent or open. *)
LEMMA BeginKeepsIInv ==
  ASSUME IInv, Shapes', NEW q \in Thread, NEW p \in Proposal, req[q] = Idle,
         NEW pc \in {"put", "get"},
         \A o \in Thread : o # q => req'[o] = req[o],
         req'[q].on = p /\ req'[q].pc = pc,
         \A o \in Proposal : card'[o] = "unsent" => o # p /\ card[o] = "unsent",
         pc = "put" => card[p] = "unsent",
         overlapped' = IF \E o \in Thread : WorksOn(o, p) THEN overlapped \cup {p} ELSE overlapped,
         UNCHANGED <<store, rows, rejected>>
  PROVE  IInv'
<1>1. ASSUME NEW o \in Proposal, card'[o] = "unsent" PROVE Untouched(o)'
  BY <1>1 DEF IInv, Untouched
<1>2. ASSUME NEW o \in Proposal \ overlapped' PROVE Single(o)'
  <2>1. Single(o) /\ o \notin overlapped
    BY DEF IInv
  <2>2. CASE o # p
    <3>1. \A t \in Thread : WorksOn(t, o)' => WorksOn(t, o) /\ req'[t].pc = req[t].pc
      BY <2>2 DEF WorksOn, Working
    <3> QED
      BY <2>1, <3>1 DEF Single, Decided
  <2>3. CASE o = p
    <3>1. \A t \in Thread : WorksOn(t, p)' => t = q
      BY <2>3 DEF WorksOn, Working
    <3>2. pc = "put" => ~Decided(p)
      BY DEF IInv, Untouched, Decided
    <3>3. rows' = rows /\ store' = store /\ rejected' = rejected
      OBVIOUS
    <3> QED
      BY <2>1, <2>3, <3>1, <3>2, <3>3 DEF Single, Decided
  <2> QED
    BY <2>2, <2>3
<1> QED
  BY <1>1, <1>2 DEF IInv

(* The steps in which no request gets further. *)
Quiet ==
  \/ \E q \in Thread : Hear(q)
  \/ \E p \in Proposal : Expire(p)
  \/ Restart \/ ClosePanel \/ Clear \/ Reload \/ UNCHANGED vars

(* A quiet step takes no request further.                                  *)
LEMMA QuietRequests ==
  ASSUME Shapes, Quiet, NEW q \in Thread
  PROVE  /\ req'[q].on \in {req[q].on, Nil}
         /\ Working(q)' => Working(q) /\ req'[q].pc = req[q].pc
<1>1. ASSUME NEW o \in Thread, Hear(o)
      PROVE  /\ req'[q].on \in {req[q].on, Nil}
             /\ Working(q)' => Working(q) /\ req'[q].pc = req[q].pc
  <2> DEFINE r == [req[o] EXCEPT !.heard = TRUE]
  <2>1. Becomes(o, r)
    BY <1>1 DEF Hear
  <2>2. req'[o] = Rest(r) /\ (q # o => req'[q] = req[q])
    BY <2>1 DEF Becomes, Shapes, TypeOK
  <2>3. r.pc = req[o].pc /\ r.on = req[o].on
    BY DEF Shapes, TypeOK, Request
  <2> HIDE DEF r
  <2> QED
    BY <2>2, <2>3, IdleShape DEF Rest, Working
<1>2. CASE Restart
  <2> DEFINE r == [req[q] EXCEPT !.pc = "done", !.answer = IF @ = Nil THEN "error" ELSE @]
  <2>1. r.pc = "done" /\ r.on = req[q].on
    BY DEF Shapes, TypeOK, Request
  <2>2. req'[q] = IF Working(q) THEN Rest(r) ELSE req[q]
    BY <1>2 DEF Restart
  <2> HIDE DEF r
  <2> QED
    BY <2>1, <2>2, IdleShape DEF Rest, Working
<1>3. CASE Reload
  <2> DEFINE r == [req[q] EXCEPT !.heard = TRUE]
  <2>1. r.pc = req[q].pc /\ r.on = req[q].on
    BY DEF Shapes, TypeOK, Request
  <2>2. req'[q] \in {Idle, r}
    BY <1>3 DEF Reload, Rest
  <2> HIDE DEF r
  <2> QED
    BY <2>1, <2>2, IdleShape DEF Working
<1>4. CASE req' = req
  BY <1>4 DEF Working
<1> QED
  BY <1>1, <1>2, <1>3, <1>4 DEF Quiet, Expire, ClosePanel, Clear, vars

(* A quiet step brings no entry back and opens no card again.              *)
LEMMA QuietElsewhere ==
  ASSUME Shapes, Quiet, NEW p \in Proposal
  PROVE  /\ store'[p] \in {store[p], "none", "expired"}
         /\ store[p] = "none" => store'[p] = "none"
         /\ card'[p] = "unsent" => card[p] = "unsent"
         /\ card[p] \notin {"unsent", "parsing"} => card'[p] \notin {"unsent", "parsing"}
         /\ UNCHANGED <<rows, overlapped, rejected>>
<1>1. UNCHANGED <<rows, overlapped, rejected>>
  BY DEF Quiet, Hear, Expire, Restart, ClosePanel, Clear, Reload, vars, OnServer
<1>2. /\ store'[p] \in {store[p], "none", "expired"}
      /\ store[p] = "none" => store'[p] = "none"
  <2>1. \/ store' = store
        \/ store'[p] = "none"
        \/ \E o \in Proposal : store[o] = "fresh" /\ store' = [store EXCEPT ![o] = "expired"]
    BY DEF Quiet, Hear, Expire, Restart, ClosePanel, Clear, Reload, vars
  <2> QED
    BY <2>1 DEF Shapes, TypeOK
<1>3. /\ card'[p] = "unsent" => card[p] = "unsent"
      /\ card[p] \notin {"unsent", "parsing"} => card'[p] \notin {"unsent", "parsing"}
  <2>1. ASSUME NEW q \in Thread, Hear(q)
        PROVE  card'[p] \in {card[p], "open", "gone", "confirmed", "rejected"}
    BY <2>1 DEF Hear, Shown, Outcome, Shapes, TypeOK
  <2>2. CASE Clear
    BY <2>2 DEF Clear
  <2>3. CASE Reload
    BY <2>3 DEF Reload
  <2>4. CASE card' = card
    BY <2>4
  <2> QED
    BY <2>1, <2>2, <2>3, <2>4 DEF Quiet, Expire, Restart, ClosePanel, vars, OnServer
<1> QED
  BY <1>1, <1>2, <1>3

(* The steps that begin a request. *)
LEMMA BeginsRequest ==
  ASSUME Shapes, NEW q \in Thread, NEW p \in Proposal,
         Send(q, p) \/ \E op \in {"confirm", "reject"} : Decide(q, p, op)
  PROVE  /\ req'[q].on = p /\ \A o \in Thread : o # q => req'[o] = req[o]
         /\ Send(q, p) => req'[q].pc = "put"
         /\ ~Send(q, p) => req'[q].pc = "get"
         /\ \A o \in Proposal : card'[o] = "unsent" => o # p /\ card[o] = "unsent"
<1>1. CASE Send(q, p)
  BY <1>1, IdleShape DEF Send, Shapes, TypeOK, Request
<1>2. ASSUME NEW op \in {"confirm", "reject"}, Decide(q, p, op)
      PROVE  /\ req'[q].on = p /\ \A o \in Thread : o # q => req'[o] = req[o]
             /\ req'[q].pc = "get" /\ ~Send(q, p)
             /\ \A o \in Proposal : card'[o] = "unsent" => o # p /\ card[o] = "unsent"
  BY <1>2, IdleShape DEF Decide, Send, Shapes, TypeOK, Request
<1> QED
  BY <1>1, <1>2

(* Next, sorted by what the proofs need to tell apart. *)
LEMMA NextIs ==
  [Next]_vars => \/ \E q \in Thread : Serve(q)
                 \/ \E q \in Thread, p \in Proposal :
                      Send(q, p) \/ \E op \in {"confirm", "reject"} : Decide(q, p, op)
                 \/ Quiet
BY DEF Next, Quiet

(* Every step keeps the invariant.                                         *)
LEMMA IInvNext == IInv /\ [Next]_vars => IInv'
<1> SUFFICES ASSUME IInv, [Next]_vars PROVE IInv'
  OBVIOUS
<1>1. Shapes /\ Shapes'
  BY ShapesNext DEF IInv
<1>2. ASSUME NEW q \in Thread, Serve(q) PROVE IInv'
  BY <1>2, ServeKeepsIInv
<1>3. ASSUME NEW q \in Thread, NEW p \in Proposal, Send(q, p) PROVE IInv'
  <2>1. Untouched(p)
    BY <1>3 DEF IInv, Send
  <2>2. ~\E o \in Thread : WorksOn(o, p)
    BY <2>1 DEF Untouched, WorksOn
  <2>3. /\ req'[q].on = p /\ req'[q].pc = "put" /\ \A o \in Thread : o # q => req'[o] = req[o]
        /\ \A o \in Proposal : card'[o] = "unsent" => o # p /\ card[o] = "unsent"
    BY <1>1, <1>3, BeginsRequest
  <2>4. /\ req[q] = Idle /\ card[p] = "unsent"
        /\ UNCHANGED <<store, rows, overlapped, rejected>>
    BY <1>3 DEF Send
  <2> QED
    BY <1>1, <2>2, <2>3, <2>4, BeginKeepsIInv
<1>4. ASSUME NEW q \in Thread, NEW p \in Proposal, NEW op \in {"confirm", "reject"},
             Decide(q, p, op)
      PROVE  IInv'
  <2>1. ~Send(q, p)
    BY <1>4 DEF Decide, Send
  <2>2. /\ req'[q].on = p /\ req'[q].pc = "get" /\ \A o \in Thread : o # q => req'[o] = req[o]
        /\ \A o \in Proposal : card'[o] = "unsent" => o # p /\ card[o] = "unsent"
    BY <1>1, <1>4, <2>1, BeginsRequest
  <2>3. /\ req[q] = Idle
        /\ overlapped' = IF \E o \in Thread : WorksOn(o, p) THEN overlapped \cup {p}
                         ELSE overlapped
        /\ UNCHANGED <<store, rows, rejected>>
    BY <1>4 DEF Decide
  <2> QED
    BY <1>1, <2>2, <2>3, BeginKeepsIInv
<1>5. CASE Quiet
  <2>1. \A q \in Thread : /\ req'[q].on \in {req[q].on, Nil}
                          /\ Working(q)' => Working(q) /\ req'[q].pc = req[q].pc
    BY <1>1, <1>5, QuietRequests
  <2>2. \A p \in Proposal : /\ store'[p] \in {store[p], "none", "expired"}
                            /\ store[p] = "none" => store'[p] = "none"
                            /\ card'[p] = "unsent" => card[p] = "unsent"
    BY <1>1, <1>5, QuietElsewhere
  <2>3. UNCHANGED <<rows, overlapped, rejected>>
    BY <1>5 DEF Quiet, Hear, Expire, Restart, ClosePanel, Clear, Reload, vars, OnServer
  <2> QED
    BY <1>1, <2>1, <2>2, <2>3, QuietKeepsIInv
<1> QED
  BY <1>2, <1>3, <1>4, <1>5, NextIs

(* A proposal on which no two requests overlap is recorded at most once.   *)
THEOREM ProposalsRecordedOnce == Spec => []RecordedOnce
<1>1. IInv => RecordedOnce
  BY DEF IInv, Single, RecordedOnce
<1> QED
  BY <1>1, IInvInit, IInvNext, PTL DEF Spec

(* A proposal that was rejected, with no request overlapping, is never     *)
(* recorded, before or after.                                              *)
THEOREM RejectionsHold == Spec => []RejectedStaysOut
<1>1. IInv => RejectedStaysOut
  BY DEF IInv, Shapes, TypeOK, Single, RejectedStaysOut
<1> QED
  BY <1>1, IInvInit, IInvNext, PTL DEF Spec

-----------------------------------------------------------------------------
(* A closed card stays closed, with its rows.                              *)
LEMMA ClosedStays ==
  ASSUME Shapes, [Next]_vars, NEW p \in Proposal, Closed(p)
  PROVE  Closed(p)' /\ rows'[p] = rows[p]
<1>1. ASSUME NEW q \in Thread, Serve(q) PROVE Closed(p)' /\ rows'[p] = rows[p]
  <2>1. card' = card
    BY <1>1 DEF Serve, Put, Persona, Get, Write, Remove, Commit, OnServer
  <2>2. CASE req[q].on = p
    <3>1. Working(q)
      BY <1>1 DEF Working, Serve, Put, Persona, Get, Write, Remove, Commit
    <3>2. Get(q)
      BY <1>1, <2>2, <3>1
         DEF Closed, WorksOn, Serve, Put, Persona, Get, Write, Remove, Commit
    <3>3. store'[p] = "none" /\ rows' = rows
      BY <3>2 DEF Get, Cleaned, OnServer, Closed, Shapes, TypeOK
    <3>4. Answer(q, "error")
      BY <2>2, <3>2, <3>3 DEF Get
    <3>5. ~Working(q)' /\ \A o \in Thread : o # q => req'[o] = req[o]
      BY <3>4, AnswerEnds DEF Working
    <3> QED
      BY <2>1, <3>3, <3>5 DEF Closed, WorksOn, Working
  <2>3. CASE req[q].on # p
    BY <1>1, <2>1, <2>3, ServeElsewhere DEF Closed, WorksOn, Working
  <2> QED
    BY <2>2, <2>3
<1>2. ASSUME NEW q \in Thread, NEW o \in Proposal,
             Send(q, o) \/ \E op \in {"confirm", "reject"} : Decide(q, o, op)
      PROVE  Closed(p)' /\ rows'[p] = rows[p]
  <2>1. /\ req'[q].on = o /\ \A t \in Thread : t # q => req'[t] = req[t]
        /\ Send(q, o) => req'[q].pc = "put"
        /\ ~Send(q, o) => req'[q].pc = "get"
    BY <1>2, BeginsRequest
  <2>2. UNCHANGED <<store, rows>> /\ (Send(q, o) => o # p) /\ card'[p] = card[p]
    BY <1>2 DEF Send, Decide, Closed, Shapes, TypeOK
  <2> QED
    BY <2>1, <2>2 DEF Closed, WorksOn, Working
<1>3. CASE Quiet
  <2>1. \A q \in Thread : WorksOn(q, p)' => WorksOn(q, p) /\ req'[q].pc = req[q].pc
    BY <1>3, QuietRequests, NilOutside DEF WorksOn
  <2> QED
    BY <1>3, <2>1, QuietElsewhere DEF Closed
<1> QED
  BY <1>1, <1>2, <1>3, NextIs

(* What is closed is closed for good, also when requests overlap, answers  *)
(* are lost and the process restarts.                                      *)
THEOREM ClosedStaysClosed == Spec => ClosedForGood
<1>1. Shapes /\ [Next]_vars => (\A p \in Proposal : Closed(p) => Closed(p)' /\ rows'[p] = rows[p])
  BY ClosedStays
<1>2. Shapes /\ [Next]_vars
        => [\A p \in Proposal : Closed(p) => Closed(p)' /\ rows'[p] = rows[p]]_vars
  BY <1>1
<1> QED
  BY <1>2, ShapesInit, ShapesNext, PTL DEF Spec, ClosedForGood

-----------------------------------------------------------------------------
(* An answer to a confirmation is ok only when its commit is done, and so  *)
(* is what a card says that has heard it.                                  *)
Truthful(r) == r.op = "confirm" /\ r.answer = "ok" => rows[r.on] > 0

CInv ==
  /\ Shapes
  /\ ~answersFirst => /\ \A q \in Thread : Truthful(req[q])
                      /\ \A p \in Proposal : card[p] = "confirmed" => rows[p] > 0

(* Rows are never taken back.                                              *)
LEMMA RowsGrow ==
  ASSUME Shapes, [Next]_vars, NEW p \in Proposal, rows[p] > 0
  PROVE  rows'[p] > 0
<1>1. rows' = rows \/ \E q \in Thread : rows' = [rows EXCEPT ![req[q].on] = @ + 1]
  BY DEF Next, Serve, Put, Persona, Get, Write, Remove, Commit, OnServer, Hear, Send, Decide,
         Expire, Restart, ClosePanel, Clear, Reload, vars
<1>2. rows \in [Proposal -> Nat]
  BY DEF Shapes, TypeOK
<1> QED
  BY <1>1, <1>2

(* A request whose operation and proposal are those of a truthful one, and *)
(* whose answer is the same or not ok, is truthful.                        *)
LEMMA TruthfulStays ==
  ASSUME Shapes, [Next]_vars, NEW q \in Thread, Truthful(req[q]),
         \/ req'[q].op # "confirm"
         \/ req'[q].answer # "ok"
         \/ req'[q].op = req[q].op /\ req'[q].on = req[q].on /\ req'[q].answer = req[q].answer
  PROVE  Truthful(req[q])'
<1>1. req[q].op = "confirm" => req[q].on \in Proposal
  BY DEF Shapes, TypeOK, Request
<1> QED
  BY <1>1, RowsGrow DEF Truthful

(* The server answers ok to a confirmation only when it has committed.     *)
LEMMA ServeAnswers ==
  ASSUME Shapes, NEW q \in Thread, Serve(q), ~answersFirst, req'[q].op = "confirm",
         req'[q].answer = "ok"
  PROVE  /\ req'[q].on = req[q].on /\ req[q].op = "confirm"
         /\ req[q].answer = "ok" \/ rows'[req[q].on] > 0
<1>1. req[q] \in Request /\ AtStage(req[q].op, req[q].pc) /\ rows \in [Proposal -> Nat]
      /\ req[q].on \in Proposal
  BY ServeBecomes DEF Shapes, TypeOK
<1>2. PICK r \in Request : Becomes(q, r) /\ r.op = req[q].op /\ r.on = req[q].on
                          /\ AtStage(r.op, r.pc) /\ r.op # "none" /\ r.on \in Proposal
  BY ServeBecomes
<1>3. req'[q] = Rest(r)
  BY <1>2, GoesOn
<1>4. req'[q].on = req[q].on /\ req[q].op = "confirm"
  BY <1>2, <1>3, IdleShape DEF Rest
<1>5. ASSUME NEW a, Answer(q, a) PROVE a = "ok"
  <2> DEFINE s == [req[q] EXCEPT !.pc = "done", !.answer = a]
  <2>1. req'[q] = Rest(s) /\ s.answer = a
    BY <1>1, <1>5 DEF Answer, Becomes, Shapes, TypeOK, Request
  <2> HIDE DEF s
  <2> QED
    BY <2>1, IdleShape DEF Rest
<1>6. ASSUME NEW pc, Goes(q, pc) PROVE req[q].answer = "ok"
  <2> DEFINE s == [req[q] EXCEPT !.pc = pc]
  <2>1. req'[q] = Rest(s) /\ s.answer = req[q].answer
    BY <1>1, <1>6 DEF Goes, Becomes, Shapes, TypeOK, Request
  <2> HIDE DEF s
  <2> QED
    BY <2>1, IdleShape DEF Rest
<1>7. CASE Get(q)
  <2>1. ~Answer(q, "error")
    BY <1>5
  <2>2. \E pc : Goes(q, pc)
    BY <1>7, <2>1 DEF Get
  <2> QED
    BY <1>4, <1>6, <2>2
<1>8. CASE Write(q)
  <2>1. ~Answer(q, "error")
    BY <1>5
  <2>2. \E pc : Goes(q, pc)
    BY <1>8, <2>1 DEF Write
  <2> QED
    BY <1>4, <1>6, <2>2
<1>9. CASE Remove(q)
  <2> DEFINE s == [req[q] EXCEPT !.pc = "commit", !.answer = Nil]
  <2>1. Becomes(q, s)
    BY <1>4, <1>9 DEF Remove
  <2>2. req'[q] = Rest(s) /\ s.answer = Nil
    BY <1>1, <2>1 DEF Becomes, Shapes, TypeOK, Request
  <2> HIDE DEF s
  <2> QED
    BY <2>2, IdleShape, NilOutside DEF Rest
<1>10. CASE Commit(q)
  <2>1. rows' = [rows EXCEPT ![req[q].on] = @ + 1] \/ Answer(q, "error")
    BY <1>10 DEF Commit
  <2>2. ~Answer(q, "error")
    BY <1>5
  <2> QED
    BY <1>1, <1>4, <2>1, <2>2
<1>11. ~Put(q) /\ ~Persona(q)
  BY <1>1, <1>4 DEF Put, Persona, AtStage
<1> QED
  BY <1>4, <1>7, <1>8, <1>9, <1>10, <1>11 DEF Serve

(* No answer is in flight at the start.                                    *)
LEMMA CInvInit == Init => CInv
BY ShapesInit, IdleShape DEF Init, CInv, Truthful

(* Every step keeps the answers in flight truthful.                        *)
LEMMA CInvNext == CInv /\ [Next]_vars => CInv'
<1> SUFFICES ASSUME CInv, [Next]_vars PROVE CInv'
  OBVIOUS
<1>1. Shapes /\ Shapes'
  BY ShapesNext DEF CInv
<1>2. answersFirst' = answersFirst
  BY DEF Next, Serve, Put, Persona, Get, Write, Remove, Commit, OnServer, Hear, Send, Decide,
         Expire, Restart, ClosePanel, Clear, Reload, vars
<1> SUFFICES ASSUME ~answersFirst
             PROVE  /\ \A q \in Thread : Truthful(req[q])'
                    /\ \A p \in Proposal : card'[p] = "confirmed" => rows'[p] > 0
  BY <1>1, <1>2 DEF CInv
<1>3. /\ \A q \in Thread : Truthful(req[q])
      /\ \A p \in Proposal : card[p] = "confirmed" => rows[p] > 0
  BY DEF CInv
<1>4. ASSUME NEW q \in Thread PROVE Truthful(req[q])'
  <2>1. ASSUME NEW o \in Thread, Serve(o) PROVE Truthful(req[q])'
    <3>1. CASE q # o
      <4>1. \E r : Becomes(o, r)
        BY <1>1, <2>1, ServeBecomes
      <4>2. req'[q] = req[q]
        BY <1>1, <3>1, <4>1 DEF Becomes, Shapes, TypeOK
      <4> QED
        BY <1>1, <1>3, <4>2, TruthfulStays
    <3>2. CASE q = o /\ req'[q].op = "confirm" /\ req'[q].answer = "ok"
      <4>1. /\ req'[q].on = req[q].on /\ req[q].op = "confirm"
            /\ req[q].answer = "ok" \/ rows'[req[q].on] > 0
        BY <1>1, <2>1, <3>2, ServeAnswers
      <4>2. CASE req[q].answer = "ok"
        BY <1>1, <1>3, <3>2, <4>1, <4>2, TruthfulStays
      <4>3. CASE rows'[req[q].on] > 0
        BY <4>1, <4>3 DEF Truthful
      <4> QED
        BY <4>1, <4>2, <4>3
    <3>3. CASE req'[q].op # "confirm" \/ req'[q].answer # "ok"
      BY <1>1, <1>3, <3>3, TruthfulStays
    <3> QED
      BY <3>1, <3>2, <3>3
  <2>2. ASSUME NEW o \in Thread, NEW p \in Proposal,
               Send(o, p) \/ \E op \in {"confirm", "reject"} : Decide(o, p, op)
        PROVE  Truthful(req[q])'
    <3>1. req'[q] = req[q] \/ req'[q].answer = Nil
      <4>1. CASE q # o
        BY <1>1, <2>2, <4>1, BeginsRequest
      <4>2. CASE q = o
        <5>1. PICK op, pc : req' = [req EXCEPT ![o] = [Idle EXCEPT !.op = op, !.on = p, !.pc = pc]]
          BY <2>2 DEF Send, Decide
        <5>2. req'[q] = [Idle EXCEPT !.op = op, !.on = p, !.pc = pc]
          BY <1>1, <4>2, <5>1 DEF Shapes, TypeOK
        <5> QED
          BY <5>2 DEF Idle
      <4> QED
        BY <4>1, <4>2
    <3> QED
      BY <1>1, <1>3, <3>1, TruthfulStays, NilOutside
  <2>3. ASSUME NEW o \in Thread, Hear(o) PROVE Truthful(req[q])'
    <3> DEFINE r == [req[o] EXCEPT !.heard = TRUE]
    <3>1. Becomes(o, r)
      BY <2>3 DEF Hear
    <3>2. req'[o] = Rest(r) /\ (q # o => req'[q] = req[q])
      BY <1>1, <3>1 DEF Becomes, Shapes, TypeOK
    <3>3. r.op = req[o].op /\ r.on = req[o].on /\ r.answer = req[o].answer
      BY <1>1 DEF Shapes, TypeOK, Request
    <3> HIDE DEF r
    <3> QED
      BY <1>1, <1>3, <3>2, <3>3, IdleShape, TruthfulStays DEF Rest
  <2>4. CASE Restart
    <3> DEFINE r == [req[q] EXCEPT !.pc = "done", !.answer = IF @ = Nil THEN "error" ELSE @]
    <3>1. r.op = req[q].op /\ r.on = req[q].on /\ r.answer \in {"error", req[q].answer}
      BY <1>1 DEF Shapes, TypeOK, Request
    <3>2. req'[q] \in {Idle, r, req[q]}
      BY <2>4 DEF Restart, Rest
    <3> HIDE DEF r
    <3> QED
      BY <1>1, <1>3, <3>1, <3>2, IdleShape, TruthfulStays
  <2>5. CASE Reload
    <3> DEFINE r == [req[q] EXCEPT !.heard = TRUE]
    <3>1. r.op = req[q].op /\ r.on = req[q].on /\ r.answer = req[q].answer
      BY <1>1 DEF Shapes, TypeOK, Request
    <3>2. req'[q] \in {Idle, r}
      BY <2>5 DEF Reload, Rest
    <3> HIDE DEF r
    <3> QED
      BY <1>1, <1>3, <3>1, <3>2, IdleShape, TruthfulStays
  <2>6. CASE req' = req
    BY <1>1, <1>3, <2>6, TruthfulStays
  <2> QED
    BY <2>1, <2>2, <2>3, <2>4, <2>5, <2>6, NextIs DEF Quiet, Expire, ClosePanel, Clear, vars
<1>5. ASSUME NEW p \in Proposal, card'[p] = "confirmed" PROVE rows'[p] > 0
  <2>1. CASE card[p] = "confirmed"
    BY <1>1, <1>3, <2>1, RowsGrow
  <2>2. CASE card[p] # "confirmed"
    <3>1. PICK q \in Thread : Hear(q)
      <4>1. ASSUME NEW o \in Thread, Serve(o) PROVE FALSE
        BY <1>5, <2>2, <4>1 DEF Serve, Put, Persona, Get, Write, Remove, Commit, OnServer
      <4>2. ASSUME NEW o \in Thread, NEW i \in Proposal,
                   Send(o, i) \/ \E op \in {"confirm", "reject"} : Decide(o, i, op)
            PROVE  FALSE
        BY <1>1, <1>5, <2>2, <4>2 DEF Send, Decide, Shapes, TypeOK
      <4>3. CASE Clear \/ Reload
        BY <1>5, <2>2, <4>3 DEF Clear, Reload
      <4> QED
        BY <1>5, <2>2, <4>1, <4>2, <4>3, NextIs
           DEF Quiet, Expire, Restart, ClosePanel, OnServer, vars
    <3>2. card' = [card EXCEPT ![req[q].on] = Shown(req[q], @)] /\ rows' = rows
          /\ req[q].answer # Nil
      BY <3>1 DEF Hear
    <3>3. p = req[q].on /\ Shown(req[q], card[p]) = "confirmed"
      BY <1>1, <1>5, <2>2, <3>2 DEF Shapes, TypeOK
    <3>4. req[q].op = "confirm" /\ req[q].answer = "ok"
      BY <2>2, <3>3 DEF Shown, Outcome
    <3> QED
      BY <1>3, <3>2, <3>3, <3>4 DEF Truthful
  <2> QED
    BY <2>1, <2>2
<1> QED
  BY <1>4, <1>5

(* A card never says that a transaction is saved which is not, if the      *)
(* session commits before the answer leaves.                               *)
THEOREM SavedMeansSaved == Spec => []ConfirmedIsRecorded
<1>1. CInv => ConfirmedIsRecorded
  BY DEF CInv, ConfirmedIsRecorded
<1> QED
  BY <1>1, CInvInit, CInvNext, PTL DEF Spec
=============================================================================
