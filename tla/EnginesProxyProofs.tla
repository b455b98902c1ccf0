-------------------------- MODULE EnginesProxyProofs --------------------------
(***************************************************************************)
(* Proofs about EnginesProxy, for any records, engines and calls.          *)
(*                                                                         *)
(* The actions are used once, to show what a step may do to a call         *)
(* (CallMoves), to a request (RequestMoves) and to an engine               *)
(* (EngineMoves).  The invariants follow from these three.                 *)
(***************************************************************************)
EXTENDS EnginesProxy, TLAPS

Is(c, e, req, st) == io[c][e].req = req /\ io[c][e].st = st

(* A call is where its kind of call can be, and has requests out only      *)
(* while its own task, or set, is going on.                                *)
CallShape(c, e) ==
  /\ call[c].pc \in {"setting", "rollback"} => call[c].op = "set"
  /\ call[c].pc \in {"queued", "running"} => call[c].op # "set" /\ call[c].owner
  /\ call[c].pc = "leaching" => call[c].op # "set" /\ ~call[c].owner
  /\ call[c].pc \in {"idle", "queued", "leaching"} => io[c][e] = NoRequest
  /\ call[c].op # "set" /\ ~call[c].owner => io[c][e] = NoRequest
  /\ io[c][e].req = "none" => io[c][e] = NoRequest

(* A set writes everywhere; what is not written when it rejects has failed *)
(* or is erased.                                                           *)
SetShape(c, e) ==
  call[c].op = "set" /\ call[c].pc # "idle" =>
    /\ io[c][e].req \in {"write", "erase"}
    /\ io[c][e].req = "write" => io[c][e].place = call[c].place
    /\ call[c].pc = "setting" => io[c][e].req = "write"
    /\ call[c].pc = "done" => Is(c, e, "write", "ok")
    /\ call[c].pc \in {"rollback", "failed"} =>
         io[c][e].req = "erase" \/ Is(c, e, "write", "failed")
    /\ call[c].pc = "failed" /\ ~BrokenRollback(c) => io[c][e].st # "sent"

(* A remove has asked every engine and awaits all of them. *)
RemoveShape(c, e) ==
  call[c].op = "remove" =>
    /\ io[c][e].req \in {"none", "erase"}
    /\ call[c].owner /\ call[c].pc \notin {"idle", "queued"} => io[c][e].req = "erase"
    /\ Over(c) => io[c][e].st # "sent"

(* A read that is over has no requests any more. *)
ReadShape(c, e) ==
  call[c].op = "read" =>
    /\ io[c][e].req \in {"none", "read"}
    /\ Over(c) => io[c][e] = NoRequest

Shape(c, e) == CallShape(c, e) /\ SetShape(c, e) /\ RemoveShape(c, e) /\ ReadShape(c, e)

(* What began later knows the calls that were over, and these stay over. *)
BeforeInv == \A c \in Calls :
  /\ call[c].pc = "idle" => before[c] = {}
  /\ \A x \in before[c] : Over(x) /\ x # c

ShapeInv == TypeOK /\ (\A c \in Calls, e \in Engines : Shape(c, e))

(* A value is in an engine only if its set has written it there and no     *)
(* rollback has erased it there yet.                                       *)
StoredInv == \A e \in Engines, p \in Places, c \in Calls :
  stored[e][p] = c =>
    /\ call[c].op = "set" /\ call[c].place = p /\ call[c].pc # "idle"
    /\ \/ Is(c, e, "write", "ok")
       \/ io[c][e].req = "erase" /\ (io[c][e].st # "ok" \/ io[c][e].place # p)

(* What a set with nobody in its way has written is there. *)
WrittenInv == \A c \in Calls, e \in Engines :
  /\ call[c].op = "set" /\ call[c].pc \in {"setting", "done"} /\ Is(c, e, "write", "ok")
  /\ \A x \in Erasers(call[c].place) \ {c} : Precedes(x, c)
  => stored[e][call[c].place] = c

(* Where a set has written, what was set before it began is gone. *)
OverwrittenInv == \A c \in Calls, e \in Engines :
  call[c].op = "set" /\ (Is(c, e, "write", "ok") \/ io[c][e].req = "erase")
    => stored[e][call[c].place] \notin before[c]

(* The value v was not overwritten in its place before the call c began. *)
FreshFor(c, v) == v \in Calls =>
  /\ call[v].pc # "idle"
  /\ \A w \in before[c] \cap Sets(call[v].place) : call[w].pc = "done" => v \notin before[w]

(* So it is with what a read has got from an engine, or returned. *)
FreshInv == \A c \in Calls :
  call[c].op = "read" /\ call[c].pc # "idle" =>
    /\ \A e \in Engines : Is(c, e, "read", "ok") => FreshFor(c, io[c][e].val)
    /\ call[c].owner => FreshFor(c, call[c].got)

(* Where a remove has erased, what was set before it began is gone. *)
ErasedInv == \A c, w \in Calls, e \in Engines :
  /\ call[c].op = "remove" /\ Is(c, e, "erase", "ok")
  /\ w \in before[c] \cap Sets(io[c][e].place)
  => stored[e][io[c][e].place] # w

Inv == /\ ShapeInv
       /\ BeforeInv
       /\ StoredInv
       /\ WrittenInv
       /\ OverwrittenInv
       /\ FreshInv
       /\ ErasedInv

-----------------------------------------------------------------------------
(* What the building blocks do *)

LEMMA SendEffect ==
  ASSUME TypeOK, NEW c \in Calls, NEW p \in Places, NEW to \in SUBSET Engines,
         NEW req \in {"write", "erase", "read"}, Send(c, req, p, to)
  PROVE  /\ stored' \in [Engines -> [Places -> Calls \cup {NoValue}]]
         /\ io' \in [Calls -> [Engines -> Request]]
         /\ \A d \in Calls \ {c} : io'[d] = io[d]
         /\ \A e \in Engines \ to : io'[c][e] = io[c][e]
         /\ \A e \in to : io'[c][e].req = req
         /\ \A e \in to : io'[c][e].place = p
         /\ \A e \in to : io'[c][e].st = (IF e = Memory THEN "ok" ELSE "sent")
         /\ \A e \in to : e = Memory /\ req = "read" => io'[c][e].val = stored[e][p]
         /\ \A e \in Engines, q \in Places :
              stored'[e][q] = IF e \in to /\ e = Memory /\ q = p
                              THEN Value(c, req, stored[e][q]) ELSE stored[e][q]
<1> DEFINE sent(e) ==
      IF e = Memory
      THEN [req |-> req, place |-> p, st |-> "ok",
            val |-> IF req = "read" THEN stored[e][p] ELSE NoValue]
      ELSE [req |-> req, place |-> p, st |-> "sent", val |-> NoValue]
           asked == [e \in Engines |-> IF e \notin to THEN io[c][e] ELSE sent(e)]
<1>1. io' = [io EXCEPT ![c] = asked]
  BY DEF Send
<1>2. ASSUME NEW e \in Engines PROVE sent(e) \in Request
  BY DEF TypeOK, Request
<1>3. asked \in [Engines -> Request]
  BY <1>2 DEF TypeOK
<1>4. io' \in [Calls -> [Engines -> Request]]
  BY <1>1, <1>3 DEF TypeOK
<1>5. io'[c] = asked /\ \A d \in Calls \ {c} : io'[d] = io[d]
  BY <1>1 DEF TypeOK
<1>6. \A e \in Engines : Value(c, req, stored[e][p]) \in Calls \cup {NoValue}
  BY DEF Value, TypeOK
<1>7. stored' \in [Engines -> [Places -> Calls \cup {NoValue}]]
  BY <1>6 DEF Send, TypeOK
<1>8. \A e \in Engines, q \in Places :
        stored'[e][q] = IF e \in to /\ e = Memory /\ q = p
                        THEN Value(c, req, stored[e][q]) ELSE stored[e][q]
  BY DEF Send, TypeOK
<1> QED  BY <1>4, <1>5, <1>7, <1>8

(* A call asks about the place of its record. *)
LEMMA PlaceType == ASSUME TypeOK, NEW c \in Calls PROVE at[call[c].rec] \in Places
BY DEF TypeOK, CallState

LEMMA NoRequestIs ==
  /\ NoRequest \in Request
  /\ NoRequest.req = "none" /\ NoRequest.st = "ok" /\ NoRequest.val = NoValue
BY SomeAssumption DEF NoRequest, Request

LEMMA ValueIs ==
  ASSUME NEW c, NEW old
  PROVE  /\ Value(c, "write", old) = c
         /\ Value(c, "erase", old) = NoValue
         /\ Value(c, "read", old) = old
BY DEF Value

LEMMA PcEffect ==
  ASSUME TypeOK, NEW c \in Calls, NEW p \in {"rollback", "running", "done", "failed"},
         call' = [call EXCEPT ![c].pc = p]
  PROVE  /\ call' \in [Calls -> CallState]
         /\ \A d \in Calls \ {c} : call'[d] = call[d]
         /\ call'[c].pc = p /\ call'[c].op = call[c].op /\ call'[c].place = call[c].place
         /\ call'[c].owner = call[c].owner /\ call'[c].got = call[c].got
<1> DEFINE new == [call[c] EXCEPT !.pc = p]
<1>1. call \in [Calls -> CallState] /\ call[c] \in CallState
  BY DEF TypeOK
<1>2. /\ new \in CallState
      /\ new.pc = p /\ new.op = call[c].op /\ new.place = call[c].place
      /\ new.owner = call[c].owner /\ new.got = call[c].got
  BY <1>1 DEF CallState
<1>3. call' = [call EXCEPT ![c] = new]
  OBVIOUS
<1> HIDE DEF new
<1> QED  BY <1>1, <1>2, <1>3

LEMMA AnswersEffect ==
  ASSUME TypeOK, NEW c \in Calls, NEW e \in Engines, EngineAnswers(c, e)
  PROVE  /\ stored' \in [Engines -> [Places -> Calls \cup {NoValue}]]
         /\ io' \in [Calls -> [Engines -> Request]]
         /\ io[c][e].st = "sent"
         /\ \A d \in Calls, f \in Engines : d # c \/ f # e => io'[d][f] = io[d][f]
         /\ io'[c][e].req = io[c][e].req /\ io'[c][e].place = io[c][e].place
         /\ \/ /\ io'[c][e].st = "ok"
               /\ io[c][e].req = "read" => io'[c][e].val = stored[e][io[c][e].place]
               /\ \A f \in Engines, q \in Places :
                    stored'[f][q] = IF f = e /\ q = io[c][e].place
                                    THEN Value(c, io[c][e].req, stored[f][q])
                                    ELSE stored[f][q]
            \/ io'[c][e].st = "failed" /\ stored' = stored
<1> DEFINE p == io[c][e].place
           req == io[c][e].req
           ok == [req |-> req, place |-> p, st |-> "ok",
                  val |-> IF req = "read" THEN stored[e][p] ELSE NoValue]
           failed == [req |-> req, place |-> p, st |-> "failed", val |-> NoValue]
<1>0. io[c][e].st = "sent"
  BY DEF EngineAnswers
<1>1. p \in Places /\ req \in {"none", "write", "erase", "read"}
  BY DEF TypeOK, Request
<1>2. CASE stored' = [stored EXCEPT ![e][p] = Value(c, req, @)]
           /\ io' = [io EXCEPT ![c][e] = ok]
  <2>1. ok \in Request
    BY <1>1 DEF TypeOK, Request
  <2>2. Value(c, req, stored[e][p]) \in Calls \cup {NoValue}
    BY <1>1 DEF Value, TypeOK
  <2>3. io' \in [Calls -> [Engines -> Request]] /\ io'[c][e] = ok
    BY <1>2, <2>1 DEF TypeOK
  <2>4. \A d \in Calls, f \in Engines : d # c \/ f # e => io'[d][f] = io[d][f]
    BY <1>2 DEF TypeOK
  <2>5. stored' \in [Engines -> [Places -> Calls \cup {NoValue}]]
    BY <1>1, <1>2, <2>2 DEF TypeOK
  <2>6. \A f \in Engines, q \in Places :
          stored'[f][q] = IF f = e /\ q = p THEN Value(c, req, stored[f][q]) ELSE stored[f][q]
    BY <1>1, <1>2 DEF TypeOK
  <2>7. /\ io'[c][e].req = req /\ io'[c][e].place = p /\ io'[c][e].st = "ok"
        /\ req = "read" => io'[c][e].val = stored[e][p]
    BY <2>3
  <2> QED  BY <1>0, <2>3, <2>4, <2>5, <2>6, <2>7
<1>3. CASE io' = [io EXCEPT ![c][e] = failed] /\ UNCHANGED stored
  <2>1. failed \in Request
    BY <1>1 DEF TypeOK, Request
  <2>2. io' \in [Calls -> [Engines -> Request]] /\ io'[c][e] = failed
    BY <1>3, <2>1 DEF TypeOK
  <2>3. \A d \in Calls, f \in Engines : d # c \/ f # e => io'[d][f] = io[d][f]
    BY <1>3 DEF TypeOK
  <2> QED  BY <1>3, <2>2, <2>3 DEF EngineAnswers, TypeOK
<1> QED  BY <1>2, <1>3 DEF EngineAnswers

LEMMA AnswerEffect ==
  ASSUME TypeOK, NEW c \in Calls, NEW outcome \in {"done", "failed"},
         NEW owner \in Calls \cup {NoValue}, NEW leacher \in Calls \cup {NoValue, NoResponse},
         Answer(c, outcome, owner, leacher)
  PROVE  /\ call' \in [Calls -> CallState]
         /\ io' \in [Calls -> [Engines -> Request]]
         /\ \A d \in Calls : /\ call'[d].op = call[d].op
                            /\ call'[d].place = call[d].place
                            /\ call'[d].owner = call[d].owner
         /\ \A d \in Calls \ {c} :
              call'[d] = call[d] \/ (call[d].pc = "leaching" /\ call'[d].pc = outcome)
         /\ call'[c].pc = outcome /\ call'[c].got = owner
         /\ \A d \in Calls \ {c} : io'[d] = io[d]
         /\ \A e \in Engines :
              io'[c][e] = IF io[c][e].req = "read" THEN NoRequest ELSE io[c][e]
<1> DEFINE joins(d) == /\ call[d].pc = "leaching"
                       /\ call[d].op = call[c].op
                       /\ Key(d) = KeyOf[at[call[c].rec]]
           left == [e \in Engines |-> IF io[c][e].req = "read" THEN NoRequest ELSE io[c][e]]
<1>2. call' = [d \in Calls |->
        IF d = c THEN Answered(d, outcome, owner)
        ELSE IF joins(d) THEN Answered(d, outcome, leacher) ELSE call[d]]
  BY DEF Answer
<1>3. ASSUME NEW d \in Calls, NEW v \in Calls \cup {NoValue, NoResponse}
      PROVE  Answered(d, outcome, v) \in CallState
  BY DEF Answered, TypeOK, CallState
<1>4. call' \in [Calls -> CallState]
  BY <1>2, <1>3 DEF TypeOK
<1>5. NoRequest \in Request
  BY NoRequestIs
<1>6. left \in [Engines -> Request] /\ io' = [io EXCEPT ![c] = left]
  BY <1>5 DEF TypeOK, Answer
<1>7. io' \in [Calls -> [Engines -> Request]] /\ io'[c] = left
  BY <1>6 DEF TypeOK
<1>8. \A d \in Calls \ {c} : io'[d] = io[d]
  BY <1>6 DEF TypeOK
<1> QED  BY <1>2, <1>4, <1>7, <1>8 DEF Answered, TypeOK

(* The four ways in which the task of c ends, all with Answer. *)
Answers(c) == RemoveSettles(c) \/ ReadFinds(c) \/ ReadMisses(c) \/ ReadFails(c)

LEMMA AnswersAre ==
  ASSUME TypeOK, NEW c \in Calls, Answers(c)
  PROVE  \E outcome \in {"done", "failed"}, owner \in Values(c) \cup {NoValue},
            leacher \in Calls \cup {NoValue, NoResponse} :
           /\ Answer(c, outcome, owner, leacher)
           /\ owner \in Calls \cup {NoValue}
<1>1. Values(c) \subseteq Calls
  BY DEF Values, Fulfilled, TypeOK, Request
<1>2. CASE RemoveSettles(c)
  BY <1>2 DEF RemoveSettles
<1>3. CASE ReadFinds(c)
  BY <1>1, <1>3 DEF ReadFinds
<1>4. CASE ReadMisses(c)
  BY <1>4 DEF ReadMisses
<1>5. CASE ReadFails(c)
  BY <1>5 DEF ReadFails
<1> QED  BY <1>2, <1>3, <1>4, <1>5 DEF Answers

-----------------------------------------------------------------------------
(* Types *)

LEMMA TypeStep == TypeOK /\ [Next]_vars => TypeOK'
<1> SUFFICES ASSUME TypeOK, [Next]_vars PROVE TypeOK'
  OBVIOUS
<1> DEFINE StoredType == [Engines -> [Places -> Calls \cup {NoValue}]]
           IoType == [Calls -> [Engines -> Request]]
<1>0. /\ stored \in StoredType /\ io \in IoType
      /\ call \in [Calls -> CallState] /\ before \in [Calls -> SUBSET Calls]
      /\ at \in [Records -> Places]
      /\ \A c \in Calls : at[call[c].rec] \in Places
  BY PlaceType DEF TypeOK
<1>1. ASSUME NEW c \in Calls, NEW e \in Engines, EngineAnswers(c, e) PROVE TypeOK'
  <2>1. stored' \in StoredType /\ io' \in IoType
    BY <1>1, AnswersEffect
  <2> QED  BY <1>0, <1>1, <2>1 DEF EngineAnswers, TypeOK
<1>2. ASSUME NEW c \in Calls, Begin(c)
      PROVE  before' \in [Calls -> SUBSET Calls] /\ UNCHANGED at
  BY <1>0, <1>2 DEF Begin
<1>3. ASSUME NEW c \in Calls, NEW r \in Records, Set(c, r) PROVE TypeOK'
  <2>1. stored' \in StoredType /\ io' \in IoType
    BY <1>0, <1>3, SendEffect DEF Set
  <2>2. call' \in [Calls -> CallState]
    BY <1>0, <1>3 DEF Set, SetCall, CallState
  <2> QED  BY <1>2, <1>3, <2>1, <2>2 DEF Set, TypeOK
<1>4. ASSUME NEW c \in Calls, NEW op \in {"remove", "read"}, NEW r \in Records,
             Enqueue(c, op, r)
      PROVE  TypeOK'
  <2>1. call' \in [Calls -> CallState]
    BY <1>0, <1>4 DEF Enqueue, CallState
  <2> QED  BY <1>0, <1>2, <1>4, <2>1 DEF Enqueue, TypeOK
<1>5. ASSUME NEW c \in Calls, SetSettles(c) PROVE TypeOK'
  <2>1. call' \in [Calls -> CallState]
    BY <1>5, PcEffect DEF SetSettles
  <2>2. stored' \in StoredType /\ io' \in IoType
    <3>1. at[call[c].rec] \in Places /\ Fulfilled(c, "write") \in SUBSET Engines
      BY <1>0 DEF Fulfilled
    <3> QED  BY <1>0, <1>5, <3>1, SendEffect DEF SetSettles
  <2> QED  BY <1>0, <1>5, <2>1, <2>2 DEF SetSettles, TypeOK
<1>6. ASSUME NEW c \in Calls, RollbackSettles(c) PROVE TypeOK'
  <2>1. call' \in [Calls -> CallState]
    BY <1>6, PcEffect DEF RollbackSettles
  <2> QED  BY <1>0, <1>6, <2>1 DEF RollbackSettles, TypeOK
<1>7. ASSUME NEW c \in Calls, RunTask(c) PROVE TypeOK'
  <2>1. call' \in [Calls -> CallState]
    BY <1>7, PcEffect DEF RunTask
  <2>2. at[call[c].rec] \in Places /\ Engines \cap {Memory} \in SUBSET Engines
    BY <1>0
  <2>3. CASE call[c].op = "remove"
    <3>1. Send(c, "erase", at[call[c].rec], Engines)
      BY <1>7, <2>3 DEF RunTask
    <3>2. stored' \in StoredType /\ io' \in IoType
      BY <2>2, <3>1, SendEffect
    <3> QED  BY <1>0, <1>7, <2>1, <3>2 DEF RunTask, TypeOK
  <2>4. CASE call[c].op # "remove"
    <3>1. Send(c, "read", at[call[c].rec], Engines \cap {Memory})
      BY <1>7, <2>4 DEF RunTask
    <3>2. stored' \in StoredType /\ io' \in IoType
      BY <2>2, <3>1, SendEffect
    <3> QED  BY <1>0, <1>7, <2>1, <3>2 DEF RunTask, TypeOK
  <2> QED  BY <2>3, <2>4
<1>8. ASSUME NEW c \in Calls, ReadOthers(c) PROVE TypeOK'
  <2>1. at[call[c].rec] \in Places /\ Engines \ {Memory} \in SUBSET Engines
    BY <1>0
  <2>2. stored' \in StoredType /\ io' \in IoType
    BY <1>8, <2>1, SendEffect DEF ReadOthers
  <2> QED  BY <1>0, <1>8, <2>2 DEF ReadOthers, TypeOK
<1>9. ASSUME NEW c \in Calls, Answers(c) PROVE TypeOK'
  <2>1. PICK outcome \in {"done", "failed"}, owner \in Calls \cup {NoValue},
             leacher \in Calls \cup {NoValue, NoResponse} :
          Answer(c, outcome, owner, leacher)
    BY <1>9, AnswersAre
  <2>2. call' \in [Calls -> CallState] /\ io' \in IoType
    BY <2>1, AnswerEffect
  <2> QED  BY <1>0, <2>1, <2>2 DEF Answer, TypeOK
<1>10. CASE UNCHANGED vars
  BY <1>0, <1>10 DEF vars, TypeOK
<1>11. ASSUME NEW r \in Files, NEW p \in Places, Rename(r, p) PROVE TypeOK'
  BY <1>0, <1>11 DEF Rename, TypeOK
<1> QED  BY <1>1, <1>3, <1>4, <1>5, <1>6, <1>7, <1>8, <1>9, <1>10, <1>11
         DEF Next, Client, Progress, Settle, Answers

-----------------------------------------------------------------------------
(* What a step may do *)

(* A call keeps what it is about, one that is over changes no more, and    *)
(* what a read returns comes from an engine.                               *)
CallMoves(d) ==
  /\ call[d].pc = "idle" =>
       \/ call'[d] = call[d] /\ before'[d] = before[d]
       \/ /\ call'[d].pc \in {"setting", "queued", "leaching"}
          /\ before'[d] = {x \in Calls : Over(x)}
          /\ call'[d].got = NoValue
  /\ call[d].pc # "idle" =>
       /\ call'[d].pc # "idle"
       /\ call'[d].op = call[d].op /\ call'[d].place = call[d].place
       /\ call'[d].owner = call[d].owner /\ before'[d] = before[d]
       /\ call[d].pc = "rollback" => call'[d].pc \in {"rollback", "failed"}
       /\ \/ ~call[d].owner \/ call'[d].got \in {call[d].got, NoValue}
          \/ \E e \in Engines : Is(d, e, "read", "ok") /\ call'[d].got = io[d][e].val
  /\ Over(d) => call'[d] = call[d]

(* A request is fulfilled in the step that has its effect on the engine.   *)
RequestMoves(d, e) ==
  LET p == io'[d][e].place
      now(req, st) == io'[d][e].req = req /\ io'[d][e].st = st
  IN /\ now("write", "ok") => Is(d, e, "write", "ok") \/ stored'[e][p] = d
     /\ now("erase", "ok") => Is(d, e, "erase", "ok") \/ stored'[e][p] = NoValue
     /\ now("read", "ok") => \/ Is(d, e, "read", "ok") /\ io'[d][e].val = io[d][e].val
                             \/ p \in Places /\ io'[d][e].val = stored[e][p]
     /\ Is(d, e, "write", "ok") => now("write", "ok") \/ io'[d][e].req = "erase"
     /\ io[d][e].req = "erase" => /\ io'[d][e].req = "erase"
                                  /\ io'[d][e].place = io[d][e].place
                                  /\ io[d][e].st # "sent" => io'[d][e].st = io[d][e].st
     /\ call'[d].op = "set" /\ io'[d][e].req = "erase" =>
          io[d][e].req = "erase" \/ Is(d, e, "write", "ok")

(* An engine changes what it keeps only for a call that is not over, or    *)
(* for a rollback that has failed.                                         *)
EngineMoves(e, p) ==
  \/ stored'[e][p] = stored[e][p]
  \/ \E x \in Calls :
       \/ /\ stored'[e][p] = x /\ call'[x].op = "set" /\ ~Over(x)
          /\ call'[x].place = p /\ call'[x].pc # "idle"
          /\ io'[x][e].req = "write" /\ io'[x][e].st = "ok"
       \/ /\ stored'[e][p] = NoValue /\ (Over(x) => BrokenRollback(x))
          /\ io'[x][e].req = "erase" /\ io'[x][e].st = "ok" /\ io'[x][e].place = p

StepMoves ==
  /\ \A d \in Calls : CallMoves(d)
  /\ \A d \in Calls, e \in Engines : RequestMoves(d, e)
  /\ \A e \in Engines, p \in Places : EngineMoves(e, p)
  /\ \A d \in Calls, e \in Engines : Shape(d, e)'

(* A step that leaves a call alone moves it in no way. *)
LEMMA StaysPut ==
  ASSUME ShapeInv, NEW d \in Calls, call'[d] = call[d], before'[d] = before[d],
         io'[d] = io[d]
  PROVE  /\ CallMoves(d)
         /\ \A e \in Engines : RequestMoves(d, e) /\ Shape(d, e)'
<1>1. CallMoves(d)
  BY DEF CallMoves
<1>2. ASSUME NEW e \in Engines PROVE RequestMoves(d, e)
  BY DEF RequestMoves, Is
<1>3. BrokenRollback(d)' = BrokenRollback(d)
  BY DEF BrokenRollback, Rejected
<1>4. ASSUME NEW e \in Engines PROVE Shape(d, e)'
  BY <1>3, NoRequestIs DEF ShapeInv, Shape, CallShape, SetShape, RemoveShape, ReadShape, Is, Over
<1> QED  BY <1>1, <1>2, <1>4

LEMMA OneCallMoves ==
  ASSUME ShapeInv, NEW c \in Calls,
         \A d \in Calls \ {c} :
           call'[d] = call[d] /\ before'[d] = before[d] /\ io'[d] = io[d],
         CallMoves(c),
         \A e \in Engines : RequestMoves(c, e) /\ Shape(c, e)',
         \A e \in Engines, p \in Places : EngineMoves(e, p)
  PROVE  StepMoves
BY StaysPut DEF StepMoves

LEMMA EngineAnswersMoves ==
  ASSUME ShapeInv, NEW c \in Calls, NEW e \in Engines, EngineAnswers(c, e)
  PROVE  StepMoves
<1> USE ValueAssumption
<1>1. TypeOK /\ UNCHANGED <<call, before>> /\ io[c][e].st = "sent"
  BY DEF ShapeInv, EngineAnswers
<1>2. /\ \A d \in Calls, f \in Engines : d # c \/ f # e => io'[d][f] = io[d][f]
      /\ io'[c][e].req = io[c][e].req /\ io'[c][e].place = io[c][e].place
      /\ io'[c][e].st \in {"ok", "failed"}
  BY <1>1, AnswersEffect
<1>3. \A d \in Calls \ {c} : io'[d] = io[d]
  BY <1>1, <1>2, AnswersEffect DEF TypeOK
<1>4. /\ io[c][e].place \in Places /\ call[c].op \in {"set", "remove", "read"}
      /\ io[c][e].req \in {"none", "write", "erase", "read"}
      /\ call[c].pc \in {"idle", "setting", "rollback", "queued", "running", "leaching",
                         "done", "failed"}
  BY <1>1 DEF TypeOK, CallState, Request
<1>5. Shape(c, e)
  BY DEF ShapeInv
<1>6. io[c][e].req # "none"
  BY <1>1, <1>5, NoRequestIs DEF Shape, CallShape
<1>7. CallMoves(c)
  BY <1>1 DEF CallMoves
<1>8. ASSUME NEW f \in Engines PROVE RequestMoves(c, f)
  <2>1. CASE f # e
    BY <1>1, <1>2, <2>1 DEF RequestMoves, Is
  <2>2. CASE f = e
    BY <1>1, <1>2, <1>4, <2>2, AnswersEffect DEF RequestMoves, Is, Value
  <2> QED  BY <2>1, <2>2
<1>9. BrokenRollback(c) => BrokenRollback(c)'
  BY <1>1, <1>2 DEF BrokenRollback, Rejected
<1>10. ASSUME NEW f \in Engines PROVE Shape(c, f)'
  <2>1. CASE f # e
    <3>1. io'[c][f] = io[c][f] /\ Shape(c, f)
      BY <1>2, <2>1 DEF ShapeInv
    <3> QED  BY <1>1, <1>9, <3>1, NoRequestIs
             DEF Shape, CallShape, SetShape, RemoveShape, ReadShape, Is, Over
  <2>2. CASE f = e
    BY <1>1, <1>2, <1>5, <1>6, <1>9, <2>2, NoRequestIs
    DEF Shape, CallShape, SetShape, RemoveShape, ReadShape, Is, Over
  <2> QED  BY <2>1, <2>2
<1>11. ASSUME NEW f \in Engines, NEW q \in Places PROVE EngineMoves(f, q)
  <2>1. \/ stored'[f][q] = stored[f][q]
        \/ /\ f = e /\ q = io[c][e].place /\ io'[c][e].st = "ok"
           /\ stored'[f][q] = Value(c, io[c][e].req, stored[f][q])
    BY <1>1, AnswersEffect
  <2>2. CASE io[c][e].req = "write"
    BY <1>1, <1>2, <1>4, <1>5, <2>1, <2>2, NoRequestIs
    DEF EngineMoves, Value, Shape, CallShape, SetShape, RemoveShape, ReadShape, Is, Over
  <2>3. CASE io[c][e].req = "erase"
    BY <1>1, <1>2, <1>4, <1>5, <2>1, <2>3, NoRequestIs
    DEF EngineMoves, Value, Shape, CallShape, SetShape, RemoveShape, ReadShape, Is, Over
  <2>4. CASE io[c][e].req = "read"
    BY <2>1, <2>4 DEF EngineMoves, Value
  <2> QED  BY <1>4, <1>6, <2>2, <2>3, <2>4
<1> QED  BY <1>1, <1>3, <1>7, <1>8, <1>10, <1>11, OneCallMoves

LEMMA SetMoves ==
  ASSUME ShapeInv, NEW c \in Calls, NEW r \in Records, Set(c, r)
  PROVE  StepMoves
<1>1. TypeOK /\ call[c].pc = "idle" /\ Send(c, "write", at[r], Engines)
      /\ at[r] \in Places
  BY DEF ShapeInv, Set, Begin, TypeOK
<1>2. /\ call'[c] = SetCall(r) /\ before'[c] = {x \in Calls : Over(x)}
      /\ \A d \in Calls \ {c} : call'[d] = call[d] /\ before'[d] = before[d]
  BY <1>1 DEF Set, Begin, TypeOK
<1>3. /\ \A d \in Calls \ {c} : io'[d] = io[d]
      /\ \A e \in Engines : io'[c][e].req = "write"
      /\ \A e \in Engines :
           io'[c][e].st = (IF e = Memory THEN "ok" ELSE "sent")
      /\ \A e \in Engines : io'[c][e].place = at[r]
      /\ \A e \in Engines, q \in Places :
           stored'[e][q] = IF e = Memory /\ q = at[r] THEN c ELSE stored[e][q]
  <2>1. \A v : Value(c, "write", v) = c
    BY ValueIs
  <2>2. \A e \in Engines, q \in Places :
          stored'[e][q] = IF e \in Engines /\ e = Memory /\ q = at[r]
                          THEN Value(c, "write", stored[e][q]) ELSE stored[e][q]
    BY <1>1, SendEffect
  <2>3. \A d \in Calls \ {c} : io'[d] = io[d]
    BY <1>1, SendEffect
  <2>4. /\ \A e \in Engines : io'[c][e].req = "write"
        /\ \A e \in Engines : io'[c][e].place = at[r]
    BY <1>1, SendEffect
  <2>5. \A e \in Engines : io'[c][e].st = (IF e = Memory THEN "ok" ELSE "sent")
    BY <1>1, SendEffect
  <2> QED  BY <2>1, <2>2, <2>3, <2>4, <2>5
<1>4. \A e \in Engines : io[c][e] = NoRequest
  BY <1>1 DEF ShapeInv, Shape, CallShape
<1>5. CallMoves(c)
  BY <1>1, <1>2 DEF CallMoves, SetCall, Over
<1>6. ASSUME NEW e \in Engines PROVE RequestMoves(c, e)
  BY <1>1, <1>2, <1>3, <1>4, NoRequestIs DEF RequestMoves, Is, SetCall
<1>7. ASSUME NEW e \in Engines PROVE Shape(c, e)'
  BY <1>2, <1>3, NoRequestIs
  DEF Shape, CallShape, SetShape, RemoveShape, ReadShape, Is, Over, SetCall
<1>8. ASSUME NEW e \in Engines, NEW q \in Places PROVE EngineMoves(e, q)
  BY <1>1, <1>2, <1>3 DEF EngineMoves, SetCall, Over
<1> QED  BY <1>2, <1>3, <1>5, <1>6, <1>7, <1>8, OneCallMoves

LEMMA EnqueueMoves ==
  ASSUME ShapeInv, NEW c \in Calls, NEW op \in {"remove", "read"}, NEW r \in Records,
         Enqueue(c, op, r)
  PROVE  StepMoves
<1>1. TypeOK /\ call[c].pc = "idle" /\ UNCHANGED <<stored, io>>
  BY DEF ShapeInv, Enqueue, Begin
<1>2. /\ call'[c].pc = (IF call'[c].owner THEN "queued" ELSE "leaching")
      /\ call'[c].op = op /\ call'[c].got = NoValue
      /\ before'[c] = {x \in Calls : Over(x)}
      /\ \A d \in Calls \ {c} : call'[d] = call[d] /\ before'[d] = before[d]
  BY <1>1 DEF Enqueue, Begin, TypeOK
<1>3. \A e \in Engines : io[c][e] = NoRequest
  BY <1>1 DEF ShapeInv, Shape, CallShape
<1>4. CallMoves(c)
  BY <1>1, <1>2 DEF CallMoves, Over
<1>5. ASSUME NEW e \in Engines PROVE RequestMoves(c, e)
  BY <1>1, <1>3, NoRequestIs DEF RequestMoves, Is
<1>6. ASSUME NEW e \in Engines PROVE Shape(c, e)'
  BY <1>1, <1>2, <1>3, NoRequestIs
  DEF Shape, CallShape, SetShape, RemoveShape, ReadShape, Is, Over
<1>7. ASSUME NEW e \in Engines, NEW q \in Places PROVE EngineMoves(e, q)
  BY <1>1 DEF EngineMoves
<1> QED  BY <1>1, <1>2, <1>4, <1>5, <1>6, <1>7, OneCallMoves

LEMMA RollbackSettlesMoves ==
  ASSUME ShapeInv, NEW c \in Calls, RollbackSettles(c)
  PROVE  StepMoves
<1>1. TypeOK /\ call[c].pc = "rollback" /\ UNCHANGED <<stored, io, before>>
  BY DEF ShapeInv, RollbackSettles
<1>2. /\ \A d \in Calls \ {c} : call'[d] = call[d]
      /\ call'[c].pc = "failed" /\ call'[c].op = call[c].op /\ call'[c].place = call[c].place
      /\ call'[c].owner = call[c].owner /\ call'[c].got = call[c].got
  BY <1>1, PcEffect DEF RollbackSettles
<1>3. CallMoves(c)
  BY <1>1, <1>2 DEF CallMoves, Over
<1>4. ASSUME NEW e \in Engines PROVE RequestMoves(c, e)
  BY <1>1 DEF RequestMoves, Is
<1>5. ASSUME NEW e \in Engines PROVE Shape(c, e)'
  <2>1. Shape(c, e)
    BY DEF ShapeInv
  <2>2. call[c].op = "set"
    BY <1>1, <2>1 DEF Shape, CallShape
  <2>3. ~BrokenRollback(c)' => io[c][e].st # "sent"
    <3>1. Is(c, e, "write", "failed") \/ io[c][e].req = "erase"
      BY <1>1, <2>1, <2>2 DEF Shape, SetShape
    <3> QED  BY <1>1, <1>2, <2>2, <3>1 DEF RollbackSettles, Awaits, BrokenRollback, Rejected, Is
  <2> QED  BY <1>1, <1>2, <2>1, <2>2, <2>3, NoRequestIs
           DEF Shape, CallShape, SetShape, RemoveShape, ReadShape, Is, Over
<1>6. ASSUME NEW e \in Engines, NEW q \in Places PROVE EngineMoves(e, q)
  BY <1>1 DEF EngineMoves
<1> QED  BY <1>1, <1>2, <1>3, <1>4, <1>5, <1>6, OneCallMoves

LEMMA SetSettlesMoves ==
  ASSUME ShapeInv, NEW c \in Calls, SetSettles(c)
  PROVE  StepMoves
<1>1. /\ TypeOK /\ call[c].pc = "setting" /\ UNCHANGED before
      /\ \A e \in Engines : Shape(c, e)
  BY DEF ShapeInv, SetSettles
<1>2. call[c].op = "set" /\ at[call[c].rec] \in Places
  BY <1>1, SomeAssumption, PlaceType DEF Shape, CallShape
<1>3. \A e \in Engines : io[c][e].req = "write" /\ io[c][e].st \in {"ok", "failed"}
  <2>1. \A e \in Engines : io[c][e].req = "write" /\ io[c][e].st \in {"sent", "ok", "failed"}
    BY <1>1, <1>2 DEF Shape, SetShape, TypeOK, Request
  <2> QED  BY <2>1 DEF SetSettles, Awaits
<1>4. CASE /\ Rejected(c, "write") = {}
           /\ call' = [call EXCEPT ![c].pc = "done"]
           /\ UNCHANGED <<stored, io>>
  <2>1. /\ \A d \in Calls \ {c} : call'[d] = call[d]
        /\ call'[c].pc = "done" /\ call'[c].op = call[c].op /\ call'[c].place = call[c].place
        /\ call'[c].owner = call[c].owner /\ call'[c].got = call[c].got
    BY <1>1, <1>4, PcEffect
  <2>2. \A e \in Engines : Is(c, e, "write", "ok")
    BY <1>3, <1>4 DEF Rejected, Is
  <2>3. CallMoves(c)
    BY <1>1, <2>1 DEF CallMoves, Over
  <2>4. ASSUME NEW e \in Engines PROVE RequestMoves(c, e) /\ Shape(c, e)'
    <3>1. /\ io'[c][e] = io[c][e] /\ io[c][e].req = "write" /\ io[c][e].st = "ok"
          /\ io[c][e].place = call[c].place
      BY <1>1, <1>2, <1>4, <2>2 DEF Is, Shape, SetShape
    <3>2. RequestMoves(c, e)
      BY <1>4, <3>1 DEF RequestMoves, Is
    <3>3. Shape(c, e)'
      BY <1>2, <2>1, <3>1
      DEF Shape, CallShape, SetShape, RemoveShape, ReadShape, Is, Over
    <3> QED  BY <3>2, <3>3
  <2>5. ASSUME NEW e \in Engines, NEW q \in Places PROVE EngineMoves(e, q)
    BY <1>4 DEF EngineMoves
  <2> QED  BY <1>1, <1>4, <2>1, <2>3, <2>4, <2>5, OneCallMoves
<1>5. CASE /\ Rejected(c, "write") # {}
           /\ call' = [call EXCEPT ![c].pc = "rollback"]
           /\ Send(c, "erase", at[call[c].rec], Fulfilled(c, "write"))
  <2> DEFINE written == Fulfilled(c, "write")
  <2>1. /\ \A d \in Calls \ {c} : call'[d] = call[d]
        /\ call'[c].pc = "rollback" /\ call'[c].op = call[c].op
        /\ call'[c].place = call[c].place
        /\ call'[c].owner = call[c].owner /\ call'[c].got = call[c].got
    BY <1>1, <1>5, PcEffect
  <2>2. /\ written \in SUBSET Engines
        /\ \A e \in Engines : e \in written => Is(c, e, "write", "ok")
        /\ \A e \in Engines \ written : Is(c, e, "write", "failed")
    BY <1>3 DEF Fulfilled, Is
  <2>3. /\ \A d \in Calls \ {c} : io'[d] = io[d]
        /\ \A e \in Engines \ written : io'[c][e] = io[c][e]
        /\ \A e \in written : io'[c][e].req = "erase" /\ io'[c][e].place = at[call[c].rec]
        /\ \A e \in written : io'[c][e].st = (IF e = Memory THEN "ok" ELSE "sent")
    BY <1>1, <1>2, <1>5, <2>2, SendEffect
  <2>4. \A e \in Engines, q \in Places :
          stored'[e][q] = IF e \in written /\ e = Memory /\ q = at[call[c].rec]
                          THEN NoValue ELSE stored[e][q]
    <3>1. \A v : Value(c, "erase", v) = NoValue
      BY ValueIs
    <3>2. \A e \in Engines, q \in Places :
            stored'[e][q] = IF e \in written /\ e = Memory /\ q = at[call[c].rec]
                            THEN Value(c, "erase", stored[e][q]) ELSE stored[e][q]
      BY <1>1, <1>2, <1>5, <2>2, SendEffect
    <3> QED  BY <3>1, <3>2
  <2> HIDE DEF written
  <2>5. CallMoves(c)
    BY <1>1, <2>1 DEF CallMoves, Over
  <2>6. ASSUME NEW e \in Engines PROVE RequestMoves(c, e) /\ Shape(c, e)'
    <3>1. CASE e \in written
      BY <1>2, <2>1, <2>2, <2>3, <2>4, <3>1, NoRequestIs
      DEF RequestMoves, Shape, CallShape, SetShape, RemoveShape, ReadShape, Is, Over
    <3>2. CASE e \notin written
      <4>1. /\ io'[c][e] = io[c][e] /\ io[c][e].req = "write" /\ io[c][e].st = "failed"
            /\ io[c][e].place = call[c].place
        BY <1>1, <1>2, <2>2, <2>3, <3>2 DEF Is, Shape, SetShape
      <4>2. RequestMoves(c, e)
        BY <4>1 DEF RequestMoves, Is
      <4>3. Shape(c, e)'
        BY <1>2, <2>1, <4>1
        DEF Shape, CallShape, SetShape, RemoveShape, ReadShape, Is, Over
      <4> QED  BY <4>2, <4>3
    <3> QED  BY <3>1, <3>2
  <2>7. ASSUME NEW e \in Engines, NEW q \in Places PROVE EngineMoves(e, q)
    BY <1>1, <1>2, <2>1, <2>3, <2>4 DEF EngineMoves, Over
  <2> QED  BY <1>1, <2>1, <2>3, <2>5, <2>6, <2>7, OneCallMoves
<1> QED  BY <1>4, <1>5 DEF SetSettles

(* What a read asks of some engines. *)
LEMMA ReadSent ==
  ASSUME ShapeInv, NEW c \in Calls, NEW to \in SUBSET Engines, call[c].op = "read",
         Send(c, "read", at[call[c].rec], to), call'[c].op = call[c].op,
         \A e \in to : io[c][e] = NoRequest
  PROVE  /\ \A d \in Calls \ {c} : io'[d] = io[d]
         /\ \A e \in Engines, p \in Places : EngineMoves(e, p)
         /\ \A e \in Engines : RequestMoves(c, e)
         /\ \A e \in Engines : io'[c][e] = io[c][e] \/ io'[c][e].req = "read"
<1>1. TypeOK /\ at[call[c].rec] \in Places
  BY PlaceType DEF ShapeInv
<1>2. \A d \in Calls \ {c} : io'[d] = io[d]
  BY <1>1, SendEffect
<1>3. \A e \in Engines \ to : io'[c][e] = io[c][e]
  BY <1>1, SendEffect
<1>4. \A e \in to : io'[c][e].req = "read" /\ io'[c][e].place = at[call[c].rec]
  BY <1>1, SendEffect
<1>5. \A e \in to : io'[c][e].st = (IF e = Memory THEN "ok" ELSE "sent")
  BY <1>1, SendEffect
<1>6. \A e \in to : e = Memory => io'[c][e].val = stored[e][at[call[c].rec]]
  BY <1>1, SendEffect
<1>7. \A e \in Engines, p \in Places : stored'[e][p] = stored[e][p]
  BY <1>1, ValueIs, SendEffect
<1>8. ASSUME NEW e \in Engines PROVE RequestMoves(c, e)
  <2>1. CASE e \in to
    BY <1>1, <1>4, <1>5, <1>6, <2>1, NoRequestIs DEF RequestMoves, Is
  <2>2. CASE e \notin to
    BY <1>3, <2>2 DEF RequestMoves, Is
  <2> QED  BY <2>1, <2>2
<1> QED  BY <1>2, <1>3, <1>4, <1>7, <1>8 DEF EngineMoves

LEMMA RunTaskMoves ==
  ASSUME ShapeInv, NEW c \in Calls, RunTask(c)
  PROVE  StepMoves
<1>1. /\ TypeOK /\ call[c].pc = "queued" /\ UNCHANGED before
      /\ \A e \in Engines : Shape(c, e)
  BY DEF ShapeInv, RunTask
<1>2. /\ \A e \in Engines : io[c][e] = NoRequest
      /\ call[c].owner /\ call[c].op # "set" /\ at[call[c].rec] \in Places
      /\ call[c].op \in {"set", "remove", "read"}
  BY <1>1, SomeAssumption, PlaceType DEF Shape, CallShape, TypeOK, CallState
<1>3. /\ \A d \in Calls \ {c} : call'[d] = call[d]
      /\ call'[c].pc = "running" /\ call'[c].op = call[c].op /\ call'[c].place = call[c].place
      /\ call'[c].owner = call[c].owner /\ call'[c].got = call[c].got
  BY <1>1, PcEffect DEF RunTask
<1>4. CallMoves(c)
  BY <1>1, <1>3 DEF CallMoves, Over
<1>5. CASE call[c].op = "remove"
  <2>1. Send(c, "erase", at[call[c].rec], Engines)
    BY <1>5 DEF RunTask
  <2>2. \A d \in Calls \ {c} : io'[d] = io[d]
    BY <1>1, <1>2, <2>1, SendEffect
  <2>3. \A e \in Engines : io'[c][e].req = "erase" /\ io'[c][e].place = at[call[c].rec]
    BY <1>1, <1>2, <2>1, SendEffect
  <2>4. \A e \in Engines : io'[c][e].st = (IF e = Memory THEN "ok" ELSE "sent")
    BY <1>1, <1>2, <2>1, SendEffect
  <2>5. \A e \in Engines, q \in Places :
          stored'[e][q] = IF e = Memory /\ q = at[call[c].rec] THEN NoValue ELSE stored[e][q]
    <3>1. \A e \in Engines, q \in Places :
            stored'[e][q] = IF e \in Engines /\ e = Memory /\ q = at[call[c].rec]
                            THEN Value(c, "erase", stored[e][q]) ELSE stored[e][q]
      BY <1>1, <1>2, <2>1, SendEffect
    <3> QED  BY <3>1, ValueIs
  <2>6. ASSUME NEW e \in Engines PROVE RequestMoves(c, e)
    BY <1>2, <1>3, <1>5, <2>3, <2>4, <2>5, NoRequestIs DEF RequestMoves, Is
  <2>7. ASSUME NEW e \in Engines PROVE Shape(c, e)'
    BY <1>2, <1>3, <1>5, <2>3, <2>4, NoRequestIs
    DEF Shape, CallShape, SetShape, RemoveShape, ReadShape, Is, Over
  <2>8. ASSUME NEW e \in Engines, NEW q \in Places PROVE EngineMoves(e, q)
    BY <1>1, <1>2, <1>3, <1>5, <2>3, <2>4, <2>5 DEF EngineMoves, Over
  <2> QED  BY <1>1, <1>3, <1>4, <2>2, <2>6, <2>7, <2>8, OneCallMoves
<1>6. CASE call[c].op = "read"
  <2>1. Send(c, "read", at[call[c].rec], Engines \cap {Memory})
    BY <1>6 DEF RunTask
  <2>2. /\ \A d \in Calls \ {c} : io'[d] = io[d]
        /\ \A e \in Engines, p \in Places : EngineMoves(e, p)
        /\ \A e \in Engines : RequestMoves(c, e)
        /\ \A e \in Engines : io'[c][e] = io[c][e] \/ io'[c][e].req = "read"
    BY <1>2, <1>3, <1>6, <2>1, ReadSent
  <2>3. ASSUME NEW e \in Engines PROVE Shape(c, e)'
    BY <1>2, <1>3, <1>6, <2>2, NoRequestIs
    DEF Shape, CallShape, SetShape, RemoveShape, ReadShape, Is, Over
  <2> QED  BY <1>1, <1>3, <1>4, <2>2, <2>3, OneCallMoves
<1> QED  BY <1>2, <1>5, <1>6

LEMMA ReadOthersMoves ==
  ASSUME ShapeInv, NEW c \in Calls, ReadOthers(c)
  PROVE  StepMoves
<1>1. /\ call[c].pc = "running" /\ call[c].op = "read"
      /\ Send(c, "read", at[call[c].rec], Engines \ {Memory})
      /\ UNCHANGED <<call, before>>
      /\ \A e \in Engines : Shape(c, e)
  BY DEF ShapeInv, ReadOthers
<1>2. \A e \in Engines \ {Memory} : io[c][e] = NoRequest
  BY <1>1 DEF ReadOthers, Shape, CallShape
<1>3. /\ \A d \in Calls \ {c} : io'[d] = io[d]
      /\ \A e \in Engines, p \in Places : EngineMoves(e, p)
      /\ \A e \in Engines : RequestMoves(c, e)
      /\ \A e \in Engines : io'[c][e] = io[c][e] \/ io'[c][e].req = "read"
  BY <1>1, <1>2, ReadSent
<1>4. CallMoves(c)
  BY <1>1 DEF CallMoves
<1>5. ASSUME NEW e \in Engines PROVE Shape(c, e)'
  <2>1. call[c].owner
    BY <1>1, SomeAssumption DEF Shape, CallShape
  <2> QED  BY <1>1, <1>3, <2>1, NoRequestIs
           DEF Shape, CallShape, SetShape, RemoveShape, ReadShape, Is, Over
<1> QED  BY <1>1, <1>3, <1>4, <1>5, OneCallMoves

LEMMA AnswersMoves ==
  ASSUME ShapeInv, NEW c \in Calls, Answers(c)
  PROVE  StepMoves
<1>1. TypeOK /\ \A d \in Calls, e \in Engines : Shape(d, e)
  BY DEF ShapeInv
<1>2. PICK outcome \in {"done", "failed"}, owner \in Values(c) \cup {NoValue},
           leacher \in Calls \cup {NoValue, NoResponse} :
        /\ Answer(c, outcome, owner, leacher)
        /\ owner \in Calls \cup {NoValue}
  BY <1>1, AnswersAre
<1>3. UNCHANGED <<stored, before>>
  BY <1>2 DEF Answer
<1>4. /\ \A d \in Calls : /\ call'[d].op = call[d].op
                         /\ call'[d].place = call[d].place
                         /\ call'[d].owner = call[d].owner
      /\ \A d \in Calls \ {c} :
           call'[d] = call[d] \/ (call[d].pc = "leaching" /\ call'[d].pc = outcome)
      /\ call'[c].pc = outcome /\ call'[c].got = owner
      /\ \A d \in Calls \ {c} : io'[d] = io[d]
      /\ \A e \in Engines :
           io'[c][e] = IF io[c][e].req = "read" THEN NoRequest ELSE io[c][e]
  BY <1>1, <1>2, AnswerEffect
<1>5. /\ call[c].pc = "running" /\ call[c].op \in {"remove", "read"}
      /\ call[c].op = "remove" => \A e \in Engines : ~Is(c, e, "erase", "sent")
  BY DEF Answers, RemoveSettles, ReadFinds, ReadMisses, ReadFails, RemoveRunning, ReadRunning,
         Awaits, Is
<1>6. CallMoves(c)
  <2>1. owner = NoValue \/ \E e \in Engines : Is(c, e, "read", "ok") /\ owner = io[c][e].val
    BY DEF Values, Fulfilled, Is
  <2> QED  BY <1>3, <1>4, <1>5, <2>1 DEF CallMoves, Over
<1>7. ASSUME NEW e \in Engines PROVE RequestMoves(c, e) /\ Shape(c, e)'
  <2>1. call[c].owner
    BY <1>1, <1>5, SomeAssumption DEF Shape, CallShape
  <2>2. RequestMoves(c, e)
    BY <1>3, <1>4, <1>5, NoRequestIs DEF RequestMoves, Is
  <2>3. CASE call[c].op = "remove"
    <3>1. io[c][e].req = "erase" /\ io[c][e].st # "sent"
      BY <1>1, <1>5, <2>1, <2>3 DEF Shape, RemoveShape, Is
    <3> QED  BY <1>4, <2>1, <2>2, <2>3, <3>1, NoRequestIs
             DEF Shape, CallShape, SetShape, RemoveShape, ReadShape, Over
  <2>4. CASE call[c].op = "read"
    <3>1. io'[c][e] = NoRequest
      BY <1>1, <1>4, <1>5, <2>4 DEF Shape, CallShape, ReadShape
    <3> QED  BY <1>4, <2>1, <2>2, <2>4, <3>1, NoRequestIs
             DEF Shape, CallShape, SetShape, RemoveShape, ReadShape, Over
  <2> QED  BY <1>5, <2>3, <2>4
<1>8. ASSUME NEW d \in Calls \ {c}
      PROVE  CallMoves(d) /\ \A e \in Engines : RequestMoves(d, e) /\ Shape(d, e)'
  <2>1. CASE call'[d] = call[d]
    BY <1>1, <1>3, <1>4, <2>1, StaysPut DEF ShapeInv
  <2>2. CASE call[d].pc = "leaching" /\ call'[d].pc = outcome
    <3>1. \A e \in Engines : /\ io[d][e] = NoRequest
                            /\ ~call[d].owner /\ call[d].op # "set"
      BY <1>1, <2>2 DEF Shape, CallShape
    <3>2. CallMoves(d)
      BY <1>3, <1>4, <2>2, <3>1, SomeAssumption DEF CallMoves, Over
    <3>3. \A e \in Engines : RequestMoves(d, e)
      BY <1>3, <1>4, <3>1, NoRequestIs DEF RequestMoves, Is
    <3>4. \A e \in Engines : Shape(d, e)'
      BY <1>4, <2>2, <3>1, NoRequestIs
      DEF Shape, CallShape, SetShape, RemoveShape, ReadShape, Is, Over
    <3> QED  BY <3>2, <3>3, <3>4
  <2> QED  BY <1>4, <2>1, <2>2
<1> QED  BY <1>3, <1>6, <1>7, <1>8 DEF StepMoves, EngineMoves

(* Every step moves calls, requests and engines as said. *)
LEMMA StepsMove == ShapeInv /\ [Next]_vars => StepMoves
<1> SUFFICES ASSUME ShapeInv, [Next]_vars PROVE StepMoves
  OBVIOUS
<1>1. ASSUME NEW c \in Calls, Client(c) PROVE StepMoves
  BY <1>1, SetMoves, EnqueueMoves DEF Client
<1>2. ASSUME NEW c \in Calls, Progress(c) PROVE StepMoves
  <2>1. \/ \E e \in Engines : EngineAnswers(c, e)
        \/ RunTask(c) \/ ReadOthers(c) \/ SetSettles(c) \/ RollbackSettles(c) \/ Answers(c)
    BY <1>2 DEF Progress, Settle, Answers
  <2> QED  BY <2>1, EngineAnswersMoves, RunTaskMoves, ReadOthersMoves, SetSettlesMoves,
              RollbackSettlesMoves, AnswersMoves
<1>3. CASE UNCHANGED vars
  <2>1. \A d \in Calls : call'[d] = call[d] /\ before'[d] = before[d] /\ io'[d] = io[d]
    BY <1>3 DEF vars
  <2> QED  BY <1>3, <2>1, StaysPut DEF StepMoves, EngineMoves, vars
<1>4. ASSUME NEW r \in Files, NEW p \in Places, Rename(r, p) PROVE StepMoves
  <2>1. UNCHANGED <<stored, call, io, before>>
    BY <1>4 DEF Rename
  <2>2. \A d \in Calls : call'[d] = call[d] /\ before'[d] = before[d] /\ io'[d] = io[d]
    BY <2>1
  <2> QED  BY <2>1, <2>2, StaysPut DEF StepMoves, EngineMoves
<1> QED  BY <1>1, <1>2, <1>3, <1>4 DEF Next

LEMMA ShapeStep == ShapeInv /\ [Next]_vars => ShapeInv'
BY StepsMove, TypeStep DEF ShapeInv, StepMoves

-----------------------------------------------------------------------------
(* The invariants *)

LEMMA BeforeStep == BeforeInv /\ ShapeInv /\ StepMoves => BeforeInv'
<1> SUFFICES ASSUME BeforeInv, ShapeInv, StepMoves, NEW c \in Calls
             PROVE  /\ call'[c].pc = "idle" => before'[c] = {}
                    /\ \A x \in before'[c] : Over(x)' /\ x # c
  BY DEF BeforeInv
<1>1. \A x \in Calls : CallMoves(x)
  BY DEF StepMoves
<1>2. \A x \in Calls : Over(x) => Over(x)'
  BY <1>1 DEF CallMoves, Over
<1>3. before[c] \subseteq Calls
  BY DEF ShapeInv, TypeOK
<1>4. CASE before'[c] = before[c]
  BY <1>1, <1>2, <1>3, <1>4 DEF BeforeInv, CallMoves
<1>5. CASE /\ call[c].pc = "idle"
           /\ call'[c].pc \in {"setting", "queued", "leaching"}
           /\ before'[c] = {x \in Calls : Over(x)}
  BY <1>2, <1>5 DEF Over
<1> QED  BY <1>1, <1>4, <1>5 DEF CallMoves

LEMMA StoredStep == StoredInv /\ ShapeInv /\ StepMoves => StoredInv'
<1> SUFFICES ASSUME StoredInv, ShapeInv, StepMoves,
                    NEW e \in Engines, NEW p \in Places, NEW c \in Calls,
                    stored'[e][p] = c
             PROVE  /\ call'[c].op = "set" /\ call'[c].place = p /\ call'[c].pc # "idle"
                    /\ \/ io'[c][e].req = "write" /\ io'[c][e].st = "ok"
                       \/ /\ io'[c][e].req = "erase"
                          /\ io'[c][e].st # "ok" \/ io'[c][e].place # p
  BY DEF StoredInv, Is
<1>1. c # NoValue
  BY ValueAssumption
<1>2. CASE stored[e][p] = c
  <2>1. /\ call[c].op = "set" /\ call[c].place = p /\ call[c].pc # "idle"
        /\ \/ Is(c, e, "write", "ok")
           \/ io[c][e].req = "erase" /\ (io[c][e].st # "ok" \/ io[c][e].place # p)
    BY <1>2 DEF StoredInv
  <2>2. CallMoves(c) /\ RequestMoves(c, e)
    BY DEF StepMoves
  <2>3. call'[c].op = "set" /\ call'[c].place = p /\ call'[c].pc # "idle"
    BY <2>1, <2>2 DEF CallMoves
  <2> QED  BY <1>1, <2>1, <2>2, <2>3 DEF RequestMoves, Is
<1>3. CASE stored'[e][p] # stored[e][p]
  <2>1. EngineMoves(e, p)
    BY DEF StepMoves
  <2> QED  BY <1>1, <1>3, <2>1 DEF EngineMoves
<1> QED  BY <1>2, <1>3

(* What is over and out of the way of a call was so before. *)
LEMMA NobodyBefore ==
  ASSUME ShapeInv, BeforeInv, StepMoves, NEW c \in Calls, call[c].pc # "idle",
         NEW x \in Calls, Precedes(x, c)'
  PROVE  Precedes(x, c) /\ Over(x)
<1>1. CallMoves(c) /\ CallMoves(x) /\ \A e \in Engines : RequestMoves(x, e)
  BY DEF StepMoves
<1>2. x \in before[c]
  BY <1>1 DEF Precedes, CallMoves
<1>3. Over(x) /\ call'[x] = call[x]
  BY <1>1, <1>2 DEF BeforeInv, CallMoves
<1>4. BrokenRollback(x) => BrokenRollback(x)'
  BY <1>1, <1>3 DEF BrokenRollback, Rejected, RequestMoves
<1> QED  BY <1>2, <1>3, <1>4 DEF Precedes

LEMMA WrittenStep == WrittenInv /\ BeforeInv /\ ShapeInv /\ StepMoves => WrittenInv'
<1> SUFFICES ASSUME WrittenInv, BeforeInv, ShapeInv, StepMoves,
                    NEW c \in Calls, NEW e \in Engines,
                    call'[c].op = "set", call'[c].pc \in {"setting", "done"},
                    io'[c][e].req = "write", io'[c][e].st = "ok",
                    \A x \in Erasers(call[c].place)' \ {c} : Precedes(x, c)'
             PROVE  stored'[e][call'[c].place] = c
  BY DEF WrittenInv, Is
<1>0. io'[c][e].place = call'[c].place
  BY DEF StepMoves, Shape, SetShape
<1>1. CallMoves(c) /\ RequestMoves(c, e)
  BY DEF StepMoves
<1>2. CASE ~Is(c, e, "write", "ok")
  BY <1>0, <1>1, <1>2 DEF RequestMoves
<1>3. CASE Is(c, e, "write", "ok")
  <2>1. call[c].pc # "idle"
    BY <1>3, NoRequestIs DEF ShapeInv, Shape, CallShape, Is
  <2>2. /\ call[c].op = "set" /\ call'[c].place = call[c].place
        /\ call[c].pc \in {"setting", "done"}
    <3>1. /\ call[c].op = "set" /\ call'[c].place = call[c].place
          /\ call[c].pc \notin {"rollback", "failed"}
      BY <1>1, <2>1 DEF CallMoves, Over
    <3>2. call[c].pc \notin {"queued", "running", "leaching"}
      BY <3>1 DEF ShapeInv, Shape, CallShape
    <3> QED  BY <2>1, <3>1, <3>2 DEF ShapeInv, TypeOK, CallState
  <2>3. ASSUME NEW x \in Erasers(call[c].place) \ {c} PROVE Precedes(x, c)
    <3>1. x \in Calls /\ CallMoves(x) /\ \A f \in Engines : RequestMoves(x, f)
      BY DEF Erasers, Sets, StepMoves
    <3>2. CASE x \in Sets(call[c].place)
      <4>1. x \in Sets(call[c].place)'
        BY <2>2, <3>1, <3>2 DEF Sets, CallMoves
      <4> QED  BY <2>1, <3>1, <4>1, NobodyBefore DEF Erasers
    <3>3. CASE \E f \in Engines : io[x][f].req = "erase" /\ io[x][f].place = call[c].place
      <4>1. \E f \in Engines : io'[x][f].req = "erase" /\ io'[x][f].place = call[c].place
        BY <3>1, <3>3 DEF RequestMoves
      <4> QED  BY <2>1, <2>2, <3>1, <4>1, NobodyBefore DEF Erasers
    <3> QED  BY <3>2, <3>3 DEF Erasers
  <2>4. stored[e][call[c].place] = c
    BY <1>3, <2>2, <2>3 DEF WrittenInv
  <2>5. call[c].place \in Places
    BY DEF ShapeInv, TypeOK, CallState
  <2>6. EngineMoves(e, call[c].place)
    BY <2>5 DEF StepMoves
  <2>7. ASSUME NEW x \in Calls, x # c, x \in Erasers(call[c].place)'
        PROVE  Over(x) /\ ~BrokenRollback(x)
    <3>1. Precedes(x, c)'
      BY <2>2, <2>7
    <3> QED  BY <2>1, <3>1, NobodyBefore DEF Precedes
  <2>8. \/ stored'[e][call[c].place] = stored[e][call[c].place]
        \/ stored'[e][call[c].place] = c
        \/ io'[c][e].req = "erase"
    BY <2>2, <2>6, <2>7 DEF EngineMoves, Erasers, Sets
  <2> QED  BY <2>2, <2>4, <2>8
<1> QED  BY <1>2, <1>3

(* No value of a call that is over comes into an engine any more. *)
LEMMA OldStaysOut ==
  ASSUME ShapeInv, StepMoves, NEW e \in Engines, NEW p \in Places, NEW w \in Calls,
         Over(w), stored[e][p] # w
  PROVE  stored'[e][p] # w
<1>1. EngineMoves(e, p)
  BY DEF StepMoves
<1> QED  BY <1>1, ValueAssumption DEF EngineMoves

LEMMA OverwrittenStep ==
  OverwrittenInv /\ BeforeInv /\ BeforeInv' /\ ShapeInv /\ StepMoves => OverwrittenInv'
<1> SUFFICES ASSUME OverwrittenInv, BeforeInv, BeforeInv', ShapeInv, StepMoves,
                    NEW c \in Calls, NEW e \in Engines, call'[c].op = "set",
                    \/ io'[c][e].req = "write" /\ io'[c][e].st = "ok"
                    \/ io'[c][e].req = "erase"
             PROVE  stored'[e][call'[c].place] \notin before'[c]
  BY DEF OverwrittenInv, Is
<1>1. CallMoves(c) /\ RequestMoves(c, e) /\ before[c] \subseteq Calls
  BY DEF StepMoves, ShapeInv, TypeOK
<1>2. CASE Is(c, e, "write", "ok") \/ io[c][e].req = "erase"
  <2>1. call[c].pc # "idle"
    BY <1>2, NoRequestIs DEF ShapeInv, Shape, CallShape, Is
  <2>2. /\ call[c].op = "set" /\ call'[c].place = call[c].place /\ before'[c] = before[c]
        /\ call[c].place \in Places
    BY <1>1, <2>1 DEF CallMoves, ShapeInv, TypeOK, CallState
  <2>3. stored[e][call[c].place] \notin before[c]
    BY <1>2, <2>2 DEF OverwrittenInv
  <2> QED  BY <1>1, <2>2, <2>3, OldStaysOut DEF BeforeInv
<1>3. CASE ~(Is(c, e, "write", "ok") \/ io[c][e].req = "erase")
  <2>1. /\ ~Is(c, e, "write", "ok")
        /\ io[c][e].req # "erase" /\ io'[c][e].req # "erase"
        /\ io'[c][e].req = "write" /\ io'[c][e].st = "ok"
    BY <1>1, <1>3 DEF RequestMoves
  <2>2. call'[c].pc # "idle"
    BY <2>1, NoRequestIs DEF StepMoves, Shape, CallShape
  <2>3. io'[c][e].place = call'[c].place
    BY <2>1, <2>2 DEF StepMoves, Shape, SetShape
  <2>4. stored'[e][call'[c].place] = c
    BY <1>1, <2>1, <2>3 DEF RequestMoves
  <2> QED  BY <2>4 DEF BeforeInv
<1> QED  BY <1>2, <1>3

(* What is fresh for a call that has begun stays so. *)
LEMMA FreshStays ==
  ASSUME ShapeInv, BeforeInv, StepMoves, NEW c \in Calls, call[c].pc # "idle",
         NEW v, FreshFor(c, v)
  PROVE  FreshFor(c, v)'
<1> SUFFICES ASSUME v \in Calls
             PROVE  /\ call'[v].pc # "idle"
                    /\ \A w \in before'[c] \cap Sets(call[v].place)' :
                         call'[w].pc = "done" => v \notin before'[w]
  BY DEF FreshFor
<1>1. /\ CallMoves(c) /\ CallMoves(v)
      /\ call[v].pc # "idle" /\ before[c] \subseteq Calls
  BY DEF StepMoves, FreshFor, ShapeInv, TypeOK
<1>2. /\ call'[v].pc # "idle" /\ call'[v].place = call[v].place /\ before'[c] = before[c]
  BY <1>1 DEF CallMoves
<1>3. ASSUME NEW w \in before'[c] \cap Sets(call[v].place)', call'[w].pc = "done"
      PROVE  v \notin before'[w]
  <2>1. w \in Calls /\ w \in before[c] /\ Over(w) /\ CallMoves(w)
    BY <1>1, <1>2, <1>3 DEF BeforeInv, StepMoves
  <2>2. call'[w] = call[w] /\ before'[w] = before[w]
    BY <2>1 DEF CallMoves, Over
  <2>3. w \in Sets(call[v].place)
    BY <1>2, <1>3, <2>1, <2>2 DEF Sets
  <2> QED  BY <1>3, <2>1, <2>2, <2>3 DEF FreshFor
<1> QED  BY <1>2, <1>3

(* What an engine keeps is fresh for every call that has begun. *)
LEMMA KeptIsFresh ==
  ASSUME ShapeInv, StoredInv, OverwrittenInv, NEW c \in Calls, NEW e \in Engines,
         NEW p \in Places
  PROVE  FreshFor(c, stored[e][p])
<1> SUFFICES ASSUME NEW v \in Calls, v = stored[e][p]
             PROVE  /\ call[v].pc # "idle"
                    /\ \A w \in before[c] \cap Sets(call[v].place) :
                         call[w].pc = "done" => v \notin before[w]
  BY DEF FreshFor
<1>1. call[v].pc # "idle" /\ call[v].place = p
  BY DEF StoredInv
<1>2. ASSUME NEW w \in before[c] \cap Sets(call[v].place), call[w].pc = "done"
      PROVE  v \notin before[w]
  <2>1. w \in Calls /\ call[w].op = "set" /\ call[w].place = p /\ call[w].pc # "idle"
    BY <1>1, <1>2 DEF Sets
  <2>2. Is(w, e, "write", "ok")
    BY <1>2, <2>1 DEF ShapeInv, Shape, SetShape
  <2> QED  BY <2>1, <2>2 DEF OverwrittenInv
<1> QED  BY <1>1, <1>2

LEMMA FreshStep ==
  ASSUME FreshInv, StoredInv, OverwrittenInv, BeforeInv, ShapeInv, ShapeInv', StepMoves
  PROVE  FreshInv'
<1> SUFFICES ASSUME NEW c \in Calls, call'[c].op = "read", call'[c].pc # "idle"
             PROVE  /\ \A e \in Engines : io'[c][e].req = "read" /\ io'[c][e].st = "ok"
                                            => FreshFor(c, io[c][e].val)'
                    /\ call'[c].owner => FreshFor(c, call[c].got)'
  BY DEF FreshInv, Is
<1>1. CallMoves(c) /\ \A e \in Engines : RequestMoves(c, e)
  BY DEF StepMoves
<1>2. CASE call[c].pc = "idle"
  <2>1. call'[c].pc \in {"setting", "queued", "leaching"} /\ call'[c].got = NoValue
    BY <1>1, <1>2 DEF CallMoves
  <2>2. \A e \in Engines : io'[c][e] = NoRequest
    <3>1. \A e \in Engines : Shape(c, e)'
      BY DEF ShapeInv
    <3>2. \A e \in Engines : CallShape(c, e)' /\ SetShape(c, e)'
      BY <3>1 DEF Shape
    <3>3. call'[c].pc # "setting"
      BY <3>2, SomeAssumption DEF CallShape
    <3> QED  BY <2>1, <3>2, <3>3, NoRequestIs DEF CallShape
  <2>3. FreshFor(c, call[c].got)'
    BY <2>1, ValueAssumption DEF FreshFor
  <2> QED  BY <2>2, <2>3, NoRequestIs
<1>3. CASE call[c].pc # "idle"
  <2>1. call[c].op = "read" /\ call'[c].owner = call[c].owner
    BY <1>1, <1>3 DEF CallMoves
  <2>2. \A v : FreshFor(c, v) => FreshFor(c, v)'
    BY <1>3, FreshStays
  <2>3. ASSUME NEW e \in Engines, io'[c][e].req = "read", io'[c][e].st = "ok"
        PROVE  FreshFor(c, io[c][e].val)'
    <3>1. PICK v : v = io'[c][e].val
      OBVIOUS
    <3>2. FreshFor(c, v)
      <4>1. CASE Is(c, e, "read", "ok") /\ v = io[c][e].val
        BY <1>3, <2>1, <4>1 DEF FreshInv
      <4>2. CASE \E p \in Places : v = stored[e][p]
        BY <4>2, KeptIsFresh
      <4> QED  BY <1>1, <2>3, <3>1, <4>1, <4>2 DEF RequestMoves
    <3>3. FreshFor(c, v)'
      BY <2>2, <3>2
    <3> QED  BY <3>1, <3>3 DEF FreshFor
  <2>4. ASSUME call'[c].owner PROVE FreshFor(c, call[c].got)'
    <3>1. PICK v : v = call'[c].got
      OBVIOUS
    <3>2. CASE v = NoValue
      BY <3>1, <3>2, ValueAssumption DEF FreshFor
    <3>3. CASE v # NoValue
      <4>1. \/ v = call[c].got
            \/ \E e \in Engines : Is(c, e, "read", "ok") /\ v = io[c][e].val
        BY <1>1, <1>3, <2>1, <2>4, <3>1, <3>3 DEF CallMoves
      <4>2. FreshFor(c, v)
        BY <1>3, <2>1, <2>4, <4>1 DEF FreshInv
      <4>3. FreshFor(c, v)'
        BY <2>2, <4>2
      <4> QED  BY <3>1, <4>3 DEF FreshFor
    <3> QED  BY <3>2, <3>3
  <2> QED  BY <2>3, <2>4
<1> QED  BY <1>2, <1>3

LEMMA ErasedStep ==
  ASSUME ErasedInv, BeforeInv, ShapeInv, ShapeInv', StepMoves
  PROVE  ErasedInv'
<1> SUFFICES ASSUME NEW c \in Calls, NEW w \in Calls, NEW e \in Engines, NEW p \in Places,
                    p = io'[c][e].place,
                    call'[c].op = "remove", io'[c][e].req = "erase", io'[c][e].st = "ok",
                    w \in before'[c], w \in Sets(p)'
             PROVE  stored'[e][p] # w
  <2>1. \A d \in Calls, f \in Engines : io'[d][f].place \in Places
    BY DEF ShapeInv, TypeOK, Request
  <2> QED  BY <2>1 DEF ErasedInv, Is, Sets
<1>1. CallMoves(c) /\ CallMoves(w) /\ RequestMoves(c, e) /\ NoValue # w
  BY ValueAssumption DEF StepMoves
<1>2. call[c].pc # "idle"
  <2>1. call[c].pc = "idle" => call'[c].pc \in {"idle", "setting", "queued", "leaching"}
    BY <1>1 DEF CallMoves
  <2>2. call'[c].pc \notin {"idle", "setting", "queued", "leaching"}
    BY NoRequestIs DEF ShapeInv, Shape, CallShape
  <2> QED  BY <2>1, <2>2
<1>3. before'[c] = before[c] /\ call[c].op = "remove"
  BY <1>1, <1>2 DEF CallMoves
<1>4. Over(w) /\ w \in before[c] /\ w \in Sets(p)
  BY <1>1, <1>3 DEF BeforeInv, CallMoves, Sets
<1>5. CASE Is(c, e, "erase", "ok")
  <2>1. io[c][e].place = p
    BY <1>1, <1>5 DEF RequestMoves, Is
  <2>2. stored[e][p] # w
    BY <1>3, <1>4, <1>5, <2>1 DEF ErasedInv
  <2> QED  BY <1>4, <2>2, OldStaysOut
<1>6. CASE ~Is(c, e, "erase", "ok")
  BY <1>1, <1>6 DEF RequestMoves
<1> QED  BY <1>5, <1>6

LEMMA InitInv == Init => Inv
<1> SUFFICES ASSUME Init PROVE Inv
  OBVIOUS
<1> USE SomeAssumption, ValueAssumption
<1>1. TypeOK
  <2>1. IdleCall \in CallState
    BY DEF IdleCall, CallState
  <2>2. NoRequest \in Request
    BY NoRequestIs
  <2> QED  BY <2>1, <2>2 DEF Init, TypeOK
<1>2. /\ \A c \in Calls : call[c].pc = "idle" /\ call[c].op = "set" /\ before[c] = {}
      /\ \A c \in Calls, e \in Engines : io[c][e] = NoRequest
      /\ \A e \in Engines, p \in Places : stored[e][p] = NoValue
  BY DEF Init, IdleCall
<1>3. ShapeInv
  BY <1>1, <1>2, NoRequestIs
  DEF ShapeInv, Shape, CallShape, SetShape, RemoveShape, ReadShape
<1>4. BeforeInv /\ StoredInv
  BY <1>2 DEF BeforeInv, StoredInv
<1>5. WrittenInv /\ OverwrittenInv /\ ErasedInv
  BY <1>2, NoRequestIs DEF WrittenInv, OverwrittenInv, ErasedInv, Is
<1>6. FreshInv
  BY <1>2 DEF FreshInv
<1> QED  BY <1>3, <1>4, <1>5, <1>6 DEF Inv

LEMMA InvHolds == Spec => []Inv
<1>1. Inv /\ [Next]_vars => Inv'
  <2> SUFFICES ASSUME Inv, [Next]_vars PROVE Inv'
    OBVIOUS
  <2>1. StepMoves /\ ShapeInv'
    BY StepsMove, ShapeStep DEF Inv
  <2>2. BeforeInv'
    BY <2>1, BeforeStep DEF Inv
  <2> QED  BY <2>1, <2>2, StoredStep, WrittenStep, OverwrittenStep, FreshStep, ErasedStep DEF Inv
<1> QED  BY <1>1, InitInv, PTL DEF Spec

(* The types are as declared. *)
THEOREM ProxyTypes == Spec => []TypeOK
<1>1. Inv => TypeOK
  BY DEF Inv, ShapeInv
<1> QED  BY <1>1, InvHolds, PTL

(***************************************************************************)
(* A set that resolved is in every engine until another set or remove of   *)
(* its place, overlapping it or later, changes that.                       *)
(***************************************************************************)
THEOREM SetsReachAllEngines == Spec => []SetIsInAllEngines
<1>1. Inv => SetIsInAllEngines
  <2> SUFFICES ASSUME Inv, NEW p \in Places, NEW c \in Sets(p), NEW e \in Engines,
                      call[c].pc = "done",
                      \A x \in Erasers(p) \ {c} : Precedes(x, c)
               PROVE  stored[e][p] = c
    BY DEF SetIsInAllEngines
  <2>1. c \in Calls /\ call[c].op = "set" /\ call[c].place = p
    BY DEF Sets
  <2>2. Is(c, e, "write", "ok")
    BY <2>1 DEF Inv, ShapeInv, Shape, SetShape
  <2> QED  BY <2>1, <2>2 DEF Inv, WrittenInv
<1> QED  BY <1>1, InvHolds, PTL

(***************************************************************************)
(* A set that rejected has left its value in no engine, whichever of them  *)
(* failed, unless the rollback has failed too or asked for another place.  *)
(***************************************************************************)
THEOREM FailedSetsAreUndone == Spec => []FailedSetLeavesNothing
<1>1. Inv => FailedSetLeavesNothing
  <2> SUFFICES ASSUME Inv, NEW p \in Places, NEW c \in Sets(p), NEW e \in Engines,
                      call[c].pc = "failed", ~BrokenRollback(c), ~RolledBackElsewhere(c),
                      stored[e][p] = c
               PROVE  FALSE
    BY DEF FailedSetLeavesNothing
  <2>1. c \in Calls /\ call[c].op = "set" /\ call[c].place = p
    BY DEF Sets
  <2>2. io[c][e].st # "sent" /\ (io[c][e].req = "erase" \/ Is(c, e, "write", "failed"))
    BY <2>1 DEF Inv, ShapeInv, Shape, SetShape
  <2>3. io[c][e].req = "erase" => io[c][e].st # "failed" /\ io[c][e].place = p
    BY <2>1 DEF BrokenRollback, Rejected, RolledBackElsewhere
  <2>4. \/ Is(c, e, "write", "ok")
        \/ io[c][e].req = "erase" /\ (io[c][e].st # "ok" \/ io[c][e].place # p)
    BY <2>1 DEF Inv, StoredInv
  <2>5. io[c][e].st \in {"sent", "ok", "failed"}
    BY <2>1 DEF Inv, ShapeInv, TypeOK, Request
  <2> QED  BY <2>2, <2>3, <2>4, <2>5 DEF Is
<1> QED  BY <1>1, InvHolds, PTL

(***************************************************************************)
(* A read with a task of its own never returns what was overwritten in its *)
(* place before the read began.                                            *)
(***************************************************************************)
THEOREM ReadsAreFresh == Spec => []ReadIsFresh
<1>1. Inv => ReadIsFresh
  BY DEF Inv, FreshInv, FreshFor, ReadIsFresh
<1> QED  BY <1>1, InvHolds, PTL

(***************************************************************************)
(* A remove with a task of its own leaves none of the values set before it *)
(* began in the place its record has when the task runs, save in engines   *)
(* that failed to remove the record.                                       *)
(***************************************************************************)
THEOREM RemovesForget == Spec => []OwnRemoveForgets
<1>1. Inv => OwnRemoveForgets
  <2> SUFFICES ASSUME Inv, NEW c \in Calls, NEW w \in Calls,
                      call[c].op = "remove", call[c].owner, call[c].pc = "done",
                      w \in before[c],
                      NEW e \in Engines \ Rejected(c, "erase"),
                      w \in Sets(io[c][e].place)
               PROVE  stored[e][io[c][e].place] # w
    BY DEF OwnRemoveForgets
  <2>1. io[c][e].req = "erase" /\ io[c][e].st # "sent"
    BY DEF Inv, ShapeInv, Shape, RemoveShape, Over
  <2>2. Is(c, e, "erase", "ok")
    BY <2>1 DEF Inv, ShapeInv, TypeOK, Request, Rejected, Is
  <2> QED  BY <2>2 DEF Inv, ErasedInv
<1> QED  BY <1>1, InvHolds, PTL
=============================================================================
