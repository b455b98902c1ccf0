-------------------------- MODULE LockSessionsProofs --------------------------
(***************************************************************************)
(* Proofs about LockSessions, for every set of sessions, keys, records,    *)
(* calls and operations.                                                   *)
(***************************************************************************)
EXTENDS LockSessions, TLAPS, SequenceTheorems

(***************************************************************************)
(* What the type invariant leaves out: the record a lock loop or an        *)
(* acquire works on is one, and who waits waits for a session.             *)
(***************************************************************************)
WellFormed ==
  /\ \A s \in Sessions :
       /\ locker[s].pc # "idle" => locker[s].rec \in Objects
       /\ locker[s].pc = "waiting" => locker[s].on \in Sessions
  /\ \A c \in Calls : call[c].pc = "reserving" => call[c].rec \in Objects
  /\ \A p \in Ops : op[p].pc = "waiting" =>
       op[p].rec \in Objects /\ op[p].on \in Sessions

TypeInv == TypeOK /\ WellFormed

-----------------------------------------------------------------------------
(* The controller's loop adds cached records to the call's, and reserves   *)
(* nothing but what it adds.                                               *)
LEMMA GatherEffect ==
  ASSUME TypeOK,
         NEW c \in Calls, NEW todo \in Seq(Keys), NEW got \in SUBSET Objects,
         NEW resv \in [Objects -> Sessions \cup {NoSession}],
         Gather(c, todo, got, resv)
  PROVE  /\ reserved' \in [Objects -> Sessions \cup {NoSession}]
         /\ call' \in [Calls -> CallState]
         /\ \A d \in Calls \ {c} : call'[d] = call[d]
         /\ call'[c].pc \in {"gathered", "reserving"}
         /\ got \subseteq call'[c].got
         /\ \A o \in call'[c].got : o \in got \/ InCache(o)
         /\ call'[c].pc = "reserving" =>
              call'[c].rec \in Objects /\ InCache(call'[c].rec)
<1>1. PICK n \in 0..Len(todo) :
        LET taken == Found(todo, n)
            resv2 == [o \in Objects |-> IF o \in taken THEN Caller[c] ELSE resv[o]]
            next  == Obj(todo, n + 1)
        IN /\ reserved' = resv2
           /\ \/ /\ n = Len(todo)
                 /\ call' = [call EXCEPT
                      ![c] = [pc |-> "gathered", todo |-> <<>>,
                              got |-> got \cup taken,
                              rec |-> NoObject, on |-> NoSession]]
              \/ /\ n < Len(todo)
                 /\ IsReserved(todo, n + 1, resv)
                 /\ call' = [call EXCEPT
                      ![c] = [pc |-> "reserving",
                              todo |-> SubSeq(todo, n + 2, Len(todo)),
                              got |-> got \cup taken,
                              rec |-> next, on |-> resv2[next]]]
  BY DEF Gather
<1> DEFINE taken == Found(todo, n)
           resv2 == [o \in Objects |-> IF o \in taken THEN Caller[c] ELSE resv[o]]
           next  == Obj(todo, n + 1)
<1>2. \A i \in 1..Len(todo) : todo[i] \in Keys
  OBVIOUS
<1>3. \A i \in 1..Len(todo) : /\ Obj(todo, i) \in Objects \cup {NoObject}
                              /\ Obj(todo, i) # NoObject => InCache(Obj(todo, i))
  BY <1>2 DEF Obj, InCache, TypeOK
<1>4. taken \subseteq Objects /\ \A o \in taken : InCache(o)
  BY <1>3 DEF Found
<1>5. resv2 \in [Objects -> Sessions \cup {NoSession}]
  BY CallerAssumption
<1>6. CASE n = Len(todo)
  <2>1. call' = [call EXCEPT ![c] = [pc |-> "gathered", todo |-> <<>>,
                                      got |-> got \cup taken,
                                      rec |-> NoObject, on |-> NoSession]]
    BY <1>1, <1>6
  <2>2. [pc |-> "gathered", todo |-> <<>>, got |-> got \cup taken,
         rec |-> NoObject, on |-> NoSession] \in CallState
    BY <1>4 DEF CallState
  <2> HIDE DEF taken
  <2> QED  BY <1>1, <1>4, <1>5, <2>1, <2>2 DEF TypeOK, taken
<1>7. CASE n < Len(todo)
  <2>1. /\ IsReserved(todo, n + 1, resv)
        /\ call' = [call EXCEPT ![c] = [pc |-> "reserving",
                                      todo |-> SubSeq(todo, n + 2, Len(todo)),
                                      got |-> got \cup taken,
                                      rec |-> next, on |-> resv2[next]]]
    BY <1>1, <1>7
  <2>2. next \in Objects /\ InCache(next)
    BY <1>3, <1>7, <2>1 DEF IsReserved
  <2>3. SubSeq(todo, n + 2, Len(todo)) \in Seq(Keys)
    BY <1>7
  <2>4. [pc |-> "reserving", todo |-> SubSeq(todo, n + 2, Len(todo)),
         got |-> got \cup taken, rec |-> next, on |-> resv2[next]] \in CallState
    BY <1>4, <1>5, <2>2, <2>3 DEF CallState
  <2> HIDE DEF taken, next
  <2> QED  BY <1>1, <1>4, <1>5, <2>1, <2>2, <2>4 DEF TypeOK, taken
<1> QED  BY <1>6, <1>7

LEMMA GatherReservesItsOwn ==
  ASSUME TypeOK,
         NEW c \in Calls, NEW todo \in Seq(Keys), NEW got \in SUBSET Objects,
         NEW resv \in [Objects -> Sessions \cup {NoSession}],
         Gather(c, todo, got, resv)
  PROVE  \A o \in Objects : \/ reserved'[o] = resv[o]
                            \/ reserved'[o] = Caller[c] /\ o \in call'[c].got
<1>1. PICK n \in 0..Len(todo) :
        LET taken == Found(todo, n)
            resv2 == [o \in Objects |-> IF o \in taken THEN Caller[c] ELSE resv[o]]
        IN /\ reserved' = resv2
           /\ \E pc, rest, rec, on :
                call' = [call EXCEPT ![c] = [pc |-> pc, todo |-> rest,
                                             got |-> got \cup taken,
                                             rec |-> rec, on |-> on]]
  BY DEF Gather
<1>2. call'[c].got = got \cup Found(todo, n)
  BY <1>1 DEF TypeOK
<1>3. reserved' = [o \in Objects |-> IF o \in Found(todo, n) THEN Caller[c] ELSE resv[o]]
  BY <1>1
<1> QED  BY <1>2, <1>3

(* lock() up to its first await touches one record and one lock loop.     *)
LEMMA LockEffect ==
  ASSUME TypeOK, NEW s \in Sessions, NEW o \in Objects, Lock(s, o)
  PROVE  /\ owner' \in [Objects -> Sessions \cup {NoSession}]
         /\ locker' \in [Sessions -> LockerState]
         /\ \A t \in Sessions \ {s} : locker'[t] = locker[t]
         /\ locker'[s].rec = o
         /\ locker'[s].pc \in {"granted", "refused", "waiting"}
         /\ \/ /\ owner[o] = NoSession
               /\ owner' = [owner EXCEPT ![o] = s]
               /\ locker'[s].pc = "granted"
            \/ owner' = owner /\ locker'[s].pc # "granted"
         /\ locker'[s].pc = "waiting" =>
              locker'[s].on = owner[o] /\ owner[o] \in Sessions
BY DEF Lock, TypeOK, LockerState

(* An assignment to the state of one call or of one operation.            *)
LEMMA CallWithPc ==
  ASSUME NEW a \in CallState, NEW pc \in {"done", "failed", "locking"}
  PROVE  /\ [a EXCEPT !.pc = pc] \in CallState
         /\ [a EXCEPT !.pc = pc].pc = pc
         /\ [a EXCEPT !.pc = pc].got = a.got
         /\ [a EXCEPT !.pc = pc].rec = a.rec
BY DEF CallState

LEMMA CallPcEffect ==
  ASSUME TypeOK, NEW c \in Calls, NEW pc \in {"done", "failed", "locking"},
         call' = [call EXCEPT ![c].pc = pc]
  PROVE  /\ call' \in [Calls -> CallState]
         /\ \A d \in Calls \ {c} : call'[d] = call[d]
         /\ call'[c].pc = pc
         /\ call'[c].got = call[c].got
<1>. call \in [Calls -> CallState] /\ call[c] \in CallState
  BY DEF TypeOK
<1> DEFINE new == [call[c] EXCEPT !.pc = pc]
<1>1. new \in CallState /\ new.pc = pc /\ new.got = call[c].got
  BY CallWithPc
<1>2. call' = [call EXCEPT ![c] = new]
  OBVIOUS
<1> HIDE DEF new
<1> QED  BY <1>1, <1>2

(* Settling the acquires of a session changes nothing but their state.    *)
LEMMA SettleEffect ==
  ASSUME TypeOK, NEW s \in Sessions, NEW outcome \in {"done", "failed"},
         call' = Settle(s, outcome)
  PROVE  /\ call' \in [Calls -> CallState]
         /\ \A c \in Calls :
              /\ call'[c].got = call[c].got
              /\ call'[c].rec = call[c].rec
              /\ \/ /\ call'[c] = call[c]
                    /\ ~(call[c].pc = "locking" /\ Caller[c] = s)
                 \/ /\ call[c].pc = "locking" /\ Caller[c] = s
                    /\ call'[c].pc = outcome
<1>1. ASSUME NEW c \in Calls
      PROVE  /\ call'[c] \in CallState
             /\ call'[c].got = call[c].got /\ call'[c].rec = call[c].rec
             /\ \/ call'[c] = call[c] /\ ~(call[c].pc = "locking" /\ Caller[c] = s)
                \/ call[c].pc = "locking" /\ Caller[c] = s /\ call'[c].pc = outcome
  <2>1. call[c] \in CallState
    BY DEF TypeOK
  <2>2. CASE Caller[c] = s /\ call[c].pc = "locking"
    <3>1. call'[c] = [call[c] EXCEPT !.pc = outcome]
      BY <2>2 DEF Settle
    <3>2. outcome \in {"done", "failed", "locking"}
      OBVIOUS
    <3> DEFINE new == [call[c] EXCEPT !.pc = outcome]
    <3>3. new \in CallState /\ new.pc = outcome /\ new.got = call[c].got
          /\ new.rec = call[c].rec
      BY <2>1, <3>2, CallWithPc
    <3>4. call'[c] = new
      BY <3>1
    <3> HIDE DEF new
    <3> QED  BY <2>2, <3>3, <3>4
  <2>3. CASE ~(Caller[c] = s /\ call[c].pc = "locking")
    <3>1. call'[c] = call[c]
      BY <2>3 DEF Settle
    <3> QED  BY <2>1, <2>3, <3>1
  <2> QED  BY <2>2, <2>3
<1>2. call' = [c \in Calls |-> call'[c]]
  BY DEF Settle
<1>3. call' \in [Calls -> CallState]
  BY <1>1, <1>2
<1> QED  BY <1>1, <1>3

-----------------------------------------------------------------------------
(* Type correctness *)

LEMMA TypeInit == Init => TypeInv
<1> SUFFICES ASSUME Init PROVE TypeInv
  OBVIOUS
<1>1. IdleLocker \in LockerState
  BY DEF IdleLocker, LockerState
<1>2. IdleCall \in CallState
  BY DEF IdleCall, CallState
<1>3. IdleOp \in OpState
  BY NoneAssumption DEF IdleOp, OpState, OpKinds
<1>4. TypeOK
  BY <1>1, <1>2, <1>3 DEF Init, TypeOK
<1>5. WellFormed
  BY DEF Init, WellFormed, IdleLocker, IdleCall, IdleOp
<1> QED  BY <1>4, <1>5 DEF TypeInv

LEMMA TypeAcquire ==
  ASSUME TypeInv, NEW c \in Calls, NEW request \in Requests, Acquire(c, request)
  PROVE  TypeInv'
<1> USE DEF TypeInv, cacheVars, sessionVars
<1>1. CASE released[Caller[c]]
  <2>1. call' \in [Calls -> CallState]
        /\ \A d \in Calls : call'[d] = call[d] \/ call'[d].pc = "failed"
    BY <1>1, CallPcEffect DEF Acquire, Gather
  <2> QED  BY <1>1, <2>1 DEF Acquire, TypeOK, WellFormed
<1>2. CASE ~released[Caller[c]]
  <2>1. Gather(c, request, {}, reserved) /\ request \in Seq(Keys)
    BY <1>2, RequestsAssumption DEF Acquire
  <2>2. /\ reserved' \in [Objects -> Sessions \cup {NoSession}]
        /\ call' \in [Calls -> CallState]
        /\ \A d \in Calls \ {c} : call'[d] = call[d]
        /\ call'[c].pc = "reserving" => call'[c].rec \in Objects
    BY <2>1, GatherEffect DEF TypeOK
  <2> QED  BY <2>2 DEF Acquire, TypeOK, WellFormed
<1> QED  BY <1>1, <1>2

LEMMA TypeReservationResume ==
  ASSUME TypeInv, NEW c \in Calls, ReservationResume(c)
  PROVE  TypeInv'
<1> USE DEF TypeInv, cacheVars, sessionVars
<1> DEFINE todo == call[c].todo
           got  == call[c].got \cup {call[c].rec}
           resv == [reserved EXCEPT ![call[c].rec] = Caller[c]]
<1>1. /\ todo \in Seq(Keys)
      /\ got \in SUBSET Objects
      /\ resv \in [Objects -> Sessions \cup {NoSession}]
  BY CallerAssumption DEF ReservationResume, TypeOK, WellFormed, CallState
<1>2. Gather(c, todo, got, resv)
  BY DEF ReservationResume
<1> HIDE DEF todo, got, resv
<1>3. /\ reserved' \in [Objects -> Sessions \cup {NoSession}]
      /\ call' \in [Calls -> CallState]
      /\ \A d \in Calls \ {c} : call'[d] = call[d]
      /\ call'[c].pc = "reserving" => call'[c].rec \in Objects
  BY <1>1, <1>2, GatherEffect
<1> QED  BY <1>3 DEF ReservationResume, TypeOK, WellFormed

LEMMA TypeEnlist ==
  ASSUME TypeInv, NEW c \in Calls, Enlist(c)
  PROVE  TypeInv'
<1> USE DEF TypeInv, cacheVars, sessionVars
<1> DEFINE s == Caller[c]
           pend == pending[s] \cup call[c].got
<1>1. s \in Sessions /\ pend \subseteq Objects
  BY CallerAssumption DEF TypeOK, CallState
<1>2. /\ pending' \in [Sessions -> SUBSET Objects]
      /\ call' \in [Calls -> CallState]
      /\ \A d \in Calls : call'[d] = call[d] \/ call'[d].pc \in {"done", "locking"}
  <2>1. pending' \in [Sessions -> SUBSET Objects]
    BY <1>1 DEF Enlist, TypeOK
  <2>2. \E pc \in {"done", "locking"} : call' = [call EXCEPT ![c].pc = pc]
    BY DEF Enlist
  <2> QED  BY <2>1, <2>2, CallPcEffect
<1>3. CASE UNCHANGED <<owner, locker>>
  BY <1>2, <1>3 DEF Enlist, TypeOK, WellFormed
<1>4. CASE \E o \in pend : Lock(s, o)
  <2>1. PICK o \in Objects : Lock(s, o)
    BY <1>1, <1>4
  <2>2. /\ owner' \in [Objects -> Sessions \cup {NoSession}]
        /\ locker' \in [Sessions -> LockerState]
        /\ \A t \in Sessions \ {s} : locker'[t] = locker[t]
        /\ locker'[s].rec = o
        /\ locker'[s].pc = "waiting" => locker'[s].on \in Sessions
    BY <1>1, <2>1, LockEffect
  <2> QED  BY <1>2, <2>2 DEF Enlist, TypeOK, WellFormed
<1> QED  BY <1>3, <1>4 DEF Enlist

LEMMA TypeLockNext ==
  ASSUME TypeInv, NEW s \in Sessions, LockNext(s)
  PROVE  TypeInv'
<1> USE DEF TypeInv, cacheVars, sessionVars
<1> DEFINE o == locker[s].rec
           pend == pending[s] \ {o}
<1>1. o \in Objects /\ pend \subseteq Objects
  BY DEF LockNext, TypeOK, WellFormed
<1>2. /\ locked' \in [Sessions -> SUBSET Objects]
      /\ pending' \in [Sessions -> SUBSET Objects]
      /\ reserved' \in [Objects -> Sessions \cup {NoSession}]
  BY <1>1 DEF LockNext, TypeOK
<1>3. CASE pend = {}
  <2>1. call' = Settle(s, "done")
    BY <1>3 DEF LockNext
  <2>2. /\ call' \in [Calls -> CallState]
        /\ \A c \in Calls : call'[c] = call[c] \/ call'[c].pc = "done"
    BY <2>1, SettleEffect
  <2>3. locker' \in [Sessions -> LockerState]
        /\ \A t \in Sessions : locker'[t] = locker[t] \/ locker'[t].pc = "idle"
    BY <1>3 DEF LockNext, TypeOK, IdleLocker, LockerState
  <2> QED  BY <1>2, <1>3, <2>3, <2>2 DEF LockNext, TypeOK, WellFormed
<1>4. CASE \E p \in pend : Lock(s, p) /\ UNCHANGED call
  <2>1. PICK p \in Objects : Lock(s, p)
    BY <1>1, <1>4
  <2>2. /\ owner' \in [Objects -> Sessions \cup {NoSession}]
        /\ locker' \in [Sessions -> LockerState]
        /\ \A t \in Sessions \ {s} : locker'[t] = locker[t]
        /\ locker'[s].rec = p
        /\ locker'[s].pc = "waiting" => locker'[s].on \in Sessions
    BY <2>1, LockEffect
  <2> QED  BY <1>2, <1>4, <2>2 DEF LockNext, TypeOK, WellFormed
<1> QED  BY <1>3, <1>4 DEF LockNext

LEMMA TypeLockRefused ==
  ASSUME TypeInv, NEW s \in Sessions, LockRefused(s)
  PROVE  TypeInv'
<1> USE DEF TypeInv, cacheVars, sessionVars
<1>1. /\ call' \in [Calls -> CallState]
      /\ \A c \in Calls : call'[c] = call[c] \/ call'[c].pc = "failed"
  <2>1. call' = Settle(s, "failed")
    BY DEF LockRefused
  <2> QED  BY <2>1, SettleEffect
<1>2. locker' \in [Sessions -> LockerState]
      /\ \A t \in Sessions : locker'[t] = locker[t] \/ locker'[t].pc = "idle"
  BY DEF LockRefused, TypeOK, IdleLocker, LockerState
<1>3. UNCHANGED <<cacheVars, owner, sessionVars, reserved, op>>
  BY DEF LockRefused
<1>4. WellFormed'
  <2>1. \A t \in Sessions : /\ locker'[t].pc # "idle" => locker'[t].rec \in Objects
                            /\ locker'[t].pc = "waiting" => locker'[t].on \in Sessions
    BY <1>2 DEF WellFormed
  <2>2. \A c \in Calls : call'[c].pc = "reserving" => call'[c].rec \in Objects
    BY <1>1 DEF WellFormed
  <2> QED  BY <1>3, <2>1, <2>2 DEF WellFormed
<1> QED  BY <1>1, <1>2, <1>3, <1>4 DEF TypeOK

LEMMA TypeLockResume ==
  ASSUME TypeInv, NEW s \in Sessions, LockResume(s)
  PROVE  TypeInv'
<1>1. /\ locker[s].pc = "waiting"
      /\ owner' = [owner EXCEPT ![locker[s].rec] = s]
      /\ locker' = [locker EXCEPT ![s].pc = "granted", ![s].on = NoSession]
      /\ UNCHANGED <<cacheVars, sessionVars, reserved, call, op>>
  BY DEF LockResume
<1>2. /\ locker \in [Sessions -> LockerState] /\ locker[s] \in LockerState
      /\ locker[s].rec \in Objects
  BY <1>1 DEF TypeInv, TypeOK, WellFormed
<1> DEFINE new == [locker[s] EXCEPT !.pc = "granted", !.on = NoSession]
<1>3. new \in LockerState /\ new.pc = "granted" /\ new.rec = locker[s].rec
  BY <1>2 DEF LockerState
<1>4. locker' = [locker EXCEPT ![s] = new]
  BY <1>1
<1> HIDE DEF new
<1>5. /\ locker' \in [Sessions -> LockerState]
      /\ \A t \in Sessions \ {s} : locker'[t] = locker[t]
      /\ locker'[s].pc = "granted" /\ locker'[s].rec \in Objects
  BY <1>2, <1>3, <1>4
<1>6. WellFormed'
  BY <1>1, <1>5 DEF TypeInv, WellFormed
<1>7. owner' \in [Objects -> Sessions \cup {NoSession}]
  BY <1>1, <1>2 DEF TypeInv, TypeOK
<1> QED  BY <1>1, <1>5, <1>6, <1>7 DEF TypeInv, TypeOK, cacheVars, sessionVars

LEMMA TypeReleaseRecords ==
  ASSUME TypeInv, NEW s \in Sessions, ReleaseRecords(s)
  PROVE  TypeInv'
BY DEF TypeInv, ReleaseRecords, TypeOK, WellFormed, cacheVars

LEMMA TypeOpStep ==
  ASSUME TypeInv, NEW p \in Ops, OpStep(p)
  PROVE  TypeInv'
<1> USE DEF TypeInv, cacheVars, sessionVars
<1>1. ASSUME NEW kind \in Kinds, NEW key \in Keys,
             NEW as \in Sessions \cup {NoSession}, OpStart(p, kind, key, as)
      PROVE  TypeInv'
  <2>1. /\ kind \in OpKinds
        /\ current[key] \in Objects
        /\ owner[current[key]] \in Sessions \cup {NoSession}
    BY <1>1, KindsAssumption DEF OpStart, TypeOK
  <2>2. op' \in [Ops -> OpState]
    BY <1>1, <2>1 DEF OpStart, TypeOK, OpState
  <2>3. \A q \in Ops : op'[q] = op[q] \/ (op'[q].pc = "waiting" =>
          op'[q].rec \in Objects /\ op'[q].on \in Sessions)
    BY <1>1, <2>1 DEF OpStart, MustWait, TypeOK
  <2> QED  BY <1>1, <2>2, <2>3 DEF OpStart, TypeOK, WellFormed
<1>2. ASSUME NEW key \in Keys, OpCreate(p, key) PROVE TypeInv'
  <2>1. [op[p] EXCEPT !.pc = "done", !.kind = "set", !.key = key] \in OpState
    <3>1. op[p] \in OpState /\ "set" \in OpKinds
      BY DEF TypeOK, OpKinds
    <3> QED  BY <3>1 DEF OpState
  <2>2. op' \in [Ops -> OpState]
    BY <1>2, <2>1 DEF OpCreate, TypeOK
  <2> QED  BY <1>2, <2>2 DEF OpCreate, PutRecord, TypeOK, WellFormed
<1>3. CASE OpResume(p)
  <2>1. [op[p] EXCEPT !.pc = "acting", !.on = NoSession] \in OpState
    BY DEF TypeOK, OpState
  <2>2. op' \in [Ops -> OpState]
    BY <1>3, <2>1 DEF OpResume, TypeOK
  <2> QED  BY <1>3, <2>2 DEF OpResume, TypeOK, WellFormed
<1>4. CASE OpAct(p)
  <2>1. op' \in [Ops -> OpState]
    <3>1. \A pc \in {"done", "dropped"} : [op[p] EXCEPT !.pc = pc] \in OpState
      BY DEF TypeOK, OpState
    <3>2. \E pc \in {"done", "dropped"} : op' = [op EXCEPT ![p].pc = pc]
      BY <1>4 DEF OpAct
    <3> QED  BY <3>1, <3>2 DEF TypeOK
  <2>2. /\ current' \in [Keys -> Objects \cup {NoObject}]
        /\ created' \in SUBSET Objects
    BY <1>4 DEF OpAct, PutRecord, TypeOK
  <2>3. \A q \in Ops : op'[q] = op[q] \/ op'[q].pc \in {"done", "dropped"}
    BY <1>4 DEF OpAct, TypeOK, OpState
  <2> QED  BY <1>4, <2>1, <2>2, <2>3 DEF OpAct, TypeOK, WellFormed
<1>7. ASSUME op' = [op EXCEPT ![p].pc = "done"]
      PROVE  /\ op' \in [Ops -> OpState]
             /\ \A q \in Ops : op'[q] = op[q] \/ op'[q].pc = "done"
  <2>1. op \in [Ops -> OpState] /\ op[p] \in OpState
    BY DEF TypeOK
  <2>2. [op[p] EXCEPT !.pc = "done"] \in OpState /\ [op[p] EXCEPT !.pc = "done"].pc = "done"
    BY <2>1 DEF OpState
  <2>3. op' = [op EXCEPT ![p] = [op[p] EXCEPT !.pc = "done"]]
    BY <1>7
  <2> QED  BY <2>1, <2>2, <2>3
<1>5. CASE OpFail(p)
  <2>1. /\ op' = [op EXCEPT ![p].pc = "done"]
        /\ UNCHANGED <<cacheVars, owner, sessionVars, reserved, locker, call>>
    BY <1>5 DEF OpFail
  <2>2. WellFormed'
    BY <1>7, <2>1 DEF WellFormed
  <2> QED  BY <1>7, <2>1, <2>2 DEF TypeOK
<1>6. CASE OpForget(p)
  <2>1. /\ op' = [op EXCEPT ![p].pc = "done"]
        /\ UNCHANGED <<cacheVars, owner, released, pending, reserved, locker, call>>
        /\ locked' = [locked EXCEPT ![op[p].as] = @ \ {op[p].rec}]
    BY <1>6 DEF OpForget
  <2>2. WellFormed'
    BY <1>7, <2>1 DEF WellFormed
  <2>3. locked' \in [Sessions -> SUBSET Objects]
    BY <2>1 DEF TypeOK
  <2> QED  BY <1>7, <2>1, <2>2, <2>3 DEF TypeOK
<1> QED  BY <1>1, <1>2, <1>3, <1>4, <1>5, <1>6 DEF OpStep

LEMMA TypeStep == TypeInv /\ [Next]_vars => TypeInv'
<1> SUFFICES ASSUME TypeInv, [Next]_vars PROVE TypeInv'
  OBVIOUS
<1>1. ASSUME NEW c \in Calls, CallStep(c) PROVE TypeInv'
  BY <1>1, TypeAcquire, TypeReservationResume, TypeEnlist DEF CallStep
<1>2. ASSUME NEW s \in Sessions, SessionStep(s) PROVE TypeInv'
  BY <1>2, TypeLockResume, TypeLockNext, TypeLockRefused, TypeReleaseRecords
     DEF SessionStep, Release, Timeout
<1>3. ASSUME NEW p \in Ops, OpStep(p) PROVE TypeInv'
  BY <1>3, TypeOpStep
<1>4. CASE UNCHANGED vars
  BY <1>4 DEF vars, TypeInv, TypeOK, WellFormed
<1> QED  BY <1>1, <1>2, <1>3, <1>4 DEF Next

(***************************************************************************)
(* Every variable keeps its type: in particular the sets a session keeps   *)
(* never hold the "undefined" of a key without a record.                   *)
(***************************************************************************)
THEOREM TypeCorrect == Spec => []TypeOK
<1>1. Spec => []TypeInv
  BY TypeInit, TypeStep, PTL DEF Spec
<1>2. TypeInv => TypeOK
  BY DEF TypeInv
<1> QED  BY <1>1, <1>2, PTL

(* A step starts with one of these. *)
LEMMA NextCases ==
  ASSUME [Next]_vars
  PROVE  \/ \E c \in Calls :
              \/ \E request \in Requests : Acquire(c, request)
              \/ ReservationResume(c)
              \/ Enlist(c)
         \/ \E s \in Sessions :
              \/ LockResume(s)
              \/ LockNext(s)
              \/ LockRefused(s)
              \/ ReleaseRecords(s) /\ ~released[s]
         \/ \E p \in Ops : OpStep(p)
         \/ UNCHANGED vars
BY DEF Next, CallStep, SessionStep, Release, Timeout

-----------------------------------------------------------------------------
(***************************************************************************)
(* Records and keys.  Whatever names a record names one that was created,  *)
(* so a record that enters the scope map is unknown to every session, call *)
(* and operation; a record leaves the map for good; and an operation's     *)
(* record is in the map, if at all, under the operation's key.             *)
(***************************************************************************)
OpLive(p) == op[p].pc \in {"waiting", "acting", "dropped"}

CreatedInv ==
  /\ \A k \in Keys : current[k] # NoObject => current[k] \in created
  /\ \A o \in Objects : owner[o] # NoSession => o \in created
  /\ \A s \in Sessions : /\ pending[s] \subseteq created
                         /\ locker[s].pc # "idle" => locker[s].rec \in created
  /\ \A c \in Calls : /\ call[c].got \subseteq created
                      /\ call[c].pc = "reserving" => call[c].rec \in created
  /\ \A p \in Ops : OpLive(p) => op[p].rec \in created

OneKeyEach ==
  \A j, k \in Keys : current[j] = current[k] /\ current[j] # NoObject => j = k

OpAtKey ==
  \A p \in Ops : OpLive(p) =>
    \A k \in Keys : current[k] = op[p].rec => k = op[p].key /\ op[p].pc # "dropped"

CacheInv == CreatedInv /\ OneKeyEach /\ OpAtKey

LEMMA CacheInit == Init => CacheInv
<1> SUFFICES ASSUME Init PROVE CacheInv
  OBVIOUS
<1>1. CreatedInv
  BY DEF Init, CreatedInv, InCache, IdleLocker, IdleCall, IdleOp, OpLive
<1>2. OneKeyEach
  BY DEF Init, OneKeyEach
<1>3. OpAtKey
  BY DEF Init, OpAtKey, OpLive, IdleOp
<1> QED  BY <1>1, <1>2, <1>3 DEF CacheInv

(* What the steps of calls and sessions leave alone. *)
LEMMA CacheInvKept ==
  ASSUME CacheInv, UNCHANGED <<cacheVars, op>>,
         \A o \in Objects : owner'[o] # NoSession => o \in created,
         \A s \in Sessions : /\ pending'[s] \subseteq created
                             /\ locker'[s].pc # "idle" => locker'[s].rec \in created,
         \A c \in Calls : /\ call'[c].got \subseteq created
                          /\ call'[c].pc = "reserving" => call'[c].rec \in created
  PROVE  CacheInv'
BY DEF CacheInv, CreatedInv, OneKeyEach, OpAtKey, OpLive, cacheVars

LEMMA CacheGather ==
  ASSUME TypeInv, CacheInv,
         NEW c \in Calls, NEW todo \in Seq(Keys), NEW got \in SUBSET created,
         NEW resv \in [Objects -> Sessions \cup {NoSession}],
         Gather(c, todo, got, resv)
  PROVE  \A d \in Calls : /\ call'[d].got \subseteq created
                          /\ call'[d].pc = "reserving" => call'[d].rec \in created
<1>1. TypeOK /\ got \in SUBSET Objects
  BY DEF TypeInv, TypeOK
<1>2. \A o \in Objects : InCache(o) => o \in created
  BY NoneAssumption DEF CacheInv, CreatedInv, InCache
<1>3. /\ call' \in [Calls -> CallState]
      /\ \A d \in Calls \ {c} : call'[d] = call[d]
      /\ \A o \in call'[c].got : o \in got \/ InCache(o)
      /\ call'[c].pc = "reserving" => call'[c].rec \in Objects /\ InCache(call'[c].rec)
  BY <1>1, GatherEffect
<1>4. call'[c].got \subseteq Objects
  BY <1>3 DEF CallState
<1> QED  BY <1>2, <1>3, <1>4 DEF CacheInv, CreatedInv

LEMMA CacheCallStep ==
  ASSUME TypeInv, CacheInv, NEW c \in Calls,
         \/ \E request \in Requests : Acquire(c, request)
         \/ ReservationResume(c)
         \/ Enlist(c)
  PROVE  CacheInv'
<1> USE DEF cacheVars, sessionVars
<1>1. ASSUME NEW request \in Requests, Acquire(c, request) PROVE CacheInv'
  <2>1. CASE released[Caller[c]]
    <3>1. \A d \in Calls : /\ call'[d].got = call[d].got
                           /\ call'[d] = call[d] \/ call'[d].pc = "failed"
      BY <1>1, <2>1, CallPcEffect DEF Acquire, Gather, TypeInv
    <3> QED  BY <1>1, <3>1, CacheInvKept DEF Acquire, CacheInv, CreatedInv
  <2>2. CASE ~released[Caller[c]]
    <3>1. Gather(c, request, {}, reserved) /\ request \in Seq(Keys)
          /\ reserved \in [Objects -> Sessions \cup {NoSession}]
      BY <1>1, <2>2, RequestsAssumption DEF Acquire, TypeInv, TypeOK
    <3>2. \A d \in Calls : /\ call'[d].got \subseteq created
                           /\ call'[d].pc = "reserving" => call'[d].rec \in created
      BY <3>1, CacheGather
    <3> QED  BY <1>1, <3>2, CacheInvKept DEF Acquire, CacheInv, CreatedInv
  <2> QED  BY <2>1, <2>2
<1>2. CASE ReservationResume(c)
  <2> DEFINE todo == call[c].todo
             got  == call[c].got \cup {call[c].rec}
             resv == [reserved EXCEPT ![call[c].rec] = Caller[c]]
  <2>1. /\ todo \in Seq(Keys)
        /\ got \in SUBSET created
        /\ resv \in [Objects -> Sessions \cup {NoSession}]
    BY <1>2, CallerAssumption
       DEF ReservationResume, TypeInv, TypeOK, WellFormed, CallState, CacheInv, CreatedInv
  <2>2. Gather(c, todo, got, resv)
    BY <1>2 DEF ReservationResume
  <2> HIDE DEF todo, got, resv
  <2>3. \A d \in Calls : /\ call'[d].got \subseteq created
                         /\ call'[d].pc = "reserving" => call'[d].rec \in created
    BY <2>1, <2>2, CacheGather
  <2> QED  BY <1>2, <2>3, CacheInvKept DEF ReservationResume, CacheInv, CreatedInv
<1>3. CASE Enlist(c)
  <2> DEFINE s == Caller[c]
             pend == pending[s] \cup call[c].got
  <2>1. s \in Sessions /\ pend \subseteq created /\ TypeOK
    BY CallerAssumption DEF TypeInv, CacheInv, CreatedInv
  <2>2. pending' = [pending EXCEPT ![s] = pend]
    BY <1>3 DEF Enlist
  <2>3. \A t \in Sessions : pending'[t] \subseteq created
    BY <2>1, <2>2 DEF TypeOK, CacheInv, CreatedInv
  <2>4. \E pc \in {"done", "locking"} : call' = [call EXCEPT ![c].pc = pc]
    BY <1>3 DEF Enlist
  <2>5. \A d \in Calls : /\ call'[d].got = call[d].got
                         /\ call'[d] = call[d] \/ call'[d].pc \in {"done", "locking"}
    BY <2>1, <2>4, CallPcEffect
  <2>6. \A d \in Calls : /\ call'[d].got \subseteq created
                         /\ call'[d].pc = "reserving" => call'[d].rec \in created
    BY <2>5 DEF CacheInv, CreatedInv
  <2>7. CASE UNCHANGED <<owner, locker>>
    BY <1>3, <2>3, <2>6, <2>7, CacheInvKept DEF Enlist, CacheInv, CreatedInv
  <2>8. CASE \E o \in pend : Lock(s, o)
    <3>1. PICK o \in pend : Lock(s, o)
      BY <2>8
    <3>2. o \in Objects /\ o \in created
      BY <2>1 DEF TypeOK
    <3>3. /\ \A t \in Sessions \ {s} : locker'[t] = locker[t]
          /\ locker'[s].rec = o
          /\ \A r \in Objects : r = o \/ owner'[r] = owner[r]
      BY <2>1, <3>1, <3>2, LockEffect DEF TypeOK
    <3> QED  BY <1>3, <2>3, <2>6, <3>2, <3>3, CacheInvKept DEF Enlist, CacheInv, CreatedInv
  <2> QED  BY <1>3, <2>7, <2>8 DEF Enlist
<1> QED  BY <1>1, <1>2, <1>3

LEMMA CacheSessionStep ==
  ASSUME TypeInv, CacheInv, NEW s \in Sessions,
         LockResume(s) \/ LockNext(s) \/ LockRefused(s) \/ ReleaseRecords(s)
  PROVE  CacheInv'
<1> USE DEF cacheVars, sessionVars
<1>1. CASE LockResume(s)
  <2>1. \A t \in Sessions : locker'[t] = locker[t]
                            \/ (locker[t].pc # "idle" /\ locker'[t].rec = locker[t].rec)
    BY <1>1 DEF LockResume, TypeInv, TypeOK, LockerState
  <2>2. \A o \in Objects : owner'[o] # NoSession => o \in created
    BY <1>1 DEF LockResume, TypeInv, TypeOK, CacheInv, CreatedInv
  <2> QED  BY <1>1, <2>1, <2>2, CacheInvKept DEF LockResume, CacheInv, CreatedInv
<1>2. CASE LockNext(s)
  <2> DEFINE pend == pending[s] \ {locker[s].rec}
  <2>1. \A t \in Sessions : pending'[t] \subseteq created
    BY <1>2 DEF LockNext, TypeInv, TypeOK, CacheInv, CreatedInv
  <2>2. CASE pend = {}
    <3>1. call' = Settle(s, "done") /\ UNCHANGED owner
      BY <1>2, <2>2 DEF LockNext
    <3>2. \A c \in Calls : /\ call'[c].got = call[c].got
                           /\ call'[c] = call[c] \/ call'[c].pc = "done"
      BY <3>1, SettleEffect DEF TypeInv
    <3>3. \A t \in Sessions : locker'[t] = locker[t] \/ locker'[t].pc = "idle"
      BY <1>2, <2>2 DEF LockNext, TypeInv, TypeOK, IdleLocker
    <3> QED  BY <1>2, <2>1, <3>1, <3>2, <3>3, CacheInvKept DEF LockNext, CacheInv, CreatedInv
  <2>3. CASE (\E o \in pend : Lock(s, o)) /\ UNCHANGED call
    <3>1. PICK o \in pend : Lock(s, o)
      BY <2>3
    <3>2. o \in Objects /\ o \in created
      BY DEF TypeInv, TypeOK, CacheInv, CreatedInv
    <3>3. /\ \A t \in Sessions \ {s} : locker'[t] = locker[t]
          /\ locker'[s].rec = o
          /\ \A r \in Objects : r = o \/ owner'[r] = owner[r]
      BY <3>1, <3>2, LockEffect DEF TypeInv, TypeOK
    <3> QED  BY <1>2, <2>1, <2>3, <3>2, <3>3, CacheInvKept DEF LockNext, CacheInv, CreatedInv
  <2> QED  BY <1>2, <2>2, <2>3 DEF LockNext
<1>3. CASE LockRefused(s)
  <2>1. call' = Settle(s, "failed")
    BY <1>3 DEF LockRefused
  <2>2. \A c \in Calls : /\ call'[c].got = call[c].got
                         /\ call'[c] = call[c] \/ call'[c].pc = "failed"
    BY <2>1, SettleEffect DEF TypeInv
  <2>3. \A t \in Sessions : locker'[t] = locker[t] \/ locker'[t].pc = "idle"
    BY <1>3 DEF LockRefused, TypeInv, TypeOK, IdleLocker
  <2> QED  BY <1>3, <2>2, <2>3, CacheInvKept DEF LockRefused, CacheInv, CreatedInv
<1>4. CASE ReleaseRecords(s)
  <2>1. \A o \in Objects : owner'[o] # NoSession => owner'[o] = owner[o]
    BY <1>4 DEF ReleaseRecords
  <2> QED  BY <1>4, <2>1, CacheInvKept DEF ReleaseRecords, CacheInv, CreatedInv
<1> QED  BY <1>1, <1>2, <1>3, <1>4

(***************************************************************************)
(* The shape of an operation's step: only op[p] moves, the scope map takes *)
(* a record never seen before or loses the operation's key, and a session  *)
(* forgets at most the record of an operation that has dropped it.         *)
(***************************************************************************)
OpUnmoved(p) ==
  /\ UNCHANGED <<owner, released, pending, reserved, locker, call>>
  /\ \A q \in Ops \ {p} : op'[q] = op[q]

OpBegins(p) ==
  /\ UNCHANGED <<cacheVars, locked>>
  /\ op'[p].pc \in {"waiting", "acting"}
  /\ op'[p].key \in Keys
  /\ op'[p].rec = current[op'[p].key]
  /\ op'[p].rec \in Objects
  /\ op'[p].pc = "waiting" =>
       op'[p].on = owner[op'[p].rec] /\ op'[p].on \in Sessions

OpPuts(p) ==
  /\ op'[p].pc = "done"
  /\ \E key \in Keys : PutRecord(key)
  /\ UNCHANGED locked

OpDrops(p) ==
  /\ op[p].pc = "acting"
  /\ op'[p].pc \in {"done", "dropped"}
  /\ op'[p].rec = op[p].rec /\ op'[p].key = op[p].key
  /\ current' = [current EXCEPT ![op[p].key] = NoObject]
  /\ UNCHANGED <<created, locked>>

OpGoesOn(p) ==
  /\ op'[p].pc = "done" \/ (op[p].pc = "waiting" /\ op'[p].pc = "acting")
  /\ op'[p].rec = op[p].rec /\ op'[p].key = op[p].key
  /\ UNCHANGED cacheVars
  /\ \/ UNCHANGED locked
     \/ /\ op[p].pc = "dropped"
        /\ \A t \in Sessions : locked[t] \ {op[p].rec} \subseteq locked'[t]

LEMMA OpPcEffect ==
  ASSUME TypeOK, NEW p \in Ops, NEW pc \in {"done", "dropped"},
         op' = [op EXCEPT ![p].pc = pc]
  PROVE  /\ \A q \in Ops \ {p} : op'[q] = op[q]
         /\ op'[p].pc = pc /\ op'[p].rec = op[p].rec /\ op'[p].key = op[p].key
<1>1. op' = [op EXCEPT ![p] = [op[p] EXCEPT !.pc = pc]]
  OBVIOUS
<1>2. LET r == [op[p] EXCEPT !.pc = pc]
      IN r.pc = pc /\ r.rec = op[p].rec /\ r.key = op[p].key
  BY DEF TypeOK, OpState
<1> QED  BY <1>1, <1>2 DEF TypeOK

LEMMA OpEffect ==
  ASSUME TypeInv, NEW p \in Ops, OpStep(p)
  PROVE  /\ OpUnmoved(p)
         /\ OpBegins(p) \/ OpPuts(p) \/ OpDrops(p) \/ OpGoesOn(p)
<1> USE DEF cacheVars, sessionVars, TypeInv, OpUnmoved
<1>1. ASSUME NEW kind \in Kinds, NEW key \in Keys,
             NEW as \in Sessions \cup {NoSession}, OpStart(p, kind, key, as)
      PROVE  OpUnmoved(p) /\ OpBegins(p)
  <2> DEFINE o == current[key]
  <2>1. o \in Objects /\ owner[o] \in Sessions \cup {NoSession}
    BY <1>1 DEF OpStart, TypeOK
  <2>2. /\ \A q \in Ops \ {p} : op'[q] = op[q]
        /\ \/ /\ op'[p].pc = "waiting" /\ op'[p].on = owner[o]
              /\ MustWait(kind, as, o)
           \/ op'[p].pc = "acting"
        /\ op'[p].key = key /\ op'[p].rec = o
    BY <1>1 DEF OpStart, TypeOK
  <2>3. op'[p].pc = "waiting" => op'[p].on \in Sessions
    BY <2>1, <2>2 DEF MustWait
  <2> QED  BY <1>1, <2>1, <2>2, <2>3 DEF OpStart, OpBegins
<1>2. ASSUME NEW key \in Keys, OpCreate(p, key)
      PROVE  OpUnmoved(p) /\ OpPuts(p)
  <2>1. op' = [op EXCEPT ![p] = [op[p] EXCEPT !.pc = "done", !.kind = "set", !.key = key]]
    BY <1>2 DEF OpCreate
  <2>2. [op[p] EXCEPT !.pc = "done", !.kind = "set", !.key = key].pc = "done"
    BY DEF TypeOK, OpState
  <2>3. op'[p].pc = "done" /\ \A q \in Ops \ {p} : op'[q] = op[q]
    BY <2>1, <2>2 DEF TypeOK
  <2> QED  BY <1>2, <2>3 DEF OpCreate, OpPuts
<1>3. CASE OpResume(p)
  <2>1. op' = [op EXCEPT ![p] = [op[p] EXCEPT !.pc = "acting", !.on = NoSession]]
    BY <1>3 DEF OpResume
  <2>2. LET r == [op[p] EXCEPT !.pc = "acting", !.on = NoSession]
        IN r.pc = "acting" /\ r.rec = op[p].rec /\ r.key = op[p].key
    BY DEF TypeOK, OpState
  <2>3. /\ \A q \in Ops \ {p} : op'[q] = op[q]
        /\ op'[p].pc = "acting" /\ op'[p].rec = op[p].rec /\ op'[p].key = op[p].key
    BY <2>1, <2>2 DEF TypeOK
  <2> QED  BY <1>3, <2>3 DEF OpResume, OpGoesOn
<1>4. CASE OpAct(p)
  <2>1. \E pc \in {"done", "dropped"} : op' = [op EXCEPT ![p].pc = pc]
    BY <1>4 DEF OpAct
  <2>2. /\ \A q \in Ops \ {p} : op'[q] = op[q]
        /\ op'[p].pc \in {"done", "dropped"}
        /\ op'[p].rec = op[p].rec /\ op'[p].key = op[p].key
    BY <2>1, OpPcEffect
  <2>3. op[p].key \in Keys /\ op[p].pc = "acting"
    BY <1>4 DEF OpAct, TypeOK, OpState
  <2>4. CASE op[p].kind = "set" /\ PutRecord(op[p].key) /\ op' = [op EXCEPT ![p].pc = "done"]
    <3>1. op'[p].pc = "done"
      BY <2>4, OpPcEffect
    <3> QED  BY <1>4, <2>2, <2>3, <2>4, <3>1 DEF OpAct, OpPuts
  <2>5. CASE current' = [current EXCEPT ![op[p].key] = NoObject] /\ UNCHANGED created
    BY <1>4, <2>2, <2>3, <2>5 DEF OpAct, OpDrops
  <2>6. CASE op' = [op EXCEPT ![p].pc = "done"] /\ UNCHANGED cacheVars
    <3>1. op'[p].pc = "done"
      BY <2>6, OpPcEffect
    <3>2. /\ UNCHANGED <<owner, released, pending, reserved, locker, call, locked>>
          /\ UNCHANGED cacheVars
      BY <1>4, <2>6 DEF OpAct
    <3> QED  BY <2>2, <3>1, <3>2 DEF OpGoesOn
  <2> QED  BY <1>4, <2>4, <2>5, <2>6 DEF OpAct
<1>5. CASE OpFail(p)
  <2>1. op' = [op EXCEPT ![p].pc = "done"]
    BY <1>5 DEF OpFail
  <2>2. /\ \A q \in Ops \ {p} : op'[q] = op[q]
        /\ op'[p].pc = "done" /\ op'[p].rec = op[p].rec /\ op'[p].key = op[p].key
    BY <2>1, OpPcEffect
  <2>3. /\ UNCHANGED <<owner, released, pending, reserved, locker, call, locked>>
        /\ UNCHANGED cacheVars
    BY <1>5 DEF OpFail
  <2> QED  BY <2>2, <2>3 DEF OpGoesOn
<1>6. CASE OpForget(p)
  <2>1. op' = [op EXCEPT ![p].pc = "done"]
    BY <1>6 DEF OpForget
  <2>2. /\ op[p].pc = "dropped"
        /\ \A t \in Sessions : locked[t] \ {op[p].rec} \subseteq locked'[t]
    BY <1>6 DEF OpForget, TypeOK
  <2>3. /\ \A q \in Ops \ {p} : op'[q] = op[q]
        /\ op'[p].pc = "done" /\ op'[p].rec = op[p].rec /\ op'[p].key = op[p].key
    BY <2>1, OpPcEffect
  <2>4. /\ UNCHANGED <<owner, released, pending, reserved, locker, call>>
        /\ UNCHANGED cacheVars
    BY <1>6 DEF OpForget
  <2> QED  BY <2>2, <2>3, <2>4 DEF OpGoesOn
<1> QED  BY <1>1, <1>2, <1>3, <1>4, <1>5, <1>6 DEF OpStep

LEMMA CacheOpStep ==
  ASSUME TypeInv, CacheInv, NEW p \in Ops, OpStep(p)
  PROVE  CacheInv'
<1> USE DEF OpLive, cacheVars
<1>0. TypeOK /\ OpUnmoved(p)
  BY OpEffect DEF TypeInv
<1>1. CASE OpBegins(p)
  <2>1. op'[p].rec \in created
    BY <1>1, NoneAssumption DEF OpBegins, CacheInv, CreatedInv
  <2>2. CreatedInv' /\ OneKeyEach'
    BY <1>0, <1>1, <2>1 DEF OpBegins, OpUnmoved, CacheInv, CreatedInv, OneKeyEach
  <2>3. OpAtKey'
    <3>1. \A k \in Keys : current[k] = op'[p].rec => k = op'[p].key
      BY <1>1, NoneAssumption DEF OpBegins, CacheInv, OneKeyEach
    <3> QED  BY <1>0, <1>1, <3>1 DEF OpBegins, OpUnmoved, CacheInv, OpAtKey
  <2> QED  BY <2>2, <2>3 DEF CacheInv
<1>2. CASE OpPuts(p)
  <2>1. PICK key \in Keys, o \in Objects \ created :
          current' = [current EXCEPT ![key] = o] /\ created' = created \cup {o}
    BY <1>2 DEF OpPuts, PutRecord
  <2>2. \A q \in Ops : OpLive(q)' => q # p /\ op'[q] = op[q]
    BY <1>0, <1>2 DEF OpPuts, OpUnmoved
  <2>3. CreatedInv'
    BY <1>0, <2>1, <2>2 DEF TypeOK, OpUnmoved, CacheInv, CreatedInv
  <2>4. OneKeyEach'
    BY <1>0, <2>1 DEF TypeOK, CacheInv, CreatedInv, OneKeyEach
  <2>5. OpAtKey'
    BY <1>0, <2>1, <2>2 DEF TypeOK, CacheInv, CreatedInv, OpAtKey
  <2> QED  BY <2>3, <2>4, <2>5 DEF CacheInv
<1>3. CASE OpDrops(p)
  <2>1. \A k \in Keys : (current'[k] = current[k] /\ k # op[p].key) \/ current'[k] = NoObject
    BY <1>0, <1>3 DEF OpDrops, TypeOK
  <2>2. created' = created /\ created \subseteq Objects
    BY <1>0, <1>3 DEF OpDrops, TypeOK
  <2>3. CreatedInv'
    BY <1>0, <1>3, <2>1, <2>2 DEF OpDrops, OpUnmoved, CacheInv, CreatedInv
  <2>4. OneKeyEach'
    BY <2>1 DEF CacheInv, OneKeyEach
  <2>5. ASSUME NEW q \in Ops, OpLive(q)', NEW k \in Keys, current'[k] = op'[q].rec
        PROVE  k = op'[q].key /\ op'[q].pc # "dropped"
    <3>1. OpLive(q) /\ op'[q].rec = op[q].rec /\ op'[q].key = op[q].key
          /\ (op'[q].pc = op[q].pc \/ q = p)
      BY <1>0, <1>3, <2>5 DEF OpDrops, OpUnmoved
    <3>2. op[q].rec # NoObject
      BY <3>1, <2>2, NoneAssumption DEF CacheInv, CreatedInv
    <3>3. current[k] = op[q].rec /\ k # op[p].key
      BY <2>1, <2>5, <3>1, <3>2
    <3> QED  BY <3>1, <3>3 DEF CacheInv, OpAtKey
  <2>6. OpAtKey'
    BY <2>5 DEF OpAtKey
  <2> QED  BY <2>3, <2>4, <2>6 DEF CacheInv
<1>4. CASE OpGoesOn(p)
  <2>1. \A q \in Ops : OpLive(q)' => /\ OpLive(q)
                                     /\ op'[q].rec = op[q].rec /\ op'[q].key = op[q].key
                                     /\ op'[q].pc = "dropped" => op[q].pc = "dropped"
    BY <1>0, <1>4 DEF OpGoesOn, OpUnmoved
  <2> QED  BY <1>0, <1>4, <2>1 DEF OpGoesOn, OpUnmoved, CacheInv, CreatedInv, OneKeyEach, OpAtKey
<1> QED  BY <1>1, <1>2, <1>3, <1>4, OpEffect

LEMMA CacheStep == TypeInv /\ CacheInv /\ [Next]_vars => CacheInv'
<1> SUFFICES ASSUME TypeInv, CacheInv, [Next]_vars PROVE CacheInv'
  OBVIOUS
<1>1. CASE UNCHANGED vars
  BY <1>1 DEF vars, CacheInv, CreatedInv, OneKeyEach, OpAtKey, OpLive
<1> QED  BY <1>1, CacheCallStep, CacheSessionStep, CacheOpStep, NextCases

-----------------------------------------------------------------------------
(***************************************************************************)
(* Holding.  Five facts about a step: a record enters the scope map only   *)
(* as a new one, a released session stays released, what a session holds   *)
(* it keeps until it is released or the record is gone, who is named as a  *)
(* record's session holds it, and who begins to wait waits for the session *)
(* the record names.                                                       *)
(***************************************************************************)
LEMMA MapGrowsByNew ==
  ASSUME TypeInv, CacheInv, [Next]_vars, NEW o \in created, InCache(o)'
  PROVE  InCache(o)
<1>1. CASE UNCHANGED current
  BY <1>1 DEF InCache
<1>2. ASSUME NEW p \in Ops, OpStep(p) PROVE InCache(o)
  <2>0. o \in Objects
    BY DEF TypeInv, TypeOK
  <2>1. CASE OpBegins(p) \/ OpGoesOn(p)
    BY <1>1, <2>1 DEF OpBegins, OpGoesOn, cacheVars
  <2>2. CASE OpPuts(p)
    BY <2>2 DEF OpPuts, PutRecord, InCache, TypeInv, TypeOK
  <2>3. CASE OpDrops(p)
    BY <2>0, <2>3, NoneAssumption DEF OpDrops, InCache, TypeInv, TypeOK
  <2> QED  BY <1>2, <2>1, <2>2, <2>3, OpEffect
<1>3. ASSUME NEW c \in Calls,
             \/ \E request \in Requests : Acquire(c, request)
             \/ ReservationResume(c)
             \/ Enlist(c)
      PROVE  UNCHANGED current
  BY <1>3 DEF Acquire, ReservationResume, Enlist, cacheVars
<1>4. ASSUME NEW s \in Sessions,
             LockResume(s) \/ LockNext(s) \/ LockRefused(s) \/ ReleaseRecords(s)
      PROVE  UNCHANGED current
  BY <1>4 DEF LockResume, LockNext, LockRefused, ReleaseRecords, cacheVars
<1> QED  BY <1>1, <1>2, <1>3, <1>4, NextCases DEF vars

LEMMA ReleasedStays ==
  ASSUME TypeInv, [Next]_vars, NEW s \in Sessions, released[s]
  PROVE  released'[s]
<1>1. ASSUME NEW p \in Ops, OpStep(p) PROVE released'[s]
  BY <1>1, OpEffect DEF OpUnmoved
<1>2. ASSUME NEW c \in Calls,
             \/ \E request \in Requests : Acquire(c, request)
             \/ ReservationResume(c)
             \/ Enlist(c)
      PROVE  released'[s]
  BY <1>2 DEF Acquire, ReservationResume, Enlist, sessionVars
<1>3. ASSUME NEW t \in Sessions,
             LockResume(t) \/ LockNext(t) \/ LockRefused(t) \/ ReleaseRecords(t)
      PROVE  released'[s]
  BY <1>3 DEF LockResume, LockNext, LockRefused, ReleaseRecords, sessionVars, TypeInv, TypeOK
<1> QED  BY <1>1, <1>2, <1>3, NextCases DEF vars

LEMMA LockedKept ==
  ASSUME TypeInv, CacheInv, [Next]_vars,
         NEW s \in Sessions, NEW o \in locked[s], InCache(o), ~released'[s]
  PROVE  o \in locked'[s]
<1>1. ASSUME NEW p \in Ops, OpStep(p) PROVE o \in locked'[s]
  <2>1. CASE UNCHANGED locked
    BY <2>1
  <2>2. CASE OpGoesOn(p) /\ op[p].pc = "dropped"
    <3>1. o # op[p].rec
      BY <2>2 DEF CacheInv, OpAtKey, OpLive, InCache
    <3>2. CASE \A t \in Sessions : locked[t] \ {op[p].rec} \subseteq locked'[t]
      BY <3>1, <3>2
    <3> QED  BY <2>1, <2>2, <3>2 DEF OpGoesOn
  <2> QED  BY <1>1, <2>1, <2>2, OpEffect DEF OpBegins, OpPuts, OpDrops, OpGoesOn
<1>2. ASSUME NEW c \in Calls,
             \/ \E request \in Requests : Acquire(c, request)
             \/ ReservationResume(c)
             \/ Enlist(c)
      PROVE  o \in locked'[s]
  BY <1>2 DEF Acquire, ReservationResume, Enlist, sessionVars
<1>3. ASSUME NEW t \in Sessions,
             LockResume(t) \/ LockNext(t) \/ LockRefused(t)
      PROVE  o \in locked'[s]
  BY <1>3 DEF LockResume, LockNext, LockRefused, sessionVars, TypeInv, TypeOK
<1>4. ASSUME NEW t \in Sessions, ReleaseRecords(t) PROVE o \in locked'[s]
  BY <1>4 DEF ReleaseRecords, TypeInv, TypeOK
<1> QED  BY <1>1, <1>2, <1>3, <1>4, NextCases DEF vars

LEMMA GrantKept ==
  ASSUME TypeInv, [Next]_vars, NEW s \in Sessions, locker[s].pc = "granted"
  PROVE  \/ locker'[s] = locker[s]
         \/ locker[s].rec \in locked'[s]
<1>1. ASSUME NEW p \in Ops, OpStep(p) PROVE locker'[s] = locker[s]
  BY <1>1, OpEffect DEF OpUnmoved
<1>2. ASSUME NEW c \in Calls,
             (\E request \in Requests : Acquire(c, request)) \/ ReservationResume(c)
      PROVE  locker'[s] = locker[s]
  BY <1>2 DEF Acquire, ReservationResume
<1>3. ASSUME NEW c \in Calls, Enlist(c) PROVE locker'[s] = locker[s]
  <2>1. CASE UNCHANGED locker
    BY <2>1
  <2>2. CASE locker[Caller[c]].pc = "idle"
             /\ \E o \in pending[Caller[c]] \cup call[c].got : Lock(Caller[c], o)
    <3>1. Caller[c] \in Sessions /\ Caller[c] # s
      BY <2>2, CallerAssumption
    <3>2. PICK o \in Objects : Lock(Caller[c], o)
      BY <2>2, <3>1 DEF TypeInv, TypeOK, CallState
    <3> QED  BY <3>1, <3>2, LockEffect DEF TypeInv
  <2> QED  BY <1>3, <2>1, <2>2 DEF Enlist
<1>4. ASSUME NEW t \in Sessions, LockResume(t) \/ LockRefused(t) \/ ReleaseRecords(t)
      PROVE  locker'[s] = locker[s]
  BY <1>4 DEF LockResume, LockRefused, ReleaseRecords, TypeInv, TypeOK
<1>5. ASSUME LockNext(s) PROVE locker[s].rec \in locked'[s]
  BY <1>5 DEF LockNext, TypeInv, TypeOK
<1>6. ASSUME NEW t \in Sessions \ {s}, LockNext(t) PROVE locker'[s] = locker[s]
  <2>1. CASE UNCHANGED call
    <3>1. CASE locker' = [locker EXCEPT ![t] = IdleLocker]
      BY <3>1 DEF TypeInv, TypeOK
    <3>2. CASE \E o \in pending[t] \ {locker[t].rec} : Lock(t, o)
      <4>1. PICK o \in Objects : Lock(t, o)
        BY <3>2 DEF TypeInv, TypeOK
      <4> QED  BY <4>1, LockEffect DEF TypeInv
    <3> QED  BY <1>6, <3>1, <3>2 DEF LockNext
  <2>2. CASE locker' = [locker EXCEPT ![t] = IdleLocker]
    BY <2>2 DEF TypeInv, TypeOK
  <2> QED  BY <1>6, <2>1, <2>2 DEF LockNext
<1> QED  BY <1>1, <1>2, <1>3, <1>4, <1>5, <1>6, NextCases DEF vars

LEMMA HoldsKept ==
  ASSUME TypeInv, CacheInv, [Next]_vars,
         NEW s \in Sessions, NEW o \in Objects, Holds(s, o), InCache(o)
  PROVE  released'[s] \/ Holds(s, o)'
BY LockedKept, GrantKept DEF Holds

(* What a step does to a record's session and to a lock loop that waits. *)
OwnerStep ==
  \A o \in Objects :
    \/ owner'[o] = owner[o]
    \/ owner'[o] = NoSession /\ released'[owner[o]]
    \/ \E s \in Sessions :
         /\ owner'[o] = s
         /\ locker'[s].pc = "granted" /\ locker'[s].rec = o
         /\ \/ owner[o] = NoSession
            \/ /\ locker[s].pc = "waiting" /\ locker[s].rec = o
               /\ released[locker[s].on]

WaitStep ==
  \A s \in Sessions : locker'[s].pc = "waiting" =>
    \/ locker'[s] = locker[s]
    \/ /\ locker'[s].rec \in Objects
       /\ locker'[s].on = owner'[locker'[s].rec]
       /\ locker'[s].on \in Sessions

LEMMA LockStep ==
  ASSUME TypeInv, NEW s \in Sessions, NEW o \in Objects, Lock(s, o)
  PROVE  OwnerStep /\ WaitStep
<1>1. /\ \A t \in Sessions \ {s} : locker'[t] = locker[t]
      /\ locker'[s].rec = o
      /\ \/ /\ owner[o] = NoSession
            /\ owner' = [owner EXCEPT ![o] = s]
            /\ locker'[s].pc = "granted"
         \/ owner' = owner
      /\ locker'[s].pc = "waiting" =>
           locker'[s].on = owner[o] /\ owner[o] \in Sessions
  BY LockEffect DEF TypeInv
<1>2. OwnerStep
  <2>1. CASE owner' = owner
    BY <2>1 DEF OwnerStep
  <2>2. CASE owner' = [owner EXCEPT ![o] = s] /\ owner[o] = NoSession
             /\ locker'[s].pc = "granted"
    BY <1>1, <2>2 DEF OwnerStep, TypeInv, TypeOK
  <2> QED  BY <1>1, <2>1, <2>2
<1>3. locker'[s].pc = "waiting" => owner' = owner
  BY DEF Lock, TypeInv, TypeOK, LockerState
<1> QED  BY <1>1, <1>2, <1>3 DEF WaitStep

(* An operation begins to wait for the session its record names.          *)
LEMMA OpWaitStep ==
  ASSUME TypeInv, [Next]_vars, NEW p \in Ops, op'[p].pc = "waiting"
  PROVE  op'[p] = op[p] \/ op'[p].on = owner'[op'[p].rec]
<1>1. ASSUME NEW q \in Ops, OpStep(q), op'[p] # op[p]
      PROVE  op'[p].on = owner'[op'[p].rec]
  <2>1. p = q /\ OpBegins(p) /\ UNCHANGED owner
    BY <1>1, OpEffect DEF OpUnmoved, OpPuts, OpDrops, OpGoesOn
  <2> QED  BY <2>1 DEF OpBegins
<1>2. ASSUME NEW c \in Calls,
             \/ \E request \in Requests : Acquire(c, request)
             \/ ReservationResume(c)
             \/ Enlist(c)
      PROVE  UNCHANGED op
  BY <1>2 DEF Acquire, ReservationResume, Enlist
<1>3. ASSUME NEW s \in Sessions,
             LockResume(s) \/ LockNext(s) \/ LockRefused(s) \/ ReleaseRecords(s)
      PROVE  UNCHANGED op
  BY <1>3 DEF LockResume, LockNext, LockRefused, ReleaseRecords
<1> QED  BY <1>1, <1>2, <1>3, NextCases DEF vars

LEMMA HoldStep == TypeInv /\ [Next]_vars => OwnerStep /\ WaitStep
<1> SUFFICES ASSUME TypeInv, [Next]_vars PROVE OwnerStep /\ WaitStep
  OBVIOUS
<1>1. CASE UNCHANGED <<owner, locker>>
  BY <1>1 DEF OwnerStep, WaitStep
<1>2. ASSUME NEW p \in Ops, OpStep(p) PROVE UNCHANGED <<owner, locker>>
  BY <1>2, OpEffect DEF OpUnmoved
<1>3. ASSUME NEW c \in Calls,
             (\E request \in Requests : Acquire(c, request)) \/ ReservationResume(c)
      PROVE  UNCHANGED <<owner, locker>>
  BY <1>3 DEF Acquire, ReservationResume
<1>4. ASSUME NEW c \in Calls, Enlist(c) PROVE OwnerStep /\ WaitStep
  <2>1. CASE \E o \in pending[Caller[c]] \cup call[c].got : Lock(Caller[c], o)
    <3>1. PICK o \in Objects : Lock(Caller[c], o)
      BY <2>1, CallerAssumption DEF TypeInv, TypeOK, CallState
    <3> QED  BY <3>1, CallerAssumption, LockStep
  <2> QED  BY <1>1, <1>4, <2>1 DEF Enlist
<1>5. ASSUME NEW s \in Sessions, LockResume(s) PROVE OwnerStep /\ WaitStep
  <2>1. /\ locker[s].pc = "waiting" /\ released[locker[s].on]
        /\ locker[s].rec \in Objects
        /\ owner' = [owner EXCEPT ![locker[s].rec] = s]
        /\ \A t \in Sessions \ {s} : locker'[t] = locker[t]
        /\ locker'[s].pc = "granted" /\ locker'[s].rec = locker[s].rec
    BY <1>5 DEF LockResume, TypeInv, TypeOK, WellFormed, LockerState
  <2> QED  BY <2>1 DEF OwnerStep, WaitStep, TypeInv, TypeOK
<1>6. ASSUME NEW s \in Sessions, LockNext(s) PROVE OwnerStep /\ WaitStep
  <2>1. CASE \E o \in pending[s] \ {locker[s].rec} : Lock(s, o)
    <3>1. PICK o \in Objects : Lock(s, o)
      BY <2>1 DEF TypeInv, TypeOK
    <3> QED  BY <3>1, LockStep
  <2>2. CASE locker' = [locker EXCEPT ![s] = IdleLocker] /\ UNCHANGED owner
    BY <2>2 DEF OwnerStep, WaitStep, IdleLocker, TypeInv, TypeOK
  <2> QED  BY <1>6, <2>1, <2>2 DEF LockNext
<1>7. ASSUME NEW s \in Sessions, LockRefused(s) PROVE OwnerStep /\ WaitStep
  BY <1>7 DEF LockRefused, OwnerStep, WaitStep, IdleLocker, TypeInv, TypeOK
<1>8. ASSUME NEW s \in Sessions, ReleaseRecords(s) PROVE OwnerStep /\ WaitStep
  <2>1. \A o \in Objects : \/ owner'[o] = owner[o]
                           \/ owner'[o] = NoSession /\ owner[o] = s
    BY <1>8 DEF ReleaseRecords
  <2>2. released'[s] /\ UNCHANGED locker
    BY <1>8 DEF ReleaseRecords, TypeInv, TypeOK
  <2> QED  BY <2>1, <2>2 DEF OwnerStep, WaitStep
<1> QED  BY <1>1, <1>2, <1>3, <1>4, <1>5, <1>6, <1>7, <1>8, NextCases DEF vars

(***************************************************************************)
(* The invariant of holding: the record's session holds it, and so does    *)
(* whoever is awaited for it.                                              *)
(***************************************************************************)
HoldInv == OwnerTracked /\ WaitsOnHolder

LEMMA HoldInit == Init => HoldInv
BY DEF Init, HoldInv, OwnerTracked, WaitsOnHolder, IdleLocker, IdleOp

LEMMA HoldNext == TypeInv /\ CacheInv /\ HoldInv /\ [Next]_vars => HoldInv'
<1> SUFFICES ASSUME TypeInv, CacheInv, HoldInv, [Next]_vars PROVE HoldInv'
  OBVIOUS
<1>1. OwnerStep /\ WaitStep /\ TypeInv'
  BY HoldStep, TypeStep
<1>2. ASSUME NEW s \in Sessions, NEW o \in Objects, o \in created,
             released[s] \/ Holds(s, o), InCache(o)'
      PROVE  released'[s] \/ Holds(s, o)'
  BY <1>2, MapGrowsByNew, ReleasedStays, HoldsKept
<1>3. ASSUME NEW o \in Objects, NEW s \in Sessions, owner'[o] = s, InCache(o)'
      PROVE  released'[s] \/ Holds(s, o)'
  <2>1. CASE owner[o] = s
    <3>1. o \in created
      BY <2>1, NoneAssumption DEF CacheInv, CreatedInv
    <3>2. InCache(o)
      BY <1>3, <3>1, MapGrowsByNew
    <3>3. released[s] \/ Holds(s, o)
      BY <2>1, <3>2, NoneAssumption DEF HoldInv, OwnerTracked
    <3> QED  BY <1>2, <1>3, <3>1, <3>3
  <2>2. CASE owner[o] # s
    BY <1>1, <1>3, <2>2, NoneAssumption DEF OwnerStep, Holds
  <2> QED  BY <2>1, <2>2
<1>4. ASSUME NEW s \in Sessions, NEW o \in Objects, NEW t \in Sessions,
             locker'[s].pc = "waiting", locker'[s].rec = o, locker'[s].on = t,
             InCache(o)'
      PROVE  released'[t] \/ Holds(t, o)'
  <2>1. CASE locker'[s] = locker[s]
    <3>1. o \in created
      BY <1>4, <2>1 DEF CacheInv, CreatedInv
    <3>2. InCache(o)
      BY <1>4, <3>1, MapGrowsByNew
    <3>3. released[t] \/ Holds(t, o)
      BY <1>4, <2>1, <3>2 DEF HoldInv, WaitsOnHolder
    <3> QED  BY <1>2, <1>4, <3>1, <3>3
  <2>2. CASE owner'[o] = t
    BY <1>3, <1>4, <2>2
  <2> QED  BY <1>1, <1>4, <2>1, <2>2 DEF WaitStep
<1>5. ASSUME NEW p \in Ops, NEW o \in Objects, NEW t \in Sessions,
             op'[p].pc = "waiting", op'[p].rec = o, op'[p].on = t, InCache(o)'
      PROVE  released'[t] \/ Holds(t, o)'
  <2>1. CASE op'[p] = op[p]
    <3>1. o \in created
      BY <1>5, <2>1 DEF CacheInv, CreatedInv, OpLive
    <3>2. InCache(o)
      BY <1>5, <3>1, MapGrowsByNew
    <3>3. released[t] \/ Holds(t, o)
      BY <1>5, <2>1, <3>2 DEF HoldInv, WaitsOnHolder
    <3> QED  BY <1>2, <1>5, <3>1, <3>3
  <2>2. CASE owner'[o] = t
    BY <1>3, <1>5, <2>2
  <2> QED  BY <1>5, <2>1, <2>2, OpWaitStep
<1>6. \A s \in Sessions : locker'[s].pc = "waiting" =>
        locker'[s].rec \in Objects /\ locker'[s].on \in Sessions
  BY <1>1 DEF TypeInv, WellFormed
<1>7. \A p \in Ops : op'[p].pc = "waiting" =>
        op'[p].rec \in Objects /\ op'[p].on \in Sessions
  BY <1>1 DEF TypeInv, WellFormed
<1>8. \A o \in Objects : owner'[o] \in Sessions \cup {NoSession}
  BY <1>1 DEF TypeInv, TypeOK
<1> QED  BY <1>3, <1>4, <1>5, <1>6, <1>7, <1>8
         DEF HoldInv, OwnerTracked, WaitsOnHolder, InCache, Holds

LEMMA HoldAlways == Spec => [](TypeInv /\ CacheInv /\ HoldInv)
<1>1. Init => TypeInv /\ CacheInv /\ HoldInv
  BY TypeInit, CacheInit, HoldInit
<1>2. TypeInv /\ CacheInv /\ HoldInv /\ [Next]_vars => (TypeInv /\ CacheInv /\ HoldInv)'
  BY TypeStep, CacheStep, HoldNext
<1> QED  BY <1>1, <1>2, PTL DEF Spec

(***************************************************************************)
(* A lock never leaks: the live session a cached record names has it on    *)
(* the books its release() walks.                                          *)
(***************************************************************************)
THEOREM LocksDoNotLeak == Spec => []OwnerTracked
<1>1. HoldInv => OwnerTracked
  BY DEF HoldInv
<1> QED  BY <1>1, HoldAlways, PTL

(***************************************************************************)
(* Whoever awaits a live session for a cached record awaits one that holds *)
(* that record and whose release will let it go on.                        *)
(***************************************************************************)
THEOREM WaitersWaitForHolders == Spec => []WaitsOnHolder
<1>1. HoldInv => WaitsOnHolder
  BY DEF HoldInv
<1> QED  BY <1>1, HoldAlways, PTL

(***************************************************************************)
(* A session loses a record only by its own release, or to a session that  *)
(* was waiting for one that has since been released.                       *)
(***************************************************************************)
THEOREM LockLoss == Spec => LockLostOnlyToAWaiter
<1> DEFINE Loss ==
      \A o \in Objects :
        (owner[o] # NoSession /\ owner'[o] # owner[o]) =>
          \/ released'[owner[o]]
          \/ \E t \in Sessions : /\ owner'[o] = t
                                 /\ locker[t].pc = "waiting"
                                 /\ locker[t].rec = o
                                 /\ released[locker[t].on]
<1>1. TypeInv /\ [Next]_vars => [Loss]_vars
  BY HoldStep DEF OwnerStep
<1>2. Spec => []TypeInv
  BY TypeInit, TypeStep, PTL DEF Spec
<1> QED  BY <1>1, <1>2, PTL DEF Spec, LockLostOnlyToAWaiter

(***************************************************************************)
(* release() and the timeout free every cached record the session holds,   *)
(* except the one lock() has only just taken.                              *)
(***************************************************************************)
THEOREM ReleaseFrees == Spec => ReleaseFreesAll
<1> DEFINE Frees ==
      \A s \in Sessions : ~released[s] /\ released'[s] =>
        \A o \in Objects : InCache(o) /\ owner'[o] = s =>
                             locker[s].pc = "granted" /\ locker[s].rec = o
<1>1. ASSUME TypeInv, HoldInv, [Next]_vars PROVE [Frees]_vars
  <2>1. ASSUME NEW s \in Sessions, ~released[s], released'[s]
        PROVE  ReleaseRecords(s)
    <3>1. ASSUME NEW p \in Ops PROVE ~OpStep(p)
      BY <1>1, <2>1, OpEffect DEF OpUnmoved
    <3>2. ASSUME NEW c \in Calls
          PROVE  ~(\/ \E request \in Requests : Acquire(c, request)
                   \/ ReservationResume(c)
                   \/ Enlist(c))
      BY <2>1 DEF Acquire, ReservationResume, Enlist, sessionVars
    <3>3. ASSUME NEW t \in Sessions
          PROVE  ~(LockResume(t) \/ LockNext(t) \/ LockRefused(t))
      BY <2>1 DEF LockResume, LockNext, LockRefused, sessionVars
    <3>4. ASSUME NEW t \in Sessions, ReleaseRecords(t) PROVE t = s
      BY <1>1, <2>1, <3>4 DEF ReleaseRecords, TypeInv, TypeOK
    <3> QED  BY <1>1, <2>1, <3>1, <3>2, <3>3, <3>4, NextCases DEF vars
  <2>2. ASSUME NEW s \in Sessions, ~released[s], ReleaseRecords(s),
               NEW o \in Objects, InCache(o), owner'[o] = s
        PROVE  locker[s].pc = "granted" /\ locker[s].rec = o
    <3>1. owner[o] = s /\ o \notin locked[s]
      BY <2>2, NoneAssumption DEF ReleaseRecords
    <3>2. Holds(s, o)
      BY <1>1, <2>2, <3>1, NoneAssumption DEF HoldInv, OwnerTracked
    <3> QED  BY <3>1, <3>2 DEF Holds
  <2> QED  BY <2>1, <2>2
<1> QED  BY <1>1, HoldAlways, PTL DEF Spec, ReleaseFreesAll

-----------------------------------------------------------------------------
(* Reservations and the promises of acquire() *)

LEMMA GatherReserves ==
  ASSUME TypeInv, NEW c \in Calls, NEW todo \in Seq(Keys), NEW got \in SUBSET Objects,
         NEW resv \in [Objects -> Sessions \cup {NoSession}],
         Gather(c, todo, got, resv)
  PROVE  /\ call[c].pc = "idle" \/ (call[c].pc = "reserving" /\ call[c].got \subseteq got)
         /\ \A o \in Objects : resv[o] = reserved[o] \/ (resv[o] = Caller[c] /\ o \in got)
         /\ UNCHANGED pending
         /\ ReservationTracked
         => ReservationTracked'
<1>1. /\ \A d \in Calls \ {c} : call'[d] = call[d]
      /\ call'[c].pc \in {"gathered", "reserving"}
      /\ got \subseteq call'[c].got
  BY GatherEffect DEF TypeInv
<1>2. \A o \in Objects : \/ reserved'[o] = resv[o]
                         \/ reserved'[o] = Caller[c] /\ o \in call'[c].got
  BY GatherReservesItsOwn DEF TypeInv
<1> SUFFICES ASSUME \/ call[c].pc = "idle"
                    \/ call[c].pc = "reserving" /\ call[c].got \subseteq got,
                    \A o \in Objects :
                      resv[o] = reserved[o] \/ (resv[o] = Caller[c] /\ o \in got),
                    UNCHANGED pending,
                    ReservationTracked
             PROVE  ReservationTracked'
  OBVIOUS
<1>3. ASSUME NEW o \in Objects, reserved'[o] = Caller[c], o \in call'[c].got
      PROVE  \E d \in Calls : /\ Caller[d] = reserved'[o]
                              /\ call'[d].pc \in {"reserving", "gathered"}
                              /\ o \in call'[d].got
  BY <1>1, <1>3
<1>4. ASSUME NEW o \in Objects, reserved'[o] = reserved[o], reserved[o] # NoSession
      PROVE  \/ o \in pending'[reserved'[o]]
             \/ \E d \in Calls : /\ Caller[d] = reserved'[o]
                                 /\ call'[d].pc \in {"reserving", "gathered"}
                                 /\ o \in call'[d].got
  <2>1. CASE o \in pending[reserved[o]]
    BY <1>4, <2>1
  <2>2. ASSUME NEW d \in Calls, Caller[d] = reserved[o],
               call[d].pc \in {"reserving", "gathered"}, o \in call[d].got
        PROVE  call'[d].pc \in {"reserving", "gathered"} /\ o \in call'[d].got
    BY <1>1, <2>2
  <2> QED  BY <1>4, <2>1, <2>2 DEF ReservationTracked
<1> QED  BY <1>1, <1>2, <1>3, <1>4 DEF ReservationTracked

LEMMA ReservationNext == TypeInv /\ ReservationTracked /\ [Next]_vars => ReservationTracked'
<1> SUFFICES ASSUME TypeInv, ReservationTracked, [Next]_vars PROVE ReservationTracked'
  OBVIOUS
<1>1. CASE UNCHANGED <<pending, reserved, call>>
  BY <1>1 DEF ReservationTracked
<1>2. ASSUME NEW p \in Ops, OpStep(p) PROVE UNCHANGED <<pending, reserved, call>>
  BY <1>2, OpEffect DEF OpUnmoved
<1>3. ASSUME NEW c \in Calls, NEW request \in Requests, Acquire(c, request)
      PROVE  ReservationTracked'
  <2>1. CASE released[Caller[c]]
    <3>1. /\ \A d \in Calls \ {c} : call'[d] = call[d]
          /\ call[c].pc = "idle" /\ UNCHANGED <<pending, reserved>>
      BY <1>3, <2>1, CallPcEffect DEF Acquire, TypeInv, sessionVars
    <3> QED  BY <3>1 DEF ReservationTracked
  <2>2. CASE ~released[Caller[c]]
    <3>1. /\ Gather(c, request, {}, reserved) /\ request \in Seq(Keys)
          /\ reserved \in [Objects -> Sessions \cup {NoSession}]
          /\ call[c].pc = "idle" /\ UNCHANGED pending
      BY <1>3, <2>2, RequestsAssumption DEF Acquire, TypeInv, TypeOK, sessionVars
    <3> QED  BY <3>1, GatherReserves
  <2> QED  BY <2>1, <2>2
<1>4. ASSUME NEW c \in Calls, ReservationResume(c) PROVE ReservationTracked'
  <2> DEFINE todo == call[c].todo
             got  == call[c].got \cup {call[c].rec}
             resv == [reserved EXCEPT ![call[c].rec] = Caller[c]]
  <2>1. /\ todo \in Seq(Keys)
        /\ got \in SUBSET Objects
        /\ resv \in [Objects -> Sessions \cup {NoSession}]
        /\ call[c].pc = "reserving" /\ call[c].got \subseteq got
        /\ \A o \in Objects : resv[o] = reserved[o] \/ (resv[o] = Caller[c] /\ o \in got)
        /\ UNCHANGED pending
    BY <1>4, CallerAssumption
       DEF ReservationResume, TypeInv, TypeOK, WellFormed, CallState, sessionVars
  <2>2. Gather(c, todo, got, resv)
    BY <1>4 DEF ReservationResume
  <2> HIDE DEF todo, got, resv
  <2> QED  BY <2>1, <2>2, GatherReserves
<1>5. ASSUME NEW c \in Calls, Enlist(c) PROVE ReservationTracked'
  <2>1. \E pc \in {"done", "locking"} : call' = [call EXCEPT ![c].pc = pc]
    BY <1>5 DEF Enlist
  <2>2. \A d \in Calls \ {c} : call'[d] = call[d]
    BY <2>1, CallPcEffect DEF TypeInv
  <2>3. /\ call[c].got \subseteq pending'[Caller[c]]
        /\ \A s \in Sessions : pending[s] \subseteq pending'[s]
        /\ UNCHANGED reserved
    BY <1>5, CallerAssumption DEF Enlist, TypeInv, TypeOK
  <2>4. \A o \in Objects : reserved[o] \in Sessions \cup {NoSession}
    BY DEF TypeInv, TypeOK
  <2> QED  BY <2>2, <2>3, <2>4 DEF ReservationTracked
<1>6. ASSUME NEW s \in Sessions, LockNext(s) PROVE ReservationTracked'
  <2>1. \A c \in Calls : \/ call'[c] = call[c]
                         \/ call[c].pc = "locking"
    <3>1. CASE UNCHANGED call
      BY <3>1
    <3>2. CASE call' = Settle(s, "done")
      BY <3>2, SettleEffect DEF TypeInv
    <3> QED  BY <1>6, <3>1, <3>2 DEF LockNext
  <2>2. /\ pending' = [pending EXCEPT ![s] = pending[s] \ {locker[s].rec}]
        /\ reserved' = [reserved EXCEPT ![locker[s].rec] = NoSession]
        /\ locker[s].rec \in Objects
    BY <1>6 DEF LockNext, TypeInv, WellFormed
  <2>3. ASSUME NEW o \in Objects, reserved'[o] # NoSession
        PROVE  /\ reserved'[o] = reserved[o]
               /\ \A t \in Sessions : o \in pending[t] => o \in pending'[t]
    BY <2>2, <2>3 DEF TypeInv, TypeOK
  <2>4. \A o \in Objects : reserved[o] \in Sessions \cup {NoSession}
    BY DEF TypeInv, TypeOK
  <2> QED  BY <2>1, <2>3, <2>4 DEF ReservationTracked
<1>7. ASSUME NEW s \in Sessions, LockRefused(s) PROVE ReservationTracked'
  <2>1. call' = Settle(s, "failed") /\ UNCHANGED <<pending, reserved>>
    BY <1>7 DEF LockRefused, sessionVars
  <2>2. \A c \in Calls : call'[c] = call[c] \/ call[c].pc = "locking"
    BY <2>1, SettleEffect DEF TypeInv
  <2> QED  BY <2>1, <2>2 DEF ReservationTracked
<1>8. ASSUME NEW s \in Sessions, LockResume(s) \/ ReleaseRecords(s)
      PROVE  UNCHANGED <<pending, reserved, call>>
  BY <1>8 DEF LockResume, ReleaseRecords, sessionVars
<1> QED  BY <1>1, <1>2, <1>3, <1>4, <1>5, <1>6, <1>7, <1>8, NextCases DEF vars

(***************************************************************************)
(* The controller's #_pending map never names a session that has nothing   *)
(* left to do for the record.                                              *)
(***************************************************************************)
THEOREM ReservationsEnd == Spec => []ReservationTracked
<1>1. Init => ReservationTracked
  BY DEF Init, ReservationTracked
<1>2. Spec => []TypeInv
  BY TypeInit, TypeStep, PTL DEF Spec
<1> QED  BY <1>1, <1>2, ReservationNext, PTL DEF Spec

(***************************************************************************)
(* What an acquire gathered stays on the way to `locked`: while the call   *)
(* is served, its records are pending or locked.                           *)
(***************************************************************************)
LockingGrants ==
  \A c \in Calls : call[c].pc = "locking" /\ ~released[Caller[c]] =>
    \A o \in call[c].got : InCache(o) => o \in pending[Caller[c]] \cup locked[Caller[c]]

GrantInv == RunServesItsCalls /\ LockingGrants /\ AcquireGrants

(* What a step does to a call, and when a lock loop becomes idle. *)
CallMoves ==
  \A c \in Calls :
    \/ call'[c] = call[c]
    \/ call'[c].pc \in {"reserving", "gathered", "failed"}
    \/ /\ call'[c].pc = "locking" /\ call'[c].got = call[c].got
       /\ call[c].got \subseteq pending'[Caller[c]]
       /\ locker'[Caller[c]].pc # "idle"
    \/ /\ call'[c].pc = "done" /\ call'[c].got = call[c].got
       /\ \/ call[c].got = {}
          \/ call[c].pc = "locking" /\ pending'[Caller[c]] = {}

LoopEnds ==
  \A s \in Sessions : locker'[s].pc = "idle" =>
    \/ locker[s].pc = "idle"
    \/ \A c \in Calls : Caller[c] = s => call'[c].pc # "locking"

PendingKept ==
  \A s \in Sessions : pending[s] \subseteq pending'[s] \cup locked'[s]

LEMMA GrantStep == TypeInv /\ [Next]_vars => CallMoves /\ LoopEnds /\ PendingKept
<1> SUFFICES ASSUME TypeInv, [Next]_vars PROVE CallMoves /\ LoopEnds /\ PendingKept
  OBVIOUS
<1>1. CASE UNCHANGED <<pending, locker, call>>
  BY <1>1 DEF CallMoves, LoopEnds, PendingKept
<1>2. ASSUME NEW p \in Ops, OpStep(p) PROVE UNCHANGED <<pending, locker, call>>
  BY <1>2, OpEffect DEF OpUnmoved
<1>3. ASSUME NEW c \in Calls, NEW request \in Requests, Acquire(c, request)
      PROVE  CallMoves /\ LoopEnds /\ PendingKept
  <2>1. CASE released[Caller[c]]
    <3>1. \A d \in Calls : call'[d] = call[d] \/ call'[d].pc = "failed"
      BY <1>3, <2>1, CallPcEffect DEF Acquire, TypeInv
    <3> QED  BY <1>3, <3>1 DEF Acquire, sessionVars, CallMoves, LoopEnds, PendingKept
  <2>2. CASE ~released[Caller[c]]
    <3>1. /\ Gather(c, request, {}, reserved) /\ request \in Seq(Keys)
          /\ reserved \in [Objects -> Sessions \cup {NoSession}]
      BY <1>3, <2>2, RequestsAssumption DEF Acquire, TypeInv, TypeOK
    <3>2. \A d \in Calls : call'[d] = call[d] \/ call'[d].pc \in {"gathered", "reserving"}
      BY <3>1, GatherEffect DEF TypeInv
    <3> QED  BY <1>3, <3>2 DEF Acquire, sessionVars, CallMoves, LoopEnds, PendingKept
  <2> QED  BY <2>1, <2>2
<1>4. ASSUME NEW c \in Calls, ReservationResume(c)
      PROVE  CallMoves /\ LoopEnds /\ PendingKept
  <2> DEFINE todo == call[c].todo
             got  == call[c].got \cup {call[c].rec}
             resv == [reserved EXCEPT ![call[c].rec] = Caller[c]]
  <2>1. /\ todo \in Seq(Keys)
        /\ got \in SUBSET Objects
        /\ resv \in [Objects -> Sessions \cup {NoSession}]
    BY <1>4, CallerAssumption DEF ReservationResume, TypeInv, TypeOK, WellFormed, CallState
  <2>2. Gather(c, todo, got, resv)
    BY <1>4 DEF ReservationResume
  <2> HIDE DEF todo, got, resv
  <2>3. \A d \in Calls : call'[d] = call[d] \/ call'[d].pc \in {"gathered", "reserving"}
    BY <2>1, <2>2, GatherEffect DEF TypeInv
  <2> QED  BY <1>4, <2>3 DEF ReservationResume, sessionVars, CallMoves, LoopEnds, PendingKept
<1>5. ASSUME NEW c \in Calls, Enlist(c) PROVE CallMoves /\ LoopEnds /\ PendingKept
  <2> DEFINE s == Caller[c]
             pend == pending[s] \cup call[c].got
  <2>1. s \in Sessions /\ pend \subseteq Objects /\ pending' = [pending EXCEPT ![s] = pend]
    BY <1>5, CallerAssumption DEF Enlist, TypeInv, TypeOK, CallState
  <2>2. PendingKept
    BY <2>1 DEF PendingKept, TypeInv, TypeOK
  <2>3. CASE pend = {} /\ call' = [call EXCEPT ![c].pc = "done"] /\ UNCHANGED locker
    <3>1. /\ \A d \in Calls \ {c} : call'[d] = call[d]
          /\ call'[c].pc = "done" /\ call'[c].got = call[c].got
      BY <2>3, CallPcEffect DEF TypeInv
    <3>2. CallMoves
      BY <2>3, <3>1 DEF CallMoves
    <3> QED  BY <2>2, <2>3, <3>2 DEF LoopEnds
  <2>4. CASE call' = [call EXCEPT ![c].pc = "locking"]
             /\ (\/ locker[s].pc # "idle" /\ UNCHANGED locker
                 \/ locker[s].pc = "idle" /\ \E o \in pend : Lock(s, o))
    <3>1. /\ \A d \in Calls \ {c} : call'[d] = call[d]
          /\ call'[c].pc = "locking" /\ call'[c].got = call[c].got
      BY <2>4, CallPcEffect DEF TypeInv
    <3>2. /\ locker'[s].pc # "idle"
          /\ \A t \in Sessions \ {s} : locker'[t] = locker[t]
      <4>1. CASE UNCHANGED locker
        BY <2>4, <4>1, LockEffect, <2>1 DEF TypeInv
      <4>2. CASE \E o \in pend : Lock(s, o)
        BY <2>1, <4>2, LockEffect DEF TypeInv
      <4> QED  BY <2>4, <4>1, <4>2
    <3>3. CallMoves
      <4>1. call[c].got \subseteq pending'[s]
        BY <2>1 DEF TypeInv, TypeOK
      <4> QED  BY <3>1, <3>2, <4>1 DEF CallMoves
    <3>4. LoopEnds
      BY <3>2 DEF LoopEnds
    <3> QED  BY <2>2, <3>3, <3>4
  <2> QED  BY <1>5, <2>3, <2>4 DEF Enlist
<1>6. ASSUME NEW s \in Sessions, LockNext(s) PROVE CallMoves /\ LoopEnds /\ PendingKept
  <2>1. /\ pending' = [pending EXCEPT ![s] = pending[s] \ {locker[s].rec}]
        /\ locked' = [locked EXCEPT ![s] = locked[s] \cup {locker[s].rec}]
    BY <1>6 DEF LockNext
  <2>2. PendingKept
    BY <2>1 DEF PendingKept, TypeInv, TypeOK
  <2>3. CASE /\ pending[s] \ {locker[s].rec} = {}
             /\ locker' = [locker EXCEPT ![s] = IdleLocker]
             /\ call' = Settle(s, "done")
    <3>1. \A c \in Calls :
            /\ call'[c].got = call[c].got
            /\ \/ call'[c] = call[c] /\ ~(call[c].pc = "locking" /\ Caller[c] = s)
               \/ call[c].pc = "locking" /\ Caller[c] = s /\ call'[c].pc = "done"
      BY <2>3, SettleEffect DEF TypeInv
    <3>2. pending'[s] = {}
      BY <2>1, <2>3 DEF TypeInv, TypeOK
    <3>3. \A t \in Sessions \ {s} : locker'[t] = locker[t]
      BY <2>3 DEF TypeInv, TypeOK
    <3>4. CallMoves
      BY <3>1, <3>2 DEF CallMoves
    <3>5. LoopEnds
      BY <3>1, <3>3 DEF LoopEnds
    <3> QED  BY <2>2, <3>4, <3>5
  <2>4. CASE UNCHANGED call /\ \E o \in pending[s] \ {locker[s].rec} : Lock(s, o)
    <3>1. PICK o \in Objects : Lock(s, o)
      BY <2>4 DEF TypeInv, TypeOK
    <3>2. /\ locker'[s].pc # "idle"
          /\ \A t \in Sessions \ {s} : locker'[t] = locker[t]
      BY <3>1, LockEffect DEF TypeInv
    <3>3. CallMoves
      BY <2>4 DEF CallMoves
    <3> QED  BY <2>2, <3>2, <3>3 DEF LoopEnds
  <2> QED  BY <1>6, <2>3, <2>4 DEF LockNext
<1>7. ASSUME NEW s \in Sessions, LockRefused(s) PROVE CallMoves /\ LoopEnds /\ PendingKept
  <2>1. call' = Settle(s, "failed") /\ UNCHANGED pending
        /\ \A t \in Sessions \ {s} : locker'[t] = locker[t]
    BY <1>7 DEF LockRefused, sessionVars, TypeInv, TypeOK
  <2>2. \A c \in Calls :
          \/ call'[c] = call[c] /\ ~(call[c].pc = "locking" /\ Caller[c] = s)
          \/ call'[c].pc = "failed"
    BY <2>1, SettleEffect DEF TypeInv
  <2> QED  BY <2>1, <2>2 DEF CallMoves, LoopEnds, PendingKept
<1>8. ASSUME NEW s \in Sessions, LockResume(s) PROVE CallMoves /\ LoopEnds /\ PendingKept
  <2>1. UNCHANGED <<pending, call>>
        /\ \A t \in Sessions : locker'[t] = locker[t] \/ locker'[t].pc = "granted"
    BY <1>8 DEF LockResume, sessionVars, TypeInv, TypeOK, LockerState
  <2> QED  BY <2>1 DEF CallMoves, LoopEnds, PendingKept
<1>9. ASSUME NEW s \in Sessions, ReleaseRecords(s) PROVE UNCHANGED <<pending, locker, call>>
  BY <1>9 DEF ReleaseRecords
<1> QED
  BY <1>1, <1>2, <1>3, <1>4, <1>5, <1>6, <1>7, <1>8, <1>9, NextCases DEF vars

LEMMA GrantNext == TypeInv /\ CacheInv /\ GrantInv /\ [Next]_vars => GrantInv'
<1> SUFFICES ASSUME TypeInv, CacheInv, GrantInv, [Next]_vars PROVE GrantInv'
  OBVIOUS
<1>1. CallMoves /\ LoopEnds /\ PendingKept
  BY GrantStep
<1>2. RunServesItsCalls'
  BY <1>1, CallerAssumption DEF CallMoves, LoopEnds, GrantInv, RunServesItsCalls
<1>3. ASSUME NEW c \in Calls, ~released'[Caller[c]], NEW o \in call[c].got,
             InCache(o)', call[c].pc \in {"locking", "done"}
      PROVE  /\ InCache(o) /\ ~released[Caller[c]]
             /\ o \in locked[Caller[c]] => o \in locked'[Caller[c]]
             /\ o \in pending[Caller[c]] =>
                  o \in pending'[Caller[c]] \cup locked'[Caller[c]]
  <2>1. o \in created /\ Caller[c] \in Sessions
    BY <1>3, CallerAssumption DEF CacheInv, CreatedInv
  <2>2. InCache(o) /\ ~released[Caller[c]]
    BY <1>3, <2>1, MapGrowsByNew, ReleasedStays
  <2>3. o \in locked[Caller[c]] => o \in locked'[Caller[c]]
    BY <1>3, <2>1, <2>2, LockedKept
  <2> QED  BY <1>1, <2>1, <2>2, <2>3 DEF PendingKept
<1>4. ASSUME NEW c \in Calls, call'[c].pc = "locking", ~released'[Caller[c]],
             NEW o \in call'[c].got, InCache(o)'
      PROVE  o \in pending'[Caller[c]] \cup locked'[Caller[c]]
  <2>1. CASE call'[c] = call[c]
    BY <1>3, <1>4, <2>1 DEF GrantInv, LockingGrants
  <2>2. CASE call'[c].got \subseteq pending'[Caller[c]]
    BY <1>4, <2>2
  <2> QED  BY <1>1, <1>4, <2>1, <2>2 DEF CallMoves
<1>5. ASSUME NEW c \in Calls, call'[c].pc = "done", ~released'[Caller[c]],
             NEW o \in call'[c].got, InCache(o)'
      PROVE  o \in locked'[Caller[c]]
  <2>1. CASE call'[c] = call[c]
    BY <1>3, <1>5, <2>1 DEF GrantInv, AcquireGrants
  <2>2. CASE call'[c].got = call[c].got /\ call[c].pc = "locking" /\ pending'[Caller[c]] = {}
    BY <1>3, <1>5, <2>2 DEF GrantInv, LockingGrants
  <2> QED  BY <1>1, <1>5, <2>1, <2>2 DEF CallMoves
<1> QED  BY <1>2, <1>4, <1>5 DEF GrantInv, LockingGrants, AcquireGrants, InCache

LEMMA GrantAlways == Spec => []GrantInv
<1>1. Init => TypeInv /\ CacheInv /\ GrantInv
  <2>1. Init => GrantInv
    BY DEF Init, GrantInv, RunServesItsCalls, LockingGrants, AcquireGrants, IdleCall
  <2> QED  BY <2>1, TypeInit, CacheInit
<1>2. TypeInv /\ CacheInv /\ GrantInv /\ [Next]_vars => (TypeInv /\ CacheInv /\ GrantInv)'
  BY TypeStep, CacheStep, GrantNext
<1> QED  BY <1>1, <1>2, PTL DEF Spec

(***************************************************************************)
(* acquire() keeps its promise: once it has resolved, and until its        *)
(* session is released, what it gathered and is still cached is locked.    *)
(***************************************************************************)
THEOREM AcquireKeepsItsPromise == Spec => []AcquireGrants
<1>1. GrantInv => AcquireGrants
  BY DEF GrantInv
<1> QED  BY <1>1, GrantAlways, PTL

(***************************************************************************)
(* An acquire that awaits a run awaits one that is going on.               *)
(***************************************************************************)
THEOREM RunsServe == Spec => []RunServesItsCalls
<1>1. GrantInv => RunServesItsCalls
  BY DEF GrantInv
<1> QED  BY <1>1, GrantAlways, PTL
=============================================================================
