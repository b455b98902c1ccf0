--------------------------- MODULE SessionTicksProofs ---------------------------
(***************************************************************************)
(* The tick-ordered loop is one of LockSessions' interleavings; with       *)
(* orderly clients, who awaits in lock() goes first, no two live sessions  *)
(* lock one record before a second session has been released, and three    *)
(* implement a lock table.  Two sessions exclude each other in any order.  *)
(***************************************************************************)
EXTENDS SessionTicks, LockSessionsProofs

(* Each step that the ticks order is a step of the unordered loop.         *)
LEMMA TickStepIsStep == [TickNext]_tickVars => [Next]_vars
<1> SUFFICES ASSUME [TickNext]_tickVars PROVE [Next]_vars
  OBVIOUS
<1>1. ASSUME NEW c \in Calls, ResumeCall(c) PROVE Next
  BY <1>1 DEF ResumeCall, Next, CallStep
<1>2. ASSUME NEW s \in Sessions, ResumeLocker(s) PROVE Next
  BY <1>2 DEF ResumeLocker, Next, SessionStep
<1>3. ASSUME NEW p \in Ops, ResumeOp(p) PROVE Next
  BY <1>3 DEF ResumeOp, Next, OpStep
<1>4. CASE ClientStep
  BY <1>4 DEF ClientStep, Next, CallStep, SessionStep, OpStep
<1>5. CASE EngineStep
  BY <1>5 DEF EngineStep, Next, OpStep
<1>6. CASE TimerStep
  BY <1>6 DEF TimerStep, Next, SessionStep
<1>7. CASE UNCHANGED tickVars
  BY <1>7 DEF tickVars
<1> QED  BY <1>1, <1>2, <1>3, <1>4, <1>5, <1>6, <1>7 DEF TickNext

(***************************************************************************)
(* What holds under every interleaving holds in the order of the ticks:    *)
(* the event loop's order implements the specification of lock sessions.   *)
(***************************************************************************)
THEOREM TicksImplementSpec == TickSpec => Spec
<1>1. TickInit => Init
  BY DEF TickInit
<1> QED  BY <1>1, TickStepIsStep, PTL DEF TickSpec, Spec

(* So do orderly clients, and no lock leaks with either.                   *)
THEOREM TicksDoNotLeak == TickSpec \/ OrderlySpec => []OwnerTracked
<1>1. [TickNext /\ Orderly]_tickVars => [TickNext]_tickVars
  OBVIOUS
<1>2. OrderlySpec => TickSpec
  BY <1>1, PTL DEF OrderlySpec, TickSpec
<1> QED  BY <1>2, TicksImplementSpec, LocksDoNotLeak, PTL


-----------------------------------------------------------------------------
(* Exclusion.  What a step of an orderly client's program does, as a       *)
(* relation of the two states, action by action.                           *)

(* The controller's loop of call c, which has gathered and reserved. *)
Gathers(c) ==
  /\ ~released[Caller[c]]
  /\ UNCHANGED <<current, created, owner, released, locked, pending, locker, op>>
  /\ \A d \in Calls \ {c} : call'[d] = call[d]
  /\ call'[c].pc \in {"gathered", "reserving"}
  /\ call'[c] # call[c]
  /\ \/ call[c].pc = "idle"
     \/ call[c].pc = "reserving" /\ released[call[c].on]
  /\ \A o \in Objects :
       \/ /\ reserved'[o] = reserved[o]
          /\ o \in call'[c].got => call[c].pc = "reserving" /\ o \in call[c].got
       \/ reserved[o] = NoSession /\ reserved'[o] = Caller[c]
       \/ call[c].pc = "reserving" /\ o = call[c].rec /\ reserved'[o] = Caller[c]
  /\ call'[c].pc = "reserving" =>
       /\ call'[c].rec \in Objects
       /\ call'[c].on \in Sessions
       /\ call'[c].on = reserved'[call'[c].rec]

(* An acquire of a released session is refused. *)
Refused(c) ==
  /\ call[c].pc = "idle" /\ call'[c].pc = "failed"
  /\ \A d \in Calls \ {c} : call'[d] = call[d]
  /\ UNCHANGED <<current, created, owner, released, locked, pending, reserved, locker, op>>

(* lock() of record o by the loop of s, up to its first await. *)
Locks(s, o) ==
  /\ \A t \in Sessions \ {s} : locker'[t] = locker[t]
  /\ locker'[s].rec = o
  /\ locker'[s].pc \in {"granted", "refused", "waiting"}
  /\ \/ /\ owner[o] = NoSession
        /\ owner' = [owner EXCEPT ![o] = s]
        /\ locker'[s].pc = "granted"
     \/ owner' = owner /\ locker'[s].pc # "granted"

Enlists(c) ==
  LET s == Caller[c]
  IN /\ call[c].pc = "gathered" /\ call'[c].pc \in {"locking", "done"}
     /\ call'[c].got = call[c].got
     /\ \A d \in Calls \ {c} : call'[d] = call[d]
     /\ pending' = [pending EXCEPT ![s] = @ \cup call[c].got]
     /\ UNCHANGED <<current, created, released, locked, reserved, op>>
     /\ \/ UNCHANGED <<owner, locker>>
        \/ /\ locker[s].pc = "idle" /\ call'[c].pc = "locking"
           /\ \E o \in pending'[s] : Locks(s, o)

(* The run of s ends: the calls it serves settle. *)
RunEnds(s) ==
  /\ locker' = [locker EXCEPT ![s] = IdleLocker]
  /\ UNCHANGED owner
  /\ \A c \in Calls : IF Caller[c] = s /\ call[c].pc = "locking"
                      THEN call'[c].pc \in {"done", "failed"}
                      ELSE call'[c] = call[c]

Books(s) ==
  LET o == locker[s].rec
  IN /\ locker[s].pc = "granted"
     /\ locked' = [locked EXCEPT ![s] = @ \cup {o}]
     /\ pending' = [pending EXCEPT ![s] = @ \ {o}]
     /\ reserved' = [reserved EXCEPT ![o] = NoSession]
     /\ UNCHANGED <<current, created, released, op>>
     /\ \/ RunEnds(s)
        \/ UNCHANGED call /\ \E p \in pending'[s] : Locks(s, p)

Throws(s) ==
  /\ locker[s].pc = "refused"
  /\ RunEnds(s)
  /\ UNCHANGED <<current, created, released, locked, pending, reserved, op>>

(* A release, when the session's calls are over. *)
Frees(s) ==
  /\ ~released[s] /\ ReleaseRecords(s)
  /\ \A c \in Calls : Caller[c] = s => call[c].pc \in {"idle", "done", "failed"}

(* An operation locks nothing. *)
Operates(p) ==
  /\ OpUnmoved(p)
  /\ \A t \in Sessions : locked'[t] \subseteq locked[t]
  /\ created \subseteq created'
  /\ op[p].pc = "waiting" => released[op[p].on]

Moves ==
  \/ \E c \in Calls : Gathers(c) \/ Refused(c) \/ Enlists(c)
  \/ \E s \in Sessions : LockResume(s) \/ Books(s) \/ Throws(s) \/ Frees(s)
  \/ \E p \in Ops : Operates(p)
  \/ UNCHANGED vars

(* The controller's loop reserves what it adds, and awaits the session     *)
(* that has reserved the next record.                                      *)
LEMMA GatherTakes ==
  ASSUME TypeOK,
         NEW c \in Calls, NEW todo \in Seq(Keys), NEW got \in SUBSET Objects,
         NEW resv \in [Objects -> Sessions \cup {NoSession}],
         Gather(c, todo, got, resv)
  PROVE  /\ \A o \in Objects :
              \/ reserved'[o] = resv[o] /\ (o \in call'[c].got => o \in got)
              \/ resv[o] = NoSession /\ reserved'[o] = Caller[c]
         /\ call'[c].pc = "reserving" =>
              /\ call'[c].on \in Sessions
              /\ call'[c].on = reserved'[call'[c].rec]
<1>1. PICK n \in 0..Len(todo) :
        LET taken == Found(todo, n)
            resv2 == [o \in Objects |-> IF o \in taken THEN Caller[c] ELSE resv[o]]
            next  == Obj(todo, n + 1)
        IN /\ \A i \in 1..n : ~IsReserved(todo, i, resv)
           /\ reserved' = resv2
           /\ \/ /\ n = Len(todo)
                 /\ call' = [call EXCEPT
                      ![c] = [pc |-> "gathered", todo |-> <<>>,
                              got |-> got \cup taken,
                              rec |-> NoObject, on |-> NoSession]]
              \/ /\ n < Len(todo)
                 /\ IsReserved(todo, n + 1, resv)
                 /\ call' = [call EXCEPT
                      ![c] = [pc |-> "reserving",
                              todo |-> SubSeq(todo, n + 2, Len(todo)),
                              got |-> got \cup taken,
                              rec |-> next, on |-> resv2[next]]]
  BY DEF Gather
<1> DEFINE taken == Found(todo, n)
           next  == Obj(todo, n + 1)
<1>2. \A o \in taken : resv[o] = NoSession
  <2>1. SUFFICES ASSUME NEW i \in 1..n, Obj(todo, i) # NoObject
                 PROVE  resv[Obj(todo, i)] = NoSession
    BY DEF Found
  <2> QED  BY <1>1, <2>1 DEF IsReserved
<1>3. call'[c].got = got \cup taken
  BY <1>1 DEF TypeOK
<1>4. reserved' = [o \in Objects |-> IF o \in taken THEN Caller[c] ELSE resv[o]]
  BY <1>1
<1>5. ASSUME call'[c].pc = "reserving"
      PROVE  /\ IsReserved(todo, n + 1, resv)
             /\ call'[c].rec = next
             /\ call'[c].on = IF next \in taken THEN Caller[c] ELSE resv[next]
             /\ next \in Objects
  <2>1. /\ IsReserved(todo, n + 1, resv) /\ n < Len(todo)
        /\ call'[c].rec = next
        /\ call'[c].on = [o \in Objects |-> IF o \in taken THEN Caller[c] ELSE resv[o]][next]
    BY <1>1, <1>5 DEF TypeOK
  <2>2. todo[n + 1] \in Keys
    BY <2>1
  <2>3. next \in Objects
    BY <2>1, <2>2 DEF IsReserved, Obj, TypeOK
  <2> QED  BY <2>1, <2>3
<1>6. ASSUME call'[c].pc = "reserving", next \notin taken PROVE resv[next] # NoSession
  <2>1. \/ resv[next] # NoSession
        \/ next \in Found(todo, (n + 1) - 1)
    BY <1>5, <1>6 DEF IsReserved
  <2>2. (n + 1) - 1 = n
    OBVIOUS
  <2> QED  BY <1>6, <2>1, <2>2
<1> HIDE DEF taken, next
<1>7. Caller[c] \in Sessions
  BY CallerAssumption
<1> QED  BY <1>2, <1>3, <1>4, <1>5, <1>6, <1>7

(* An await leaves the loop fewer keys. *)
LEMMA GatherShortens ==
  ASSUME TypeOK,
         NEW c \in Calls, NEW todo \in Seq(Keys), NEW got, NEW resv,
         Gather(c, todo, got, resv), call'[c].pc = "reserving"
  PROVE  call'[c].todo # todo
<1>0. PICK n \in 0..Len(todo) :
        LET taken == Found(todo, n)
            resv2 == [o \in Objects |-> IF o \in taken THEN Caller[c] ELSE resv[o]]
            next  == Obj(todo, n + 1)
        IN \/ call' = [call EXCEPT
                ![c] = [pc |-> "gathered", todo |-> <<>>, got |-> got \cup taken,
                        rec |-> NoObject, on |-> NoSession]]
           \/ /\ n < Len(todo)
              /\ call' = [call EXCEPT
                   ![c] = [pc |-> "reserving",
                           todo |-> SubSeq(todo, n + 2, Len(todo)),
                           got |-> got \cup taken,
                           rec |-> next, on |-> resv2[next]]]
  BY DEF Gather
<1>1. n < Len(todo) /\ call'[c].todo = SubSeq(todo, n + 2, Len(todo))
  BY <1>0 DEF TypeOK
<1>2. Len(SubSeq(todo, n + 2, Len(todo))) < Len(todo)
  BY <1>1
<1> QED  BY <1>1, <1>2

(***************************************************************************)
(* A run serves a call and locks what is pending; a released session has   *)
(* nothing under way; and no cached record names a released session.       *)
(***************************************************************************)
Over(c) == call[c].pc \in {"idle", "done", "failed"}
RestInv ==
  /\ \A s \in Sessions : locker[s].pc # "idle" =>
       /\ locker[s].rec \in pending[s]
       /\ \E c \in Calls : Caller[c] = s /\ call[c].pc = "locking"
  /\ \A c \in Calls : released[Caller[c]] => Over(c)
  /\ \A o \in Objects : InCache(o) /\ owner[o] # NoSession => ~released[owner[o]]
  /\ \A s \in Sessions : locked[s] \subseteq created
  /\ \A c \in Calls : call[c].pc = "reserving" => call[c].on \in Sessions

LEMMA MoveOfAcquire ==
  ASSUME TypeInv, NEW c \in Calls, NEW request \in Requests, Acquire(c, request)
  PROVE  Gathers(c) \/ Refused(c)
<1> USE DEF TypeInv, cacheVars, sessionVars
<1>1. CASE released[Caller[c]]
  <2>1. call' = [call EXCEPT ![c].pc = "failed"] /\ UNCHANGED reserved
    BY <1>1 DEF Acquire
  <2>2. call'[c].pc = "failed" /\ \A d \in Calls \ {c} : call'[d] = call[d]
    BY <2>1, CallPcEffect
  <2> QED  BY <2>1, <2>2 DEF Acquire, Refused
<1>2. CASE ~released[Caller[c]]
  <2>1. /\ Gather(c, request, {}, reserved) /\ request \in Seq(Keys)
        /\ reserved \in [Objects -> Sessions \cup {NoSession}]
    BY <1>2, RequestsAssumption DEF Acquire, TypeOK
  <2>2. /\ \A d \in Calls \ {c} : call'[d] = call[d]
        /\ call'[c].pc \in {"gathered", "reserving"}
        /\ call'[c].pc = "reserving" => call'[c].rec \in Objects
    BY <2>1, GatherEffect
  <2> DEFINE got == {}
  <2>3. got \in SUBSET Objects /\ Gather(c, request, got, reserved)
    BY <2>1
  <2>4. \A o \in Objects : o \notin got
    OBVIOUS
  <2> HIDE DEF got
  <2>5. /\ \A o \in Objects :
             \/ reserved'[o] = reserved[o] /\ (o \in call'[c].got => o \in got)
             \/ reserved[o] = NoSession /\ reserved'[o] = Caller[c]
        /\ call'[c].pc = "reserving" =>
             call'[c].on \in Sessions /\ call'[c].on = reserved'[call'[c].rec]
    BY <2>1, <2>3, GatherTakes
  <2>6. call[c].pc = "idle" /\ call'[c] # call[c]
    BY <2>2 DEF Acquire
  <2> QED  BY <1>2, <2>2, <2>4, <2>5, <2>6 DEF Acquire, Gathers
<1> QED  BY <1>1, <1>2

LEMMA MoveOfResume ==
  ASSUME TypeInv, NEW c \in Calls, ReservationResume(c), ~released[Caller[c]]
  PROVE  Gathers(c)
<1> USE DEF TypeInv, cacheVars, sessionVars
<1> DEFINE todo == call[c].todo
           got  == call[c].got \cup {call[c].rec}
           resv == [reserved EXCEPT ![call[c].rec] = Caller[c]]
<1>1. /\ todo \in Seq(Keys)
      /\ got \in SUBSET Objects
      /\ resv \in [Objects -> Sessions \cup {NoSession}]
      /\ call[c].pc = "reserving" /\ released[call[c].on]
      /\ \A o \in got : o \in call[c].got \/ o = call[c].rec
      /\ \A o \in Objects : resv[o] = IF o = call[c].rec THEN Caller[c] ELSE reserved[o]
      /\ Caller[c] \in Sessions /\ Caller[c] # NoSession
  BY CallerAssumption, NoneAssumption
     DEF ReservationResume, TypeOK, WellFormed, CallState
<1>2. Gather(c, todo, got, resv)
  BY DEF ReservationResume
<1> HIDE DEF todo, got, resv
<1>3. /\ \A d \in Calls \ {c} : call'[d] = call[d]
      /\ call'[c].pc \in {"gathered", "reserving"}
      /\ call'[c].pc = "reserving" => call'[c].rec \in Objects
  BY <1>1, <1>2, GatherEffect
<1>4. /\ \A o \in Objects :
           \/ reserved'[o] = resv[o] /\ (o \in call'[c].got => o \in got)
           \/ resv[o] = NoSession /\ reserved'[o] = Caller[c]
      /\ call'[c].pc = "reserving" =>
           call'[c].on \in Sessions /\ call'[c].on = reserved'[call'[c].rec]
  BY <1>1, <1>2, GatherTakes
<1>5. ASSUME NEW o \in Objects
      PROVE  \/ /\ reserved'[o] = reserved[o]
                /\ o \in call'[c].got => call[c].pc = "reserving" /\ o \in call[c].got
             \/ reserved[o] = NoSession /\ reserved'[o] = Caller[c]
             \/ call[c].pc = "reserving" /\ o = call[c].rec /\ reserved'[o] = Caller[c]
  BY <1>1, <1>4
<1>6. call'[c].pc = "reserving" => call'[c].todo # todo
  BY <1>1, <1>2, GatherShortens
<1>7. call'[c] # call[c]
  BY <1>1, <1>3, <1>6 DEF todo
<1> QED  BY <1>1, <1>3, <1>4, <1>5, <1>7 DEF ReservationResume, Gathers

LEMMA MoveOfLock ==
  ASSUME TypeInv, NEW s \in Sessions, NEW o \in Objects, Lock(s, o)
  PROVE  Locks(s, o)
BY LockEffect DEF TypeInv, Locks

LEMMA MoveOfEnlist ==
  ASSUME TypeInv, NEW c \in Calls, Enlist(c)
  PROVE  Enlists(c)
<1> USE DEF TypeInv, cacheVars, sessionVars
<1> DEFINE s == Caller[c]
           pend == pending[s] \cup call[c].got
<1>1. /\ s \in Sessions /\ pend \subseteq Objects /\ pending'[s] = pend
      /\ pending' = [pending EXCEPT ![s] = @ \cup call[c].got]
      /\ call[c].pc = "gathered"
      /\ UNCHANGED <<current, created, released, locked, reserved, op>>
  BY CallerAssumption DEF Enlist, TypeOK, CallState
<1>2. \/ call' = [call EXCEPT ![c].pc = "done"] /\ UNCHANGED <<owner, locker>>
      \/ call' = [call EXCEPT ![c].pc = "locking"] /\ UNCHANGED <<owner, locker>>
      \/ /\ call' = [call EXCEPT ![c].pc = "locking"]
         /\ locker[s].pc = "idle" /\ \E o \in pend : Lock(s, o)
  BY DEF Enlist
<1>3. \E pc \in {"done", "locking"} : call' = [call EXCEPT ![c].pc = pc]
  BY <1>2
<1>4. /\ call'[c].pc \in {"locking", "done"} /\ call'[c].got = call[c].got
      /\ \A d \in Calls \ {c} : call'[d] = call[d]
  BY <1>3, CallPcEffect
<1>5. CASE UNCHANGED <<owner, locker>>
  BY <1>1, <1>4, <1>5 DEF Enlists
<1>6. CASE /\ call' = [call EXCEPT ![c].pc = "locking"]
           /\ locker[s].pc = "idle" /\ \E o \in pend : Lock(s, o)
  <2>1. PICK o \in pend : Lock(s, o)
    BY <1>6
  <2>2. Locks(s, o)
    BY <1>1, <2>1, MoveOfLock
  <2>3. call'[c].pc = "locking"
    BY <1>6, CallPcEffect
  <2>4. locker[s].pc = "idle" /\ call'[c].pc = "locking" /\ \E u \in pending'[s] : Locks(s, u)
    BY <1>1, <1>6, <2>1, <2>2, <2>3
  <2> QED  BY <1>1, <1>4, <2>4 DEF Enlists
<1> QED  BY <1>2, <1>5, <1>6

LEMMA RunEndsBySettle ==
  ASSUME TypeInv, NEW s \in Sessions, NEW outcome \in {"done", "failed"},
         locker' = [locker EXCEPT ![s] = IdleLocker], UNCHANGED owner,
         call' = Settle(s, outcome)
  PROVE  RunEnds(s)
BY SettleEffect DEF RunEnds, TypeInv

LEMMA MoveOfLockNext ==
  ASSUME TypeInv, NEW s \in Sessions, LockNext(s)
  PROVE  Books(s)
<1> USE DEF TypeInv, cacheVars, sessionVars
<1> DEFINE o == locker[s].rec
           pend == pending[s] \ {o}
<1>1. /\ locker[s].pc = "granted"
      /\ locked' = [locked EXCEPT ![s] = @ \cup {o}]
      /\ pending' = [pending EXCEPT ![s] = @ \ {o}] /\ pending'[s] = pend
      /\ reserved' = [reserved EXCEPT ![o] = NoSession]
      /\ UNCHANGED <<current, created, released, op>>
      /\ pend \subseteq Objects
      /\ \/ /\ locker' = [locker EXCEPT ![s] = IdleLocker]
            /\ call' = Settle(s, "done") /\ UNCHANGED owner
         \/ UNCHANGED call /\ \E p \in pend : Lock(s, p)
  BY DEF LockNext, TypeOK
<1>2. CASE /\ locker' = [locker EXCEPT ![s] = IdleLocker]
           /\ call' = Settle(s, "done") /\ UNCHANGED owner
  <2>1. RunEnds(s)
    BY <1>2, RunEndsBySettle
  <2> QED  BY <1>1, <2>1 DEF Books
<1>3. CASE UNCHANGED call /\ \E p \in pend : Lock(s, p)
  <2>1. PICK p \in pend : Lock(s, p)
    BY <1>3
  <2>2. Locks(s, p)
    BY <1>1, <2>1, MoveOfLock
  <2>3. UNCHANGED call /\ \E u \in pending'[s] : Locks(s, u)
    BY <1>1, <1>3, <2>1, <2>2
  <2> QED  BY <1>1, <2>3 DEF Books
<1> QED  BY <1>1, <1>2, <1>3

LEMMA MoveOfRefusal ==
  ASSUME TypeInv, NEW s \in Sessions, LockRefused(s)
  PROVE  Throws(s)
BY RunEndsBySettle DEF LockRefused, Throws, cacheVars, sessionVars

LEMMA MoveOfOp ==
  ASSUME TypeInv, NEW p \in Ops, OpStep(p)
  PROVE  Operates(p)
<1> USE DEF TypeInv, cacheVars, sessionVars
<1>1. OpUnmoved(p)
  BY OpEffect
<1>2. \A t \in Sessions : locked'[t] \subseteq locked[t]
  BY DEF OpStep, OpStart, OpCreate, OpResume, OpAct, OpFail, OpForget, TypeOK
<1>3. op[p].pc = "waiting" => released[op[p].on]
  BY DEF OpStep, OpStart, OpCreate, OpResume, OpAct, OpFail, OpForget
<1>4. created \subseteq created'
  BY DEF OpStep, OpStart, OpCreate, OpResume, OpAct, OpFail, OpForget, PutRecord
<1> QED  BY <1>1, <1>2, <1>3, <1>4 DEF Operates

(* Every step of an orderly client's program is one of these moves. *)
LEMMA MovesOnly ==
  ASSUME TypeInv, RestInv, [TickNext /\ Orderly]_tickVars
  PROVE  Moves
<1>1. [Next]_vars
  BY TickStepIsStep
<1>2. ASSUME NEW c \in Calls, ReservationResume(c) PROVE ~released[Caller[c]]
  BY <1>2 DEF ReservationResume, RestInv, Over
<1>3. ASSUME NEW s \in Sessions, ReleaseRecords(s), ~released[s] PROVE Frees(s)
  <2>1. released'[s] # released[s]
    BY <1>3 DEF ReleaseRecords, TypeInv, TypeOK
  <2>2. Orderly
    BY <2>1 DEF tickVars, vars
  <2> QED  BY <1>3, <2>1, <2>2 DEF Frees, Orderly
<1> QED  BY <1>1, <1>2, <1>3, NextCases, MoveOfAcquire, MoveOfResume, MoveOfEnlist,
            MoveOfLockNext, MoveOfRefusal, MoveOfOp DEF Moves

LEMMA RestInit == Init => RestInv
BY DEF Init, RestInv, Over, IdleLocker, IdleCall

(* Runs: each serves a call, and locks what is pending. *)
LEMMA RunsKept ==
  ASSUME TypeInv, RestInv, Moves, NEW s \in Sessions, locker'[s].pc # "idle"
  PROVE  /\ locker'[s].rec \in pending'[s]
         /\ \E c \in Calls : Caller[c] = s /\ call'[c].pc = "locking"
<1> USE DEF TypeInv, TypeOK
<1> DEFINE Run == /\ locker'[s].rec \in pending'[s]
                  /\ \E c \in Calls : Caller[c] = s /\ call'[c].pc = "locking"
<1>0. ASSUME locker'[s] = locker[s], locker[s].rec \in pending'[s],
             \A c \in Calls : Caller[c] = s /\ call[c].pc = "locking" => call'[c].pc = "locking"
      PROVE  Run
  BY <1>0 DEF RestInv
<1>1. ASSUME NEW c \in Calls, Gathers(c) \/ Refused(c) PROVE Run
  <2>1. /\ UNCHANGED <<locker, pending>>
        /\ \A d \in Calls : call[d].pc = "locking" => call'[d].pc = "locking"
    BY <1>1 DEF Gathers, Refused
  <2> QED  BY <2>1 DEF RestInv
<1>2. ASSUME NEW c \in Calls, Enlists(c) PROVE Run
  <2>1. /\ call[c].pc = "gathered" /\ Caller[c] \in Sessions
        /\ \A d \in Calls \ {c} : call'[d] = call[d]
        /\ \A t \in Sessions : pending[t] \subseteq pending'[t]
    BY <1>2, CallerAssumption DEF Enlists
  <2>2. CASE UNCHANGED locker
    BY <2>1, <2>2 DEF RestInv
  <2>3. CASE call'[c].pc = "locking" /\ \E o \in pending'[Caller[c]] : Locks(Caller[c], o)
    <3>1. CASE s = Caller[c]
      BY <2>3, <3>1 DEF Locks
    <3>2. CASE s # Caller[c]
      <4>1. locker'[s] = locker[s]
        BY <2>3, <3>2 DEF Locks
      <4> QED  BY <2>1, <4>1 DEF RestInv
    <3> QED  BY <3>1, <3>2
  <2> QED  BY <1>2, <2>2, <2>3 DEF Enlists
<1>3. ASSUME NEW t \in Sessions, LockResume(t) PROVE Run
  <2>1. UNCHANGED <<pending, call>> /\ locker[s].pc # "idle" /\ locker'[s].rec = locker[s].rec
    BY <1>3 DEF LockResume, sessionVars, LockerState
  <2> QED  BY <2>1 DEF RestInv
<1>4. ASSUME NEW t \in Sessions, RunEnds(t), \A u \in Sessions \ {t} : pending'[u] = pending[u]
      PROVE  Run
  <2>1. s # t /\ locker'[s] = locker[s]
    BY <1>4 DEF RunEnds, IdleLocker
  <2>2. \A c \in Calls : Caller[c] = s => call'[c] = call[c]
    BY <1>4, <2>1 DEF RunEnds
  <2> QED  BY <1>4, <2>1, <2>2 DEF RestInv
<1>5. ASSUME NEW t \in Sessions, Books(t) PROVE Run
  <2>1. \A u \in Sessions \ {t} : pending'[u] = pending[u]
    BY <1>5 DEF Books
  <2>2. ASSUME UNCHANGED call, NEW p \in pending'[t], Locks(t, p) PROVE Run
    <3>1. \E c \in Calls : Caller[c] = t /\ call[c].pc = "locking"
      BY <1>5 DEF Books, RestInv
    <3>2. CASE s = t
      BY <2>2, <3>1, <3>2 DEF Locks
    <3>3. CASE s # t
      <4>1. locker'[s] = locker[s]
        BY <2>2, <3>3 DEF Locks
      <4> QED  BY <2>1, <2>2, <3>3, <4>1 DEF RestInv
    <3> QED  BY <3>2, <3>3
  <2> QED  BY <1>4, <1>5, <2>1, <2>2 DEF Books
<1>6. ASSUME NEW t \in Sessions, Throws(t) PROVE Run
  BY <1>4, <1>6 DEF Throws
<1>7. ASSUME NEW t \in Sessions, Frees(t) PROVE Run
  BY <1>7 DEF Frees, ReleaseRecords, RestInv
<1>8. ASSUME NEW p \in Ops, Operates(p) PROVE Run
  BY <1>8 DEF Operates, OpUnmoved, RestInv
<1>9. CASE UNCHANGED vars
  BY <1>9 DEF vars, RestInv
<1> QED  BY <1>1, <1>2, <1>3, <1>5, <1>6, <1>7, <1>8, <1>9 DEF Moves

(* A released session: its calls stay over, its run idle, its pending      *)
(* records what they are.                                                  *)
LEMMA ReleasedRests ==
  ASSUME TypeInv, RestInv, Moves, NEW s \in Sessions, released[s]
  PROVE  /\ released'[s]
         /\ locker[s].pc = "idle" /\ locker'[s] = locker[s]
         /\ pending'[s] = pending[s]
         /\ locked'[s] \subseteq locked[s]
         /\ \A c \in Calls : Caller[c] = s => Over(c) /\ Over(c)'
<1> USE DEF TypeInv, TypeOK
<1> DEFINE Rests == /\ released'[s] /\ locker'[s] = locker[s] /\ pending'[s] = pending[s]
                    /\ locked'[s] \subseteq locked[s]
                    /\ \A c \in Calls : Caller[c] = s => Over(c)'
<1>0. /\ \A c \in Calls : Caller[c] = s => Over(c)
      /\ locker[s].pc = "idle"
  BY DEF RestInv, Over
<1>1. ASSUME NEW c \in Calls, Gathers(c) \/ Refused(c) PROVE Rests
  BY <1>0, <1>1 DEF Gathers, Refused, Over
<1>2. ASSUME NEW c \in Calls, Enlists(c) PROVE Rests
  <2>1. Caller[c] # s /\ Caller[c] \in Sessions
    BY <1>0, <1>2, CallerAssumption DEF Enlists, Over
  <2>2. locker'[s] = locker[s]
    BY <1>2, <2>1 DEF Enlists, Locks
  <2> QED  BY <1>0, <1>2, <2>1, <2>2 DEF Enlists, Over
<1>3. ASSUME NEW t \in Sessions, LockResume(t) PROVE Rests
  BY <1>0, <1>3 DEF LockResume, sessionVars, Over
<1>4. ASSUME NEW t \in Sessions, Books(t) PROVE Rests
  <2>1. t # s
    BY <1>0, <1>4 DEF Books
  <2>2. locker'[s] = locker[s]
    BY <1>4, <2>1 DEF Books, RunEnds, Locks
  <2>3. \A c \in Calls : Caller[c] = s => call'[c] = call[c]
    BY <1>4, <2>1 DEF Books, RunEnds
  <2> QED  BY <1>0, <1>4, <2>1, <2>2, <2>3 DEF Books, Over
<1>5. ASSUME NEW t \in Sessions, Throws(t) PROVE Rests
  <2>1. t # s
    BY <1>0, <1>5 DEF Throws
  <2>2. \A c \in Calls : Caller[c] = s => call'[c] = call[c]
    BY <1>5, <2>1 DEF Throws, RunEnds
  <2> QED  BY <1>0, <1>5, <2>1, <2>2 DEF Throws, RunEnds, Over
<1>6. ASSUME NEW t \in Sessions, Frees(t) PROVE Rests
  <2>1. t # s
    BY <1>6 DEF Frees
  <2> QED  BY <1>0, <1>6, <2>1 DEF Frees, ReleaseRecords, Over
<1>7. ASSUME NEW p \in Ops, Operates(p) PROVE Rests
  BY <1>0, <1>7 DEF Operates, OpUnmoved, Over
<1>8. CASE UNCHANGED vars
  BY <1>0, <1>8 DEF vars, Over
<1>9. Rests
  BY <1>1, <1>2, <1>3, <1>4, <1>5, <1>6, <1>7, <1>8 DEF Moves
<1> QED  BY <1>0, <1>9

(* What begins to wait. *)
LEMMA NewReservation ==
  ASSUME TypeInv, RestInv, Moves, NEW c \in Calls,
         call'[c].pc = "reserving", call'[c] # call[c]
  PROVE  /\ Gathers(c)
         /\ call'[c].on = reserved'[call'[c].rec]
         /\ call'[c].rec \in Objects /\ call'[c].on \in Sessions
         /\ UNCHANGED released
<1>1. ASSUME NEW d \in Calls, Gathers(d) \/ Refused(d) \/ Enlists(d)
      PROVE  d = c /\ Gathers(c)
  BY <1>1 DEF Gathers, Refused, Enlists
<1>2. ASSUME NEW s \in Sessions PROVE ~(LockResume(s) \/ Books(s) \/ Throws(s) \/ Frees(s))
  BY DEF LockResume, Books, Throws, RunEnds, Frees, ReleaseRecords
<1>3. Gathers(c)
  BY <1>1, <1>2 DEF Moves, Operates, OpUnmoved, vars
<1> QED  BY <1>3 DEF Gathers

LEMMA ReleasedByItself ==
  ASSUME TypeInv, Moves, NEW s \in Sessions, ~released[s], released'[s]
  PROVE  Frees(s)
<1>1. ASSUME NEW t \in Sessions, Frees(t) PROVE t = s
  BY <1>1 DEF Frees, ReleaseRecords, TypeInv, TypeOK
<1> QED  BY <1>1 DEF Moves, Gathers, Refused, Enlists, LockResume, Books, Throws, Operates,
                     OpUnmoved, vars, sessionVars

LEMMA RestKept ==
  ASSUME TypeInv, CacheInv, HoldInv, RestInv, Moves, [Next]_vars
  PROVE  RestInv'
<1>0. OwnerStep /\ TypeInv'
  BY HoldStep, TypeStep
<1>1. \A s \in Sessions : locker'[s].pc # "idle" =>
        /\ locker'[s].rec \in pending'[s]
        /\ \E c \in Calls : Caller[c] = s /\ call'[c].pc = "locking"
  BY <1>0, RunsKept
<1>2. ASSUME NEW s \in Sessions, ~released[s], released'[s] PROVE Frees(s)
  BY <1>0, <1>2, ReleasedByItself
<1>3. ASSUME NEW c \in Calls, released'[Caller[c]] PROVE Over(c)'
  <2>1. Caller[c] \in Sessions
    BY CallerAssumption
  <2>2. CASE released[Caller[c]]
    BY <1>0, <2>1, <2>2, ReleasedRests
  <2>3. CASE ~released[Caller[c]]
    BY <1>2, <1>3, <2>1, <2>3 DEF Frees, ReleaseRecords, Over
  <2> QED  BY <2>2, <2>3
<1>4. ASSUME NEW s \in Sessions, locker'[s].pc = "granted" PROVE ~released'[s]
  BY <1>1, <1>3, <1>4 DEF Over
<1>5. ASSUME NEW o \in Objects, InCache(o)', owner'[o] # NoSession PROVE ~released'[owner'[o]]
  <2>0. owner'[o] \in Sessions
    BY <1>0, <1>5 DEF TypeInv, TypeOK
  <2>1. CASE owner'[o] = owner[o]
    <3>1. InCache(o)
      BY <1>0, <1>5, <2>1, MapGrowsByNew DEF CacheInv, CreatedInv
    <3>2. ~released[owner[o]] /\ Holds(owner[o], o)
      BY <1>5, <2>1, <3>1 DEF RestInv, HoldInv, OwnerTracked
    <3>3. ~Frees(owner[o])
      <4> SUFFICES ASSUME Frees(owner[o]) PROVE FALSE
        OBVIOUS
      <4>1. o \in locked[owner[o]]
        BY <3>2, <2>0, <2>1 DEF Frees, Holds, RestInv
      <4>2. owner'[o] = NoSession
        BY <4>1 DEF Frees, ReleaseRecords
      <4> QED  BY <1>5, <4>2
    <3> QED  BY <1>2, <2>0, <2>1, <3>2, <3>3
  <2>2. CASE owner'[o] # owner[o]
    <3>1. locker'[owner'[o]].pc = "granted"
      BY <1>0, <1>5, <2>2 DEF OwnerStep
    <3> QED  BY <1>4, <2>0, <3>1
  <2> QED  BY <2>1, <2>2
<1>6. ASSUME NEW s \in Sessions PROVE locked'[s] \subseteq created'
  <2>1. created \subseteq created'
    BY <1>0 DEF Moves, Gathers, Refused, Enlists, LockResume, Books, Throws, Frees,
                ReleaseRecords, Operates, vars, cacheVars
  <2>2. \A t \in Sessions : locker[t].pc = "granted" => locker[t].rec \in created
    BY DEF CacheInv, CreatedInv
  <2>3. locked[s] \subseteq created
    BY DEF RestInv
  <2>4. ASSUME NEW t \in Sessions, Books(t) PROVE locked'[s] \subseteq created
    BY <2>2, <2>3, <2>4 DEF Books, TypeInv, TypeOK
  <2>5. ASSUME NEW t \in Sessions, Frees(t) PROVE locked'[s] \subseteq locked[s]
    BY <2>5 DEF Frees, ReleaseRecords, TypeInv, TypeOK
  <2>6. locked'[s] \subseteq created
    BY <1>0, <2>3, <2>4, <2>5
       DEF Moves, Gathers, Refused, Enlists, LockResume, Throws, Operates, vars, sessionVars
  <2> QED  BY <2>1, <2>6
<1>7. ASSUME NEW c \in Calls, call'[c].pc = "reserving" PROVE call'[c].on \in Sessions
  BY <1>0, <1>7, NewReservation DEF RestInv
<1> QED  BY <1>1, <1>3, <1>5, <1>6, <1>7 DEF RestInv, Over, InCache

LEMMA RestNext ==
  ASSUME TypeInv, CacheInv, HoldInv, RestInv, [TickNext /\ Orderly]_tickVars
  PROVE  RestInv'
BY RestKept, MovesOnly, TickStepIsStep

-----------------------------------------------------------------------------
(* Ticks *)

DueTypes ==
  /\ callDue \in [Calls -> 0..Never]
  /\ lockerDue \in [Sessions -> 0..Never]
  /\ opDue \in [Ops -> 0..Never]

(* A step that runs e ticks from now; an await goes on when it is due. *)
Timely(e) ==
  /\ Schedule(e) /\ FirstDue(e)
  /\ \A c \in Calls : call[c].pc = "reserving" /\ call'[c] # call[c] =>
       e = callDue[c] /\ released[call[c].on]
  /\ \A p \in Ops : op[p].pc = "waiting" /\ op'[p] # op[p] =>
       e = opDue[p] /\ released[op[p].on]

LEMMA TimelyNow ==
  ASSUME DueTypes, Schedule(0),
         \A c \in Calls : call[c].pc = "reserving" => call'[c] = call[c],
         \A p \in Ops : op[p].pc = "waiting" => op'[p] = op[p]
  PROVE  Timely(0)
BY DEF DueTypes, Timely, FirstDue, Never

LEMMA OpKeepsOthers ==
  ASSUME TypeInv, NEW p \in Ops, OpStep(p)
  PROVE  /\ UNCHANGED call
         /\ \A q \in Ops \ {p} : op'[q] = op[q]
BY OpEffect DEF OpUnmoved

LEMMA AcquireKeepsOthers ==
  ASSUME TypeInv, NEW c \in Calls, NEW request \in Requests, Acquire(c, request)
  PROVE  /\ call[c].pc = "idle" /\ UNCHANGED op
         /\ \A d \in Calls \ {c} : call'[d] = call[d]
<1>1. \A d \in Calls \ {c} : call'[d] = call[d]
  BY MoveOfAcquire DEF Gathers, Refused
<1> QED  BY <1>1 DEF Acquire

LEMMA EveryStepTimely ==
  ASSUME TypeInv, DueTypes, TickNext
  PROVE  \E e \in 0..Never : Timely(e)
<1> USE DEF TypeInv, TypeOK, DueTypes
<1>0. 0 \in 0..Never
  BY DEF Never
<1>1. ASSUME NEW c \in Calls, ResumeCall(c) PROVE \E e \in 0..Never : Timely(e)
  <2>1. Schedule(callDue[c]) /\ FirstDue(callDue[c]) /\ callDue[c] \in 0..Never
    BY <1>1 DEF ResumeCall, Continue
  <2>2. UNCHANGED op /\ (call[c].pc = "reserving" => released[call[c].on])
    BY <1>1 DEF ResumeCall, ReservationResume, Enlist
  <2>3. \A d \in Calls \ {c} : call'[d] = call[d]
    <3>1. CASE Enlist(c)
      BY <3>1, MoveOfEnlist DEF Enlists
    <3>2. CASE ReservationResume(c)
      BY <3>2 DEF ReservationResume, Gather
    <3> QED  BY <1>1, <3>1, <3>2 DEF ResumeCall
  <2>4. Timely(callDue[c])
    BY <2>1, <2>2, <2>3 DEF Timely
  <2> QED  BY <2>1, <2>4
<1>2. ASSUME NEW s \in Sessions, ResumeLocker(s) PROVE \E e \in 0..Never : Timely(e)
  <2>1. Schedule(lockerDue[s]) /\ FirstDue(lockerDue[s]) /\ lockerDue[s] \in 0..Never
    BY <1>2 DEF ResumeLocker, Continue
  <2>2. UNCHANGED op
    BY <1>2 DEF ResumeLocker, LockResume, LockNext, LockRefused
  <2>3. \A d \in Calls : call[d].pc = "reserving" => call'[d] = call[d]
    <3>1. CASE LockResume(s)
      BY <3>1 DEF LockResume
    <3>2. CASE LockNext(s)
      BY <3>2, MoveOfLockNext DEF Books, RunEnds
    <3>3. CASE LockRefused(s)
      BY <3>3, MoveOfRefusal DEF Throws, RunEnds
    <3> QED  BY <1>2, <3>1, <3>2, <3>3 DEF ResumeLocker
  <2>4. Timely(lockerDue[s])
    BY <2>1, <2>2, <2>3 DEF Timely
  <2> QED  BY <2>1, <2>4
<1>3. ASSUME NEW p \in Ops, ResumeOp(p) PROVE \E e \in 0..Never : Timely(e)
  <2>1. Schedule(opDue[p]) /\ FirstDue(opDue[p]) /\ opDue[p] \in 0..Never
    BY <1>3 DEF ResumeOp, Continue
  <2>2. /\ released[op[p].on] /\ UNCHANGED call
        /\ \A q \in Ops \ {p} : op'[q] = op[q]
    BY <1>3 DEF ResumeOp, OpResume
  <2>3. Timely(opDue[p])
    BY <2>1, <2>2 DEF Timely
  <2> QED  BY <2>1, <2>3
<1>4. ASSUME ClientStep PROVE Timely(0)
  <2>1. Schedule(0)
    BY <1>4 DEF ClientStep
  <2>2. ASSUME NEW c \in Calls, NEW request \in Requests, Acquire(c, request) PROVE Timely(0)
    BY <2>1, <2>2, AcquireKeepsOthers, TimelyNow
  <2>3. ASSUME NEW s \in Sessions, Release(s) PROVE Timely(0)
    BY <2>1, <2>3, TimelyNow DEF Release, ReleaseRecords
  <2>4. ASSUME NEW p \in Ops, NEW key \in Keys,
               \/ \E kind \in Kinds, as \in Sessions \cup {NoSession} : OpStart(p, kind, key, as)
               \/ "set" \in Kinds /\ OpCreate(p, key)
        PROVE  Timely(0)
    <3>1. op[p].pc = "idle"
      BY <2>4 DEF OpStart, OpCreate
    <3>2. OpStep(p)
      BY <2>4 DEF OpStep
    <3> QED  BY <2>1, <3>1, <3>2, OpKeepsOthers, TimelyNow
  <2> QED  BY <1>4, <2>2, <2>3, <2>4 DEF ClientStep
<1>5. ASSUME EngineStep PROVE Timely(0)
  <2>1. Schedule(0)
    BY <1>5 DEF EngineStep
  <2>2. PICK p \in Ops : OpAct(p) \/ OpFail(p) \/ OpForget(p)
    BY <1>5 DEF EngineStep
  <2>3. op[p].pc # "waiting" /\ OpStep(p)
    BY <2>2 DEF OpAct, OpFail, OpForget, OpStep
  <2> QED  BY <2>1, <2>3, OpKeepsOthers, TimelyNow
<1>6. ASSUME TimerStep PROVE Timely(0)
  BY <1>6, TimelyNow DEF TimerStep, Timeout, ReleaseRecords
<1> QED  BY <1>0, <1>1, <1>2, <1>3, <1>4, <1>5, <1>6 DEF TickNext

LEMMA DueTypesInit == TickInit => DueTypes
BY DEF TickInit, DueTypes, Never

LEMMA DueTypesNext ==
  ASSUME DueTypes, NEW e \in 0..Never, Timely(e)
  PROVE  DueTypes'
<1> USE DEF Never, DueTypes
<1>1. \A c \in Calls : callDue[c] \in 0..9 /\ e <= callDue[c]
  BY DEF Timely, FirstDue
<1>2. \A s \in Sessions : lockerDue[s] \in 0..9 /\ e <= lockerDue[s]
  BY DEF Timely, FirstDue
<1>3. \A p \in Ops : opDue[p] \in 0..9 /\ e <= opDue[p]
  BY DEF Timely, FirstDue
<1>4. \A d \in 0..9 : e <= d => Later(d, e) \in 0..9
  BY DEF Later
<1>5. callDue' \in [Calls -> 0..9]
  BY <1>1, <1>4 DEF Timely, Schedule, AcquireTicks
<1>6. lockerDue' \in [Sessions -> 0..9]
  BY <1>2, <1>4 DEF Timely, Schedule, LockTicks
<1>7. opDue' \in [Ops -> 0..9]
  BY <1>3, <1>4 DEF Timely, Schedule, OpTicks
<1> QED  BY <1>5, <1>6, <1>7

(* When those go on that await session h, once it is released. *)
LEMMA DueOfLocker ==
  ASSUME NEW e \in 0..Never, Timely(e), NEW s \in Sessions, locker'[s] = locker[s],
         locker[s].pc = "waiting", released'[locker[s].on]
  PROVE  lockerDue'[s] = IF released[locker[s].on] THEN Later(lockerDue[s], e) ELSE 3
BY DEF Timely, Schedule, LockTicks

LEMMA DueOfCall ==
  ASSUME NEW e \in 0..Never, Timely(e), NEW c \in Calls, call'[c] = call[c],
         call[c].pc = "reserving", released'[call[c].on]
  PROVE  callDue'[c] = IF released[call[c].on] THEN Later(callDue[c], e) ELSE 4
BY DEF Timely, Schedule, AcquireTicks

LEMMA DueOfOp ==
  ASSUME NEW e \in 0..Never, Timely(e), NEW p \in Ops, op'[p] = op[p],
         op[p].pc = "waiting", released'[op[p].on]
  PROVE  IF released[op[p].on] THEN opDue'[p] = Later(opDue[p], e) ELSE opDue'[p] \in 4..5
BY DEF Timely, Schedule, OpTicks

(* Who awaits a released session in lock() is due before any acquire or    *)
(* operation that awaits it for the same cached record, unless the         *)
(* record's reservation is left of an acquire that threw.                  *)
DueInv ==
  \A s \in Sessions :
    /\ locker[s].pc = "waiting" /\ InCache(locker[s].rec) /\ released[locker[s].on]
    => /\ \A c \in Calls : /\ call[c].pc = "reserving"
                           /\ call[c].rec = locker[s].rec /\ call[c].on = locker[s].on
                           /\ locker[s].rec \notin pending[locker[s].on]
                           => lockerDue[s] < callDue[c]
       /\ \A p \in Ops : /\ op[p].pc = "waiting"
                         /\ op[p].rec = locker[s].rec /\ op[p].on = locker[s].on
                         => lockerDue[s] < opDue[p]

LEMMA LaterKeepsOrder ==
  ASSUME NEW e \in 0..Never, NEW x \in 0..Never, NEW y \in 0..Never, e <= x, x < y
  PROVE  Later(x, e) < Later(y, e)
BY DEF Later, Never

(* What the proofs that follow rest on. *)
TickInv == TypeInv /\ CacheInv /\ HoldInv /\ ReservationTracked /\ RestInv /\ DueTypes

LEMMA DueNext ==
  ASSUME TickInv, DueInv, TickInv', [TickNext /\ Orderly]_tickVars
  PROVE  DueInv'
<1> USE DEF TickInv
<1>0. CASE UNCHANGED tickVars
  BY <1>0 DEF tickVars, vars, dueVars, DueInv, InCache
<1>1. CASE TickNext
  <2>0. Moves /\ WaitStep /\ [Next]_vars
    BY MovesOnly, HoldStep, TickStepIsStep
  <2>1. PICK e \in 0..Never : Timely(e)
    BY <1>1, EveryStepTimely
  <2>2. SUFFICES ASSUME NEW s \in Sessions, NEW o \in Objects, NEW h \in Sessions,
                        locker'[s].pc = "waiting", locker'[s].rec = o, locker'[s].on = h,
                        InCache(o)', released'[h]
                 PROVE  /\ \A c \in Calls : /\ call'[c].pc = "reserving"
                                            /\ call'[c].rec = o /\ call'[c].on = h
                                            /\ o \notin pending'[h]
                                            => lockerDue'[s] < callDue'[c]
                        /\ \A p \in Ops : /\ op'[p].pc = "waiting"
                                          /\ op'[p].rec = o /\ op'[p].on = h
                                          => lockerDue'[s] < opDue'[p]
    <3>1. \A s \in Sessions : locker'[s].pc = "waiting" =>
            locker'[s].rec \in Objects /\ locker'[s].on \in Sessions
      BY DEF TypeInv, WellFormed
    <3> QED  BY <3>1 DEF DueInv, InCache
  <2>4. owner'[o] # h
    BY <2>2, NoneAssumption DEF RestInv, InCache
  <2>5. locker'[s] = locker[s]
    BY <2>0, <2>2, <2>4 DEF WaitStep
  <2>6. InCache(o)
    <3>1. o \in created
      BY <2>2, <2>5 DEF CacheInv, CreatedInv
    <3> QED  BY <2>0, <2>2, <3>1, MapGrowsByNew
  <2>7. lockerDue'[s] = IF released[h] THEN Later(lockerDue[s], e) ELSE 3
    BY <2>1, <2>2, <2>5, DueOfLocker
  <2>8. e <= lockerDue[s] /\ lockerDue[s] \in 0..Never
    BY <2>1 DEF Timely, FirstDue, DueTypes
  <2>9. ASSUME NEW c \in Calls, call'[c].pc = "reserving", call'[c].rec = o, call'[c].on = h,
               o \notin pending'[h]
        PROVE  lockerDue'[s] < callDue'[c]
    <3>1. call'[c] = call[c]
      <4> SUFFICES ASSUME call'[c] # call[c] PROVE FALSE
        OBVIOUS
      <4>1. reserved'[o] = h
        BY <2>0, <2>9, NewReservation
      <4>2. PICK d \in Calls : /\ Caller[d] = h
                               /\ call'[d].pc \in {"reserving", "gathered"}
        BY <2>2, <2>9, <4>1, NoneAssumption DEF ReservationTracked
      <4> QED  BY <2>2, <4>2 DEF RestInv, Over
    <3>2. callDue'[c] = IF released[h] THEN Later(callDue[c], e) ELSE 4
      BY <2>1, <2>2, <2>9, <3>1, DueOfCall
    <3>3. CASE released[h]
      <4>1. pending'[h] = pending[h]
        BY <2>0, <3>3, ReleasedRests
      <4>2. lockerDue[s] < callDue[c]
        BY <2>2, <2>5, <2>6, <2>9, <3>1, <3>3, <4>1 DEF DueInv
      <4>3. callDue[c] \in 0..Never
        BY DEF DueTypes
      <4> QED  BY <2>7, <2>8, <3>2, <3>3, <4>2, <4>3, LaterKeepsOrder
    <3> QED  BY <2>7, <3>2, <3>3
  <2>10. ASSUME NEW p \in Ops, op'[p].pc = "waiting", op'[p].rec = o, op'[p].on = h
         PROVE  lockerDue'[s] < opDue'[p]
    <3>1. op'[p] = op[p]
      BY <2>0, <2>4, <2>10, OpWaitStep
    <3>2. IF released[h] THEN opDue'[p] = Later(opDue[p], e) ELSE opDue'[p] \in 4..5
      BY <2>1, <2>2, <2>10, <3>1, DueOfOp
    <3>3. CASE released[h]
      <4>1. lockerDue[s] < opDue[p]
        BY <2>2, <2>5, <2>6, <2>10, <3>1, <3>3 DEF DueInv
      <4>2. opDue[p] \in 0..Never
        BY DEF DueTypes
      <4> QED  BY <2>7, <2>8, <3>2, <3>3, <4>1, <4>2, LaterKeepsOrder
    <3> QED  BY <2>7, <3>2, <3>3
  <2> QED  BY <2>9, <2>10
<1> QED  BY <1>0, <1>1

LEMMA TickInvInit == TickInit => TickInv /\ DueInv
<1> SUFFICES ASSUME TickInit PROVE TickInv /\ DueInv
  OBVIOUS
<1>1. Init
  BY DEF TickInit
<1>2. ReservationTracked /\ DueInv
  BY <1>1 DEF Init, ReservationTracked, DueInv, IdleLocker
<1> QED  BY <1>1, <1>2, TypeInit, CacheInit, HoldInit, RestInit, DueTypesInit DEF TickInv

LEMMA TickInvNext ==
  ASSUME TickInv, [TickNext /\ Orderly]_tickVars
  PROVE  TickInv'
<1> USE DEF TickInv
<1>1. [Next]_vars
  BY TickStepIsStep
<1>2. DueTypes'
  <2>1. CASE UNCHANGED tickVars
    BY <2>1 DEF tickVars, dueVars, DueTypes
  <2>2. CASE TickNext
    BY <2>2, EveryStepTimely, DueTypesNext
  <2> QED  BY <2>1, <2>2
<1> QED  BY <1>1, <1>2, TypeStep, CacheStep, HoldNext, ReservationNext, RestNext

LEMMA TickAlways == OrderlySpec => [](TickInv /\ DueInv)
<1>1. TickInv /\ DueInv /\ [TickNext /\ Orderly]_tickVars => (TickInv /\ DueInv)'
  BY TickInvNext, DueNext
<1> QED  BY <1>1, TickInvInit, PTL DEF OrderlySpec

(***************************************************************************)
(* Whoever awaits a session in lock() goes on before the acquires and the  *)
(* operations that await it for the same record: lock()'s chain of         *)
(* promises is the shortest, and a session that is released holds nothing  *)
(* that somebody could begin to wait for.                                  *)
(***************************************************************************)
THEOREM LockersComeFirst == OrderlySpec => LockersFirst
<1> DEFINE Behind(s, w) == /\ locker[s].pc = "waiting"
                           /\ InCache(locker[s].rec)
                           /\ w.rec = locker[s].rec
                           /\ w.on = locker[s].on
           First == \A s \in Sessions :
             /\ \A c \in Calls : /\ call[c].pc = "reserving" /\ Behind(s, call[c])
                                 /\ call[c].rec \notin pending[call[c].on]
                                 => call'[c] = call[c]
             /\ \A p \in Ops : op[p].pc = "waiting" /\ Behind(s, op[p]) => op'[p] = op[p]
<1>1. ASSUME TickInv, DueInv, [TickNext /\ Orderly]_tickVars PROVE [First]_tickVars
  <2> USE DEF TickInv
  <2>1. SUFFICES ASSUME TickNext PROVE First
    BY <1>1
  <2>2. PICK e \in 0..Never : Timely(e)
    BY <1>1, <2>1, EveryStepTimely
  <2>3. ASSUME NEW s \in Sessions, NEW c \in Calls, call[c].pc = "reserving",
               Behind(s, call[c]), call[c].rec \notin pending[call[c].on]
        PROVE  call'[c] = call[c]
    <3> SUFFICES ASSUME call'[c] # call[c] PROVE FALSE
      OBVIOUS
    <3>1. e = callDue[c] /\ released[call[c].on]
      BY <2>2, <2>3 DEF Timely
    <3>2. lockerDue[s] < callDue[c]
      BY <1>1, <2>3, <3>1 DEF DueInv
    <3>3. callDue[c] <= lockerDue[s] /\ callDue[c] \in 0..Never /\ lockerDue[s] \in 0..Never
      BY <1>1, <2>2, <3>1 DEF Timely, FirstDue, DueTypes
    <3> QED  BY <3>2, <3>3 DEF Never
  <2>4. ASSUME NEW s \in Sessions, NEW p \in Ops, op[p].pc = "waiting", Behind(s, op[p])
        PROVE  op'[p] = op[p]
    <3> SUFFICES ASSUME op'[p] # op[p] PROVE FALSE
      OBVIOUS
    <3>1. e = opDue[p] /\ released[op[p].on]
      BY <2>2, <2>4 DEF Timely
    <3>2. lockerDue[s] < opDue[p]
      BY <1>1, <2>4, <3>1 DEF DueInv
    <3>3. opDue[p] <= lockerDue[s] /\ opDue[p] \in 0..Never /\ lockerDue[s] \in 0..Never
      BY <1>1, <2>2, <3>1 DEF Timely, FirstDue, DueTypes
    <3> QED  BY <3>2, <3>3 DEF Never
  <2> QED  BY <2>3, <2>4
<1>2. OrderlySpec => [][First]_tickVars
  BY <1>1, TickAlways, PTL DEF OrderlySpec
<1> QED  BY <1>2 DEF LockersFirst

-----------------------------------------------------------------------------
(* Exclusion *)

Gathering(c, o) == call[c].pc \in {"reserving", "gathered"} /\ o \in call[c].got

(* s is about to lock o: one of its calls has gathered it, or it is pending. *)
Claims(s, o) ==
  \/ o \in pending[s]
  \/ \E c \in Calls : Caller[c] = s /\ Gathering(c, o)

Waits(t, o, h) == locker[t].pc = "waiting" /\ locker[t].rec = o /\ locker[t].on = h

(* Call c goes on with record o, whose awaited session is released. *)
Resumes(c, o) ==
  /\ call[c].pc = "reserving" /\ call[c].rec = o
  /\ released[call[c].on] /\ call'[c] # call[c]

LEMMA GatheringStep ==
  ASSUME TypeInv, RestInv, Moves, NEW c \in Calls, NEW o \in Objects, Gathering(c, o)'
  PROVE  \/ Gathering(c, o)
         \/ /\ reserved[o] = NoSession /\ reserved'[o] = Caller[c]
            /\ \A d \in Calls \ {c} : call'[d] = call[d]
         \/ Resumes(c, o) /\ reserved'[o] = Caller[c]
<1>1. ASSUME NEW d \in Calls, Gathers(d), d = c
      PROVE  \/ Gathering(c, o)
             \/ /\ reserved[o] = NoSession /\ reserved'[o] = Caller[c]
                /\ \A b \in Calls \ {c} : call'[b] = call[b]
             \/ Resumes(c, o) /\ reserved'[o] = Caller[c]
  BY <1>1 DEF Gathers, Gathering, Resumes
<1>2. ASSUME call'[c] = call[c] PROVE Gathering(c, o)
  BY <1>2 DEF Gathering
<1>3. ASSUME NEW d \in Calls, Gathers(d), d # c PROVE call'[c] = call[c]
  BY <1>3 DEF Gathers
<1>4. ASSUME NEW d \in Calls, Refused(d) \/ Enlists(d) PROVE call'[c] = call[c]
  BY <1>4 DEF Refused, Enlists, Gathering
<1>5. ASSUME NEW s \in Sessions, LockResume(s) \/ Books(s) \/ Throws(s) \/ Frees(s)
      PROVE  call'[c] = call[c]
  BY <1>5 DEF LockResume, Books, Throws, RunEnds, Frees, ReleaseRecords, Gathering
<1>6. ASSUME NEW p \in Ops, Operates(p) PROVE call'[c] = call[c]
  BY <1>6 DEF Operates, OpUnmoved
<1>7. CASE UNCHANGED vars
  BY <1>2, <1>7 DEF vars
<1> QED  BY <1>1, <1>2, <1>3, <1>4, <1>5, <1>6, <1>7 DEF Moves

LEMMA PendingStep ==
  ASSUME TypeInv, Moves, NEW s \in Sessions, NEW o \in Objects, o \in pending'[s]
  PROVE  \/ o \in pending[s]
         \/ \E c \in Calls : Caller[c] = s /\ Gathering(c, o) /\ ~Gathering(c, o)'
<1> USE DEF TypeInv, TypeOK
<1>1. ASSUME NEW c \in Calls, Enlists(c), o \notin pending[s]
      PROVE  Caller[c] = s /\ Gathering(c, o) /\ ~Gathering(c, o)'
  <2>1. Caller[c] \in Sessions
    BY CallerAssumption
  <2>2. Caller[c] = s /\ o \in call[c].got
    BY <1>1, <2>1 DEF Enlists
  <2> QED  BY <1>1, <2>2 DEF Enlists, Gathering
<1>2. ASSUME NEW t \in Sessions, Books(t) PROVE o \in pending[s]
  BY <1>2 DEF Books
<1> QED  BY <1>1, <1>2
         DEF Moves, Gathers, Refused, LockResume, Throws, Frees, ReleaseRecords, Operates,
             OpUnmoved, vars, sessionVars

LEMMA ClaimsStep ==
  ASSUME TypeInv, RestInv, Moves, NEW s \in Sessions, NEW o \in Objects, Claims(s, o)'
  PROVE  \/ Claims(s, o)
         \/ /\ reserved'[o] = s
            /\ reserved[o] = NoSession \/ \E c \in Calls : Resumes(c, o)
<1>1. CASE o \in pending'[s]
  BY <1>1, PendingStep DEF Claims
<1>2. ASSUME NEW c \in Calls, Caller[c] = s, Gathering(c, o)'
      PROVE  \/ Claims(s, o)
             \/ /\ reserved'[o] = s
                /\ reserved[o] = NoSession \/ \E d \in Calls : Resumes(d, o)
  BY <1>2, GatheringStep DEF Claims
<1> QED  BY <1>1, <1>2 DEF Claims

(* A reservation ends when its record, or another's claim to it, is locked. *)
LEMMA ReservedStep ==
  ASSUME TypeInv, RestInv, Moves, NEW o \in Objects, reserved'[o] # reserved[o]
  PROVE  \/ reserved[o] = NoSession
         \/ \E c \in Calls : Resumes(c, o)
         \/ \E s \in Sessions :
              /\ locker[s].pc = "granted" /\ locker[s].rec = o
              /\ o \in pending[s] /\ o \notin pending'[s]
<1> USE DEF TypeInv, TypeOK
<1>1. ASSUME NEW c \in Calls, Gathers(c) PROVE reserved[o] = NoSession \/ Resumes(c, o)
  BY <1>1 DEF Gathers, Resumes
<1>2. ASSUME NEW s \in Sessions, Books(s)
      PROVE  /\ locker[s].pc = "granted" /\ locker[s].rec = o
             /\ o \in pending[s] /\ o \notin pending'[s]
  BY <1>2 DEF Books, RestInv
<1> QED  BY <1>1, <1>2
         DEF Moves, Refused, Enlists, LockResume, Throws, Frees, ReleaseRecords, Operates,
             OpUnmoved, vars

(* A record is taken by lock(), free, or by a waiter. *)
LEMMA TakeStep ==
  ASSUME TypeInv, RestInv, Moves, NEW s \in Sessions, NEW o \in Objects, Holds(s, o)'
  PROVE  \/ Holds(s, o)
         \/ /\ owner'[o] = s /\ locker'[s].pc = "granted"
            /\ \/ owner[o] = NoSession /\ Claims(s, o)
               \/ Waits(s, o, locker[s].on) /\ released[locker[s].on]
<1> USE DEF TypeInv, TypeOK
<1> DEFINE Takes == /\ owner'[o] = s /\ locker'[s].pc = "granted"
                    /\ \/ owner[o] = NoSession /\ Claims(s, o)
                       \/ Waits(s, o, locker[s].on) /\ released[locker[s].on]
<1>1. ASSUME NEW t \in Sessions, NEW p \in Objects, Locks(t, p), locked'[s] \subseteq locked[s] \/ t # s,
             p \in pending[t] \/ \E c \in Calls : Caller[c] = t /\ Gathering(c, p),
             o \in locked'[s] => Holds(s, o)
      PROVE  Holds(s, o) \/ Takes
  BY <1>1 DEF Locks, Holds, Claims
<1>2. ASSUME NEW c \in Calls, Enlists(c) PROVE Holds(s, o) \/ Takes
  <2>1. Caller[c] \in Sessions
    BY CallerAssumption
  <2>2. UNCHANGED locked
    BY <1>2 DEF Enlists
  <2>3. ASSUME NEW p \in pending'[Caller[c]], Locks(Caller[c], p) PROVE Holds(s, o) \/ Takes
    <3>1. p \in Objects /\ (p \in pending[Caller[c]] \/ Gathering(c, p))
      BY <1>2, <2>1, <2>3 DEF Enlists, Gathering, CallState
    <3> QED  BY <1>1, <2>1, <2>2, <2>3, <3>1 DEF Holds
  <2> QED  BY <1>2, <2>2, <2>3 DEF Enlists, Holds
<1>3. ASSUME NEW t \in Sessions, LockResume(t) PROVE Holds(s, o) \/ Takes
  BY <1>3 DEF LockResume, Holds, Waits, sessionVars
<1>4. ASSUME NEW t \in Sessions, Books(t) PROVE Holds(s, o) \/ Takes
  <2>1. o \in locked'[s] => Holds(s, o)
    BY <1>4 DEF Books, Holds
  <2>2. ASSUME NEW p \in pending'[t], Locks(t, p) PROVE Holds(s, o) \/ Takes
    <3>1. p \in pending[t] /\ p \in Objects
      BY <1>4, <2>2 DEF Books
    <3>2. CASE o \in locked'[s]
      BY <2>1, <3>2
    <3>3. CASE locker'[s].pc = "granted" /\ locker'[s].rec = o
      BY <2>2, <3>1, <3>3 DEF Locks, Holds, Claims
    <3> QED  BY <3>2, <3>3 DEF Holds
  <2>3. CASE RunEnds(t)
    BY <2>1, <2>3 DEF RunEnds, Holds, IdleLocker
  <2> QED  BY <1>4, <2>2, <2>3 DEF Books
<1>5. ASSUME NEW t \in Sessions, Throws(t) PROVE Holds(s, o)
  BY <1>5 DEF Throws, RunEnds, Holds, IdleLocker
<1>6. ASSUME NEW t \in Sessions, Frees(t) PROVE Holds(s, o)
  BY <1>6 DEF Frees, ReleaseRecords, Holds
<1>7. ASSUME NEW p \in Ops, Operates(p) PROVE Holds(s, o)
  BY <1>7 DEF Operates, OpUnmoved, Holds
<1> QED  BY <1>2, <1>3, <1>4, <1>5, <1>6, <1>7 DEF Moves, Gathers, Refused, vars, Holds

LEMMA LoseStep ==
  ASSUME TypeInv, Moves, NEW o \in Objects, owner'[o] # owner[o]
  PROVE  \/ owner[o] = NoSession
         \/ owner[o] \in Sessions /\ ~released[owner[o]] /\ released'[owner[o]]
         \/ \E t \in Sessions : /\ Waits(t, o, locker[t].on) /\ released[locker[t].on]
                                /\ owner'[o] = t
<1> USE DEF TypeInv, TypeOK
<1>1. ASSUME NEW t \in Sessions, NEW p \in Objects, Locks(t, p) PROVE owner[o] = NoSession
  BY <1>1 DEF Locks
<1>2. ASSUME NEW c \in Calls, Enlists(c) PROVE owner[o] = NoSession
  <2>1. \A p \in pending'[Caller[c]] : p \in Objects
    BY <1>2, CallerAssumption DEF Enlists, CallState
  <2> QED  BY <1>1, <1>2, <2>1, CallerAssumption DEF Enlists
<1>3. ASSUME NEW t \in Sessions, Books(t) PROVE owner[o] = NoSession
  <2>1. \A p \in pending'[t] : p \in Objects
    BY <1>3 DEF Books
  <2> QED  BY <1>1, <1>3, <2>1 DEF Books, RunEnds
<1>4. ASSUME NEW t \in Sessions, LockResume(t)
      PROVE  Waits(t, o, locker[t].on) /\ released[locker[t].on] /\ owner'[o] = t
  BY <1>4 DEF LockResume, Waits
<1>5. ASSUME NEW t \in Sessions, Frees(t)
      PROVE  owner[o] \in Sessions /\ ~released[owner[o]] /\ released'[owner[o]]
  BY <1>5 DEF Frees, ReleaseRecords
<1>6. ASSUME NEW t \in Sessions PROVE ~Throws(t)
  BY DEF Throws, RunEnds
<1> QED  BY <1>2, <1>3, <1>4, <1>5, <1>6
         DEF Moves, Gathers, Refused, Operates, OpUnmoved, vars

(* Until a session is released, claims are reservations and holders own.   *)
NoneReleased == \A s \in Sessions : ~released[s]

ClaimsReserve == \A s \in Sessions, o \in Objects : Claims(s, o) => reserved[o] = s

GatheredOnce ==
  \A c \in Calls, o \in Objects : Gathering(c, o) =>
    /\ o \notin pending[Caller[c]]
    /\ \A d \in Calls \ {c} : ~Gathering(d, o)

HoldersOwn == \A s \in Sessions, o \in Objects : Holds(s, o) => owner[o] = s

FreshInv == NoneReleased => ClaimsReserve /\ GatheredOnce /\ HoldersOwn

(* Once one has been released, the others that hold a cached record own    *)
(* it, and nobody contends with a session that awaits the released one.    *)
OnlyReleased(h) == released[h] /\ \A s \in Sessions \ {h} : ~released[s]

Alone(t, o, h) ==
  /\ reserved[o] = t
  /\ \A s \in Sessions \ {t} : ~Claims(s, o)
  /\ \A s \in Sessions \ {t, h} : ~Holds(s, o)

FirstInv ==
  \A h \in Sessions : OnlyReleased(h) =>
    \A o \in Objects : InCache(o) =>
      /\ \A s \in Sessions \ {h} : Holds(s, o) => owner[o] = s
      /\ \A t \in Sessions : Waits(t, o, h) => Alone(t, o, h)

LEMMA FreshInit == Init => FreshInv
BY DEF Init, FreshInv, ClaimsReserve, GatheredOnce, HoldersOwn, Claims, Gathering, Holds,
       IdleCall, IdleLocker

LEMMA FreshNext ==
  ASSUME TypeInv, RestInv, FreshInv, Moves, NoneReleased', NoneReleased
  PROVE  ClaimsReserve' /\ GatheredOnce' /\ HoldersOwn'
<1>0. /\ ClaimsReserve /\ GatheredOnce /\ HoldersOwn
      /\ \A c \in Calls : Caller[c] \in Sessions
      /\ NoSession \notin Sessions
  BY CallerAssumption, NoneAssumption DEF FreshInv
<1>1. ASSUME NEW c \in Calls, NEW o \in Objects PROVE ~Resumes(c, o)
  BY DEF Resumes, RestInv, NoneReleased
<1>2. ASSUME NEW s \in Sessions, NEW o \in Objects, Claims(s, o)' PROVE reserved'[o] = s
  <2>1. CASE ~Claims(s, o)
    BY <1>1, <1>2, <2>1, ClaimsStep
  <2>2. CASE Claims(s, o)
    <3>1. reserved[o] = s
      BY <1>0, <2>2 DEF ClaimsReserve
    <3> SUFFICES ASSUME reserved'[o] # reserved[o] PROVE FALSE
      BY <3>1
    <3>2. PICK t \in Sessions : o \in pending[t] /\ o \notin pending'[t]
      BY <1>0, <1>1, <3>1, ReservedStep
    <3>3. t = s
      BY <1>0, <3>1, <3>2 DEF ClaimsReserve, Claims
    <3>4. PICK c \in Calls : Caller[c] = s /\ Gathering(c, o)'
      BY <1>2, <3>2, <3>3 DEF Claims
    <3>5. Gathering(c, o)
      BY <1>0, <1>1, <3>1, <3>4, GatheringStep
    <3> QED  BY <1>0, <3>2, <3>3, <3>4, <3>5 DEF GatheredOnce
  <2> QED  BY <2>1, <2>2
<1>3. ASSUME NEW c \in Calls, NEW o \in Objects, Gathering(c, o)'
      PROVE  o \notin pending'[Caller[c]] /\ \A d \in Calls \ {c} : ~Gathering(d, o)'
  <2>1. CASE Gathering(c, o)
    <3>1. /\ o \notin pending[Caller[c]]
          /\ \A d \in Calls \ {c} : ~Gathering(d, o)
      BY <1>0, <2>1 DEF GatheredOnce
    <3>2. reserved[o] # NoSession
      BY <1>0, <2>1 DEF ClaimsReserve, Claims
    <3>3. o \notin pending'[Caller[c]]
      BY <1>0, <1>3, <3>1, PendingStep
    <3> QED  BY <1>1, <3>1, <3>2, <3>3, GatheringStep
  <2>2. CASE ~Gathering(c, o)
    <3>1. /\ reserved[o] = NoSession
          /\ \A d \in Calls \ {c} : call'[d] = call[d]
      BY <1>1, <1>3, <2>2, GatheringStep
    <3>2. \A s \in Sessions : ~Claims(s, o)
      BY <1>0, <3>1 DEF ClaimsReserve
    <3>3. \A d \in Calls : ~Gathering(d, o)
      BY <1>0, <3>2 DEF Claims
    <3>4. o \notin pending'[Caller[c]]
      BY <1>0, <3>2, <3>3, PendingStep DEF Claims
    <3> QED  BY <3>1, <3>3, <3>4 DEF Gathering
  <2> QED  BY <2>1, <2>2
<1>4. ASSUME NEW s \in Sessions, NEW o \in Objects, Holds(s, o)' PROVE owner'[o] = s
  <2>1. \A t \in Sessions : ~(Waits(t, o, locker[t].on) /\ released[locker[t].on])
    BY DEF Waits, TypeInv, WellFormed, NoneReleased
  <2>2. CASE ~Holds(s, o)
    BY <1>4, <2>1, <2>2, TakeStep
  <2>3. CASE Holds(s, o)
    <3>1. owner[o] = s
      BY <1>0, <2>3 DEF HoldersOwn
    <3> QED  BY <1>0, <2>1, <3>1, LoseStep DEF NoneReleased
  <2> QED  BY <2>2, <2>3
<1> QED  BY <1>2, <1>3, <1>4
         DEF ClaimsReserve, GatheredOnce, HoldersOwn, Claims, Gathering, Holds

(* The first release leaves each waiter of the released session alone. *)
LEMMA FirstRelease ==
  ASSUME TickInv, FreshInv, NoneReleased, NEW h \in Sessions, Frees(h), NEW o \in Objects, InCache(o)
  PROVE  /\ \A s \in Sessions \ {h} : Holds(s, o)' => owner'[o] = s
         /\ \A t \in Sessions : Waits(t, o, h)' => Alone(t, o, h)'
<1> USE DEF TickInv
<1>0. /\ ClaimsReserve /\ HoldersOwn
      /\ UNCHANGED <<pending, reserved, locker, call>>
      /\ \A s \in Sessions \ {h} : locked'[s] = locked[s]
      /\ owner[o] # h => owner'[o] = owner[o]
  BY DEF FreshInv, Frees, ReleaseRecords, TypeInv, TypeOK
<1>1. ASSUME NEW s \in Sessions \ {h}, Holds(s, o)' PROVE owner[o] = s /\ owner'[o] = s
  <2>1. Holds(s, o)
    BY <1>0, <1>1 DEF Holds
  <2> QED  BY <1>0, <2>1 DEF HoldersOwn
<1>2. ASSUME NEW t \in Sessions, Waits(t, o, h)' PROVE Alone(t, o, h)'
  <2>1. Waits(t, o, h)
    BY <1>0, <1>2 DEF Waits
  <2>2. reserved[o] = t
    BY <1>0, <2>1 DEF Waits, RestInv, ClaimsReserve, Claims
  <2>3. \A s \in Sessions \ {t} : ~Claims(s, o)
    BY <1>0, <2>2 DEF ClaimsReserve
  <2>4. owner[o] = h
    BY <1>0, <2>1 DEF Waits, HoldInv, WaitsOnHolder, NoneReleased, HoldersOwn
  <2>5. \A s \in Sessions \ {t, h} : ~Holds(s, o)'
    BY <1>1, <2>4
  <2> QED  BY <1>0, <2>2, <2>3, <2>5 DEF Alone, Claims, Gathering, Holds
<1> QED  BY <1>1, <1>2

(* Nobody goes on before a waiter that is alone with its record.           *)
LEMMA WaiterFirst ==
  ASSUME TickInv, DueInv, TickNext,
         NEW h \in Sessions, NEW o \in Objects, NEW t \in Sessions,
         OnlyReleased(h), InCache(o), Waits(t, o, h), Alone(t, o, h), NEW c \in Calls
  PROVE  ~Resumes(c, o)
<1> USE DEF TickInv
<1> SUFFICES ASSUME Resumes(c, o) PROVE FALSE
  OBVIOUS
<1>1. PICK e \in 0..Never : Timely(e)
  BY EveryStepTimely
<1>2. call[c].on = h
  BY DEF Resumes, RestInv, OnlyReleased
<1>3. t # h
  BY DEF Waits, OnlyReleased, RestInv, Over
<1>4. o \notin pending[h]
  BY <1>3 DEF Alone, Claims
<1>5. e = callDue[c] /\ e <= lockerDue[t]
  BY <1>1 DEF Timely, Resumes, FirstDue
<1>6. lockerDue[t] < callDue[c]
  BY <1>2, <1>4 DEF DueInv, Waits, OnlyReleased, Resumes
<1>7. lockerDue[t] \in 0..Never /\ callDue[c] \in 0..Never
  BY DEF DueTypes
<1> QED  BY <1>5, <1>6, <1>7 DEF Never

LEMMA FirstNext ==
  ASSUME TickInv, DueInv, FirstInv, TickInv', TickNext, Moves,
         NEW h \in Sessions, OnlyReleased(h), OnlyReleased(h)',
         NEW o \in Objects, InCache(o), InCache(o)'
  PROVE  /\ \A s \in Sessions \ {h} : Holds(s, o)' => owner'[o] = s
         /\ \A t \in Sessions : Waits(t, o, h)' => Alone(t, o, h)'
<1> USE DEF TickInv
<1>0. /\ \A s \in Sessions \ {h} : Holds(s, o) => owner[o] = s
      /\ \A t \in Sessions : Waits(t, o, h) => Alone(t, o, h)
      /\ NoSession \notin Sessions
      /\ WaitStep
  BY HoldStep, TickStepIsStep, NoneAssumption DEF FirstInv
<1>1. ASSUME NEW t \in Sessions, Waits(t, o, locker[t].on), released[locker[t].on]
      PROVE  Waits(t, o, h)
  BY <1>1 DEF Waits, OnlyReleased, TypeInv, WellFormed
<1>2. ASSUME NEW s \in Sessions \ {h}, Holds(s, o)' PROVE owner'[o] = s
  <2>1. CASE Holds(s, o)
    <3>1. owner[o] = s
      BY <1>0, <2>1
    <3> SUFFICES ASSUME owner'[o] # owner[o] PROVE FALSE
      BY <3>1
    <3>2. PICK t \in Sessions : Waits(t, o, h) /\ owner'[o] = t
      BY <1>0, <1>1, <3>1, LoseStep DEF OnlyReleased
    <3>3. s = t
      BY <1>0, <2>1, <3>2 DEF Alone
    <3> QED  BY <3>1, <3>2, <3>3
  <2>2. CASE ~Holds(s, o)
    BY <1>2, <2>2, TakeStep
  <2> QED  BY <2>1, <2>2
<1>3. ASSUME NEW t \in Sessions, Waits(t, o, h)' PROVE Alone(t, o, h)'
  <2>1. owner'[o] # h
    BY <1>0 DEF RestInv, OnlyReleased
  <2>2. locker'[t] = locker[t]
    BY <1>0, <1>3, <2>1 DEF WaitStep, Waits
  <2>3. Waits(t, o, h) /\ Alone(t, o, h)
    BY <1>0, <1>3, <2>2 DEF Waits
  <2>4. \A c \in Calls : ~Resumes(c, o)
    BY <2>3, WaiterFirst
  <2>5. reserved'[o] = t
    <3> SUFFICES ASSUME reserved'[o] # reserved[o] PROVE FALSE
      BY <2>3 DEF Alone
    <3>1. PICK s \in Sessions : locker[s].pc = "granted" /\ o \in pending[s]
      BY <1>0, <2>3, <2>4, ReservedStep DEF Alone
    <3> QED  BY <2>3, <3>1 DEF Alone, Claims, Waits
  <2>6. ASSUME NEW s \in Sessions \ {t}, Claims(s, o)' PROVE FALSE
    BY <2>3, <2>4, <2>5, <2>6, ClaimsStep DEF Alone
  <2>7. ASSUME NEW s \in Sessions \ {t, h}, Holds(s, o)' PROVE FALSE
    <3>1. Waits(s, o, h) /\ locker'[s].pc = "granted"
      BY <1>1, <2>3, <2>7, TakeStep DEF Alone
    <3> QED  BY <1>0, <2>3, <3>1 DEF Alone
  <2> QED  BY <2>5, <2>6, <2>7 DEF Alone, Claims, Gathering, Holds
<1> QED  BY <1>2, <1>3

ExclusionInv == FreshInv /\ FirstInv

LEMMA ExclusionNext ==
  ASSUME TickInv, DueInv, ExclusionInv, TickInv', [TickNext /\ Orderly]_tickVars
  PROVE  ExclusionInv'
<1> USE DEF TickInv
<1>0. CASE UNCHANGED tickVars
  <2>1. UNCHANGED vars
    BY <1>0 DEF tickVars
  <2> QED  BY <2>1 DEF vars, ExclusionInv, FreshInv, FirstInv, NoneReleased, OnlyReleased,
                       ClaimsReserve, GatheredOnce, HoldersOwn, Claims, Gathering, Holds,
                       Waits, Alone, InCache
<1>1. CASE TickNext
  <2>0. Moves /\ [Next]_vars
    BY MovesOnly, TickStepIsStep
  <2>1. \A s \in Sessions : released[s] => released'[s]
    BY <2>0, ReleasedRests
  <2>2. ASSUME NoneReleased' PROVE ClaimsReserve' /\ GatheredOnce' /\ HoldersOwn'
    <3>1. NoneReleased
      BY <2>1, <2>2 DEF NoneReleased
    <3> QED  BY <2>0, <2>2, <3>1, FreshNext DEF ExclusionInv
  <2>3. ASSUME NEW h \in Sessions, OnlyReleased(h)', NEW o \in Objects, InCache(o)'
        PROVE  /\ \A s \in Sessions \ {h} : Holds(s, o)' => owner'[o] = s
               /\ \A t \in Sessions : Waits(t, o, h)' => Alone(t, o, h)'
    <3>1. CASE released[h]
      <4>1. OnlyReleased(h)
        BY <2>1, <2>3, <3>1 DEF OnlyReleased
      <4>2. CASE InCache(o)
        BY <1>1, <2>0, <2>3, <4>1, <4>2, FirstNext DEF ExclusionInv
      <4>3. CASE ~InCache(o)
        <5>1. o \notin created
          BY <2>0, <2>3, <4>3, MapGrowsByNew
        <5>2. UNCHANGED locker /\ \A s \in Sessions : locked'[s] \subseteq locked[s]
          <6>1. o \in created'
            BY <2>3, NoneAssumption DEF CacheInv, CreatedInv, InCache
          <6>2. created' # created
            BY <5>1, <6>1
          <6> QED  BY <2>0, <6>2
                   DEF Moves, Gathers, Refused, Enlists, LockResume, Books, Throws, Frees,
                       ReleaseRecords, Operates, OpUnmoved, vars, cacheVars
        <5>3. \A s \in Sessions : ~Holds(s, o)' /\ ~Waits(s, o, h)'
          BY <5>1, <5>2 DEF Holds, Waits, CacheInv, CreatedInv, RestInv
        <5> QED  BY <5>3
      <4> QED  BY <4>2, <4>3
    <3>2. CASE ~released[h]
      <4>1. NoneReleased
        BY <2>1, <2>3, <3>2 DEF NoneReleased, OnlyReleased
      <4>2. Frees(h)
        BY <2>0, <2>3, <3>2, ReleasedByItself DEF OnlyReleased
      <4>3. InCache(o)
        BY <2>3, <4>2 DEF Frees, ReleaseRecords, cacheVars, InCache
      <4> QED  BY <4>1, <4>2, <4>3, FirstRelease DEF ExclusionInv
    <3> QED  BY <3>1, <3>2
  <2> QED  BY <2>2, <2>3 DEF ExclusionInv, FreshInv, FirstInv
<1> QED  BY <1>0, <1>1

LEMMA ExclusionAlways == OrderlySpec => []ExclusionInv
<1>1. TickInit => ExclusionInv
  <2> SUFFICES ASSUME TickInit PROVE ExclusionInv
    OBVIOUS
  <2>1. Init /\ \A s \in Sessions : ~released[s]
    BY DEF TickInit, Init
  <2> QED  BY <2>1, FreshInit DEF ExclusionInv, FirstInv, OnlyReleased
<1>2. TickInv /\ DueInv /\ ExclusionInv /\ TickInv' /\ [TickNext /\ Orderly]_tickVars
        => ExclusionInv'
  BY ExclusionNext
<1> QED  BY <1>1, <1>2, TickAlways, PTL DEF OrderlySpec

(***************************************************************************)
(* Up to the second release, whatever the number of sessions, no two live  *)
(* sessions have locked one cached record.                                 *)
(***************************************************************************)
AtMostOneReleased == \A s, t \in Sessions : released[s] /\ released[t] => s = t

THEOREM ExclusionTillSecondRelease == OrderlySpec => [](AtMostOneReleased => MutualExclusion)
<1>1. ASSUME TickInv, ExclusionInv, AtMostOneReleased PROVE MutualExclusion
  <2> SUFFICES ASSUME NEW s \in Sessions, NEW t \in Sessions, s # t, ~released[s], ~released[t],
                      NEW o \in Objects, o \in locked[s], o \in locked[t], InCache(o)
               PROVE  FALSE
    BY <1>1 DEF MutualExclusion, TickInv, TypeInv, TypeOK
  <2>1. Holds(s, o) /\ Holds(t, o)
    BY DEF Holds
  <2>2. CASE NoneReleased
    BY <1>1, <2>1, <2>2 DEF ExclusionInv, FreshInv, HoldersOwn
  <2>3. CASE ~NoneReleased
    <3>1. PICK h \in Sessions : OnlyReleased(h)
      BY <1>1, <2>3 DEF NoneReleased, OnlyReleased, AtMostOneReleased
    <3> QED  BY <1>1, <2>1, <3>1 DEF ExclusionInv, FirstInv, OnlyReleased
  <2> QED  BY <2>2, <2>3
<1> QED  BY <1>1, TickAlways, ExclusionAlways, PTL

(***************************************************************************)
(* With at most three sessions that is exclusion: after a second release   *)
(* one session is left.  With four it fails (SessionTicks_mutex).          *)
(***************************************************************************)
AtMostThree ==
  \A a, b, c, d \in Sessions : a = b \/ a = c \/ a = d \/ b = c \/ b = d \/ c = d

THEOREM ThreeSessionsExclude ==
  ASSUME AtMostThree
  PROVE  OrderlySpec => []MutualExclusion
<1>1. ASSUME AtMostOneReleased => MutualExclusion PROVE MutualExclusion
  <2> SUFFICES ASSUME ~AtMostOneReleased PROVE MutualExclusion
    BY <1>1
  <2>1. PICK g \in Sessions, h \in Sessions : g # h /\ released[g] /\ released[h]
    BY DEF AtMostOneReleased
  <2>2. ASSUME NEW s \in Sessions, NEW t \in Sessions, ~released[s], ~released[t] PROVE s = t
    BY <2>1, <2>2 DEF AtMostThree
  <2> QED  BY <2>2 DEF MutualExclusion
<1> QED  BY <1>1, ExclusionTillSecondRelease, PTL

-----------------------------------------------------------------------------
(* Exclusion without the event loop's order *)

(* Up to the first release a step of any client, in any order, is one that *)
(* an orderly client's program may take.                                   *)
LEMMA MovesTillRelease ==
  ASSUME TypeInv, [Next]_vars, NoneReleased'
  PROVE  Moves /\ NoneReleased
<1>1. ASSUME NEW s \in Sessions PROVE ~(ReleaseRecords(s) /\ ~released[s])
  BY DEF ReleaseRecords, NoneReleased, TypeInv, TypeOK
<1>2. ASSUME NEW c \in Calls, ReservationResume(c) PROVE ~released[Caller[c]]
  BY <1>2, CallerAssumption DEF ReservationResume, sessionVars, NoneReleased
<1>3. Moves
  BY <1>1, <1>2, NextCases, MoveOfAcquire, MoveOfResume, MoveOfEnlist, MoveOfLockNext,
     MoveOfRefusal, MoveOfOp DEF Moves
<1>4. UNCHANGED released
  BY <1>1, <1>3 DEF Moves, Gathers, Refused, Enlists, LockResume, Books, Throws, Frees,
                    Operates, OpUnmoved, vars, sessionVars
<1> QED  BY <1>3, <1>4 DEF NoneReleased

TillRelease == NoneReleased => RestInv /\ FreshInv

LEMMA TillReleaseNext ==
  ASSUME TypeInv, CacheInv, HoldInv, TillRelease, [Next]_vars
  PROVE  TillRelease'
<1> SUFFICES ASSUME NoneReleased' PROVE RestInv' /\ FreshInv'
  BY DEF TillRelease
<1>1. Moves /\ NoneReleased /\ RestInv /\ FreshInv
  BY MovesTillRelease DEF TillRelease
<1>2. RestInv'
  BY <1>1, RestKept
<1>3. ClaimsReserve' /\ GatheredOnce' /\ HoldersOwn'
  BY <1>1, FreshNext
<1> QED  BY <1>2, <1>3 DEF FreshInv

(***************************************************************************)
(* Until a session is released or times out, no two have locked one cached *)
(* record: for any number of sessions, clients that are not orderly, and   *)
(* any order of their steps.                                               *)
(***************************************************************************)
THEOREM ExclusionTillRelease == Spec => [](NoneReleased => MutualExclusion)
<1>1. Init => TillRelease
  BY RestInit, FreshInit DEF TillRelease
<1>2. TypeInv /\ CacheInv /\ HoldInv /\ TillRelease /\ [Next]_vars => TillRelease'
  BY TillReleaseNext
<1>3. ASSUME TypeInv, TillRelease, NoneReleased PROVE MutualExclusion
  <2> SUFFICES ASSUME NEW s \in Sessions, NEW t \in Sessions, s # t,
                      NEW o \in Objects, o \in locked[s], o \in locked[t]
               PROVE  FALSE
    BY <1>3 DEF MutualExclusion, TypeInv, TypeOK
  <2> QED  BY <1>3 DEF TillRelease, FreshInv, HoldersOwn, Holds
<1> QED  BY <1>1, <1>2, <1>3, HoldAlways, PTL DEF Spec

(***************************************************************************)
(* Two sessions therefore exclude each other whatever their clients and    *)
(* the event loop do; it takes a third to need the order of the ticks.     *)
(***************************************************************************)
AtMostTwo == \A a, b, c \in Sessions : a = b \/ a = c \/ b = c

THEOREM TwoSessionsExclude ==
  ASSUME AtMostTwo
  PROVE  Spec => []MutualExclusion
<1>1. ASSUME NoneReleased => MutualExclusion PROVE MutualExclusion
  <2> SUFFICES ASSUME ~NoneReleased PROVE MutualExclusion
    BY <1>1
  <2>1. PICK h \in Sessions : released[h]
    BY DEF NoneReleased
  <2>2. ASSUME NEW s \in Sessions, NEW t \in Sessions, ~released[s], ~released[t] PROVE s = t
    BY <2>1, <2>2 DEF AtMostTwo
  <2> QED  BY <2>2 DEF MutualExclusion
<1> QED  BY <1>1, ExclusionTillRelease, PTL

-----------------------------------------------------------------------------
(* The lock table *)

(* Nothing of the table changes unless locks, flags or records do. *)
LEMMA TableStays ==
  ASSUME UNCHANGED <<current, created, released>>,
         \A o \in Objects : InCache(o) =>
           \A s \in Sessions : ~released[s] => (o \in locked'[s] <=> o \in locked[s])
  PROVE  UNCHANGED Table!vars
<1>1. \A o \in Objects : InCache(o)' <=> InCache(o)
  BY DEF InCache
<1>2. ASSUME NEW o \in Objects PROVE Holders(o)' = Holders(o)
  <2>1. \A s \in Sessions : (~released[s] /\ InCache(o) /\ o \in locked[s])'
                              <=> ~released[s] /\ InCache(o) /\ o \in locked[s]
    BY <1>1
  <2> QED  BY <2>1 DEF Holders
<1>3. [o \in Objects |-> Holders(o)]' = [o \in Objects |-> Holders(o)]
  BY <1>2
<1>4. {s \in Sessions : released[s]}' = {s \in Sessions : released[s]}
  OBVIOUS
<1>5. {o \in Objects : InCache(o)}' = {o \in Objects : InCache(o)}
  BY <1>1
<1> QED  BY <1>3, <1>4, <1>5 DEF Table!vars

(* The lock loop books a record: a grant, when session and record live. *)
LEMMA BooksGrants ==
  ASSUME TypeInv, MutualExclusion', NEW s \in Sessions, Books(s)
  PROVE  [Table!Next]_Table!vars
<1>3. PICK o \in Objects : o = locker[s].rec
  BY DEF TypeInv, WellFormed, Books
<1>1. /\ UNCHANGED <<current, created, released>>
      /\ locked' = [locked EXCEPT ![s] = @ \cup {o}]
  BY <1>3 DEF Books
<1>2. \A t \in Sessions : locked'[t] = IF t = s THEN locked[s] \cup {o} ELSE locked[t]
  BY <1>1 DEF TypeInv, TypeOK
<1>4. \A u \in Objects : InCache(u)' <=> InCache(u)
  BY <1>1 DEF InCache
<1>5. CASE released[s] \/ ~InCache(o) \/ o \in locked[s]
  <2>1. \A u \in Objects : InCache(u) =>
          \A t \in Sessions : ~released[t] => (u \in locked'[t] <=> u \in locked[t])
    BY <1>2, <1>5
  <2> QED  BY <1>1, <2>1, TableStays
<1>6. CASE ~released[s] /\ InCache(o) /\ o \notin locked[s]
  <2>1. Holders(o) = {}
    <3> SUFFICES ASSUME NEW t \in Sessions, ~released[t], o \in locked[t] PROVE FALSE
      BY DEF Holders
    <3>1. t # s /\ o \in locked'[t] /\ o \in locked'[s]
      BY <1>2, <1>6
    <3>2. ~released'[s] /\ ~released'[t] /\ InCache(o)'
      BY <1>1, <1>3, <1>4, <1>6
    <3> QED  BY <3>1, <3>2 DEF MutualExclusion
  <2>2. Holders(o)' = {s}
    <3>1. s \in Holders(o)'
      BY <1>1, <1>2, <1>3, <1>4, <1>6 DEF Holders
    <3>2. ASSUME NEW t \in Holders(o)' PROVE t = s
      <4>1. t \in Sessions /\ ~released[t] /\ o \in locked'[t]
        BY <1>1, <3>2 DEF Holders
      <4>2. t # s => t \in Holders(o)
        BY <1>2, <1>6, <4>1 DEF Holders
      <4> QED  BY <2>1, <4>2
    <3> QED  BY <3>1, <3>2
  <2>3. ASSUME NEW u \in Objects, u # o PROVE Holders(u)' = Holders(u)
    <3>1. \A t \in Sessions : (~released[t] /\ InCache(u) /\ u \in locked[t])'
                                <=> ~released[t] /\ InCache(u) /\ u \in locked[t]
      BY <1>1, <1>2, <1>4, <2>3
    <3> QED  BY <3>1 DEF Holders
  <2> DEFINE h == [u \in Objects |-> Holders(u)]
  <2>4. h' = [h EXCEPT ![o] = {s}]
    BY <1>3, <2>2, <2>3
  <2>5. h[o] = {} /\ o \in {u \in Objects : InCache(u)} /\ s \notin {t \in Sessions : released[t]}
    BY <1>3, <1>6, <2>1
  <2>6. /\ {t \in Sessions : released[t]}' = {t \in Sessions : released[t]}
        /\ {u \in Objects : InCache(u)}' = {u \in Objects : InCache(u)}
        /\ created' = created
    BY <1>1, <1>4
  <2> HIDE DEF h
  <2>7. Table!Grant(s, o)
    BY <2>4, <2>5, <2>6 DEF Table!Grant, h
  <2> QED  BY <1>3, <2>7 DEF Table!Next
<1> QED  BY <1>5, <1>6

(* A release or timeout: the session's locks go, everybody else's stay. *)
LEMMA ReleaseFreesSession ==
  ASSUME TypeInv, NEW s \in Sessions, ReleaseRecords(s), ~released[s]
  PROVE  Table!Next
<1>1. /\ ~released[s] /\ UNCHANGED <<current, created>>
      /\ released' = [released EXCEPT ![s] = TRUE]
      /\ locked' = [locked EXCEPT ![s] = {o \in @ : owner[o] = NoSession}]
  BY DEF ReleaseRecords, cacheVars
<1>2. \A t \in Sessions : /\ released'[t] <=> (released[t] \/ t = s)
                          /\ t # s => locked'[t] = locked[t]
  BY <1>1 DEF TypeInv, TypeOK
<1>3. \A o \in Objects : InCache(o)' <=> InCache(o)
  BY <1>1 DEF InCache
<1>4. ASSUME NEW o \in Objects PROVE Holders(o)' = Holders(o) \ {s}
  <2>1. \A t \in Sessions : (~released[t] /\ InCache(o) /\ o \in locked[t])'
                              <=> t # s /\ ~released[t] /\ InCache(o) /\ o \in locked[t]
    BY <1>2, <1>3
  <2> QED  BY <2>1 DEF Holders
<1> DEFINE h == [o \in Objects |-> Holders(o)]
           over == {t \in Sessions : released[t]}
<1>5. h' = [o \in Objects |-> h[o] \ {s}]
  BY <1>4
<1>6. s \notin over /\ over' = over \cup {s}
  BY <1>1, <1>2
<1>7. {o \in Objects : InCache(o)}' = {o \in Objects : InCache(o)} /\ created' = created
  BY <1>1, <1>3
<1> HIDE DEF h, over
<1>8. Table!Free(s)
  BY <1>5, <1>6, <1>7 DEF Table!Free, h, over
<1> QED  BY <1>8 DEF Table!Next

(* An operation takes records out of the cache and puts new ones in; the   *)
(* only lock it forgets is one on a record that is gone.                   *)
LEMMA OperatesTurnsOver ==
  ASSUME TickInv, CacheInv', NEW p \in Ops, OpStep(p)
  PROVE  Table!Next
<1> USE DEF TickInv
<1> DEFINE In == {o \in Objects : InCache(o)}
           out == In \ In'
           in == In' \ In
           h == [o \in Objects |-> Holders(o)]
<1>0. OpUnmoved(p) /\ (OpBegins(p) \/ OpPuts(p) \/ OpDrops(p) \/ OpGoesOn(p)) /\ Operates(p)
  BY OpEffect, MoveOfOp
<1>1. out \in SUBSET Objects /\ in \in SUBSET Objects /\ out \subseteq In
      /\ In' = (In \ out) \cup in
  OBVIOUS
<1>2. in \cap created = {}
  <2>1. [Next]_vars
    BY DEF Next
  <2> QED  BY <2>1, MapGrowsByNew
<1>3. In \subseteq created /\ In' \subseteq created'
  BY NoneAssumption DEF CacheInv, CreatedInv, InCache
<1>4. created' = created \cup in
  <2>1. CASE UNCHANGED created
    BY <1>2, <1>3, <2>1
  <2>2. CASE OpPuts(p)
    <3>1. PICK key \in Keys, new \in Objects \ created :
            current' = [current EXCEPT ![key] = new] /\ created' = created \cup {new}
      BY <2>2 DEF OpPuts, PutRecord
    <3>2. InCache(new)'
      BY <3>1 DEF InCache, TypeInv, TypeOK
    <3>3. new \in in
      BY <1>3, <3>1, <3>2
    <3> QED  BY <1>2, <1>3, <3>1, <3>3
  <2> QED  BY <1>0, <2>1, <2>2 DEF OpBegins, OpDrops, OpGoesOn, cacheVars
<1>5. ASSUME NEW o \in Objects, InCache(o), NEW s \in Sessions
      PROVE  o \in locked'[s] <=> o \in locked[s]
  <2>1. locked'[s] \subseteq locked[s]
    BY <1>0 DEF Operates
  <2>2. ASSUME op[p].pc = "dropped" PROVE op[p].rec # o
    BY <1>5, <2>2 DEF CacheInv, OpAtKey, OpLive, InCache
  <2>3. UNCHANGED locked \/ (op[p].pc = "dropped" /\ locked[s] \ {op[p].rec} \subseteq locked'[s])
    BY <1>0 DEF OpBegins, OpPuts, OpDrops, OpGoesOn
  <2> QED  BY <2>1, <2>2, <2>3
<1>6. ASSUME NEW o \in Objects
      PROVE  Holders(o)' = IF o \in out THEN {} ELSE Holders(o)
  <2>1. UNCHANGED released
    BY <1>0 DEF OpUnmoved
  <2>2. CASE InCache(o) /\ InCache(o)'
    BY <1>5, <2>1, <2>2 DEF Holders
  <2>3. CASE ~InCache(o)'
    BY <2>3 DEF Holders
  <2>4. CASE ~InCache(o) /\ InCache(o)'
    <3>1. o \notin created
      BY <1>2, <2>4
    <3>2. \A s \in Sessions : o \notin locked'[s]
      BY <1>0, <3>1 DEF Operates, RestInv
    <3> QED  BY <2>4, <3>2 DEF Holders
  <2> QED  BY <2>2, <2>3, <2>4
<1>7. h' = [o \in Objects |-> IF o \in out THEN {} ELSE h[o]]
  BY <1>6
<1>8. {s \in Sessions : released[s]}' = {s \in Sessions : released[s]}
  BY <1>0 DEF OpUnmoved
<1> HIDE DEF out, in, h, In
<1>9. Table!Turnover(out, in)
  BY <1>1, <1>2, <1>4, <1>7, <1>8 DEF Table!Turnover, h, In
<1> QED  BY <1>1, <1>9 DEF Table!Next

(* Every step of the loop is one of the table's, or none. *)
LEMMA TableStep ==
  ASSUME TickInv, MutualExclusion', [Next]_vars
  PROVE  [Table!Next]_Table!vars
<1> USE DEF TickInv
<1>1. ASSUME UNCHANGED <<current, created, released, locked>>
      PROVE  [Table!Next]_Table!vars
  BY <1>1, TableStays
<1>2. ASSUME NEW c \in Calls,
             \/ \E request \in Requests : Acquire(c, request)
             \/ ReservationResume(c)
             \/ Enlist(c)
      PROVE  UNCHANGED <<current, created, released, locked>>
  BY <1>2 DEF Acquire, ReservationResume, Enlist, cacheVars, sessionVars
<1>3. ASSUME NEW s \in Sessions, LockResume(s) \/ LockRefused(s)
      PROVE  UNCHANGED <<current, created, released, locked>>
  BY <1>3 DEF LockResume, LockRefused, cacheVars, sessionVars
<1>4. ASSUME NEW s \in Sessions, LockNext(s) PROVE [Table!Next]_Table!vars
  BY <1>4, MoveOfLockNext, BooksGrants
<1>5. ASSUME NEW s \in Sessions, ReleaseRecords(s), ~released[s]
      PROVE  [Table!Next]_Table!vars
  BY <1>5, ReleaseFreesSession
<1>6. ASSUME NEW p \in Ops, OpStep(p) PROVE [Table!Next]_Table!vars
  BY <1>6, CacheStep, OperatesTurnsOver
<1>7. CASE UNCHANGED vars
  BY <1>1, <1>7 DEF vars, cacheVars, sessionVars
<1> QED  BY <1>1, <1>2, <1>3, <1>4, <1>5, <1>6, <1>7, NextCases

(***************************************************************************)
(* As long as locking is exclusive, orderly clients see the lock table of  *)
(* LockTable: a record is locked when it is nobody's, and what is locked   *)
(* stays locked until its session or the record is over, however the       *)
(* loops, reservations and operations of the sessions interleave.          *)
(***************************************************************************)
THEOREM ExclusionGivesTable == OrderlySpec /\ []MutualExclusion => TableSpec
<1>1. TickInit => Table!Init
  <2> SUFFICES ASSUME TickInit PROVE Table!Init
    OBVIOUS
  <2>1. Init
    BY DEF TickInit
  <2>2. \A o \in Objects : Holders(o) = {}
    BY <2>1 DEF Init, Holders
  <2>3. {s \in Sessions : released[s]} = {}
    BY <2>1 DEF Init
  <2> QED  BY <2>1, <2>2, <2>3 DEF Init, Table!Init
<1>2. TickInv /\ MutualExclusion' /\ [TickNext /\ Orderly]_tickVars => [Table!Next]_Table!vars
  <2>1. [TickNext /\ Orderly]_tickVars => [TickNext]_tickVars
    OBVIOUS
  <2> QED  BY <2>1, TickStepIsStep, TableStep
<1> QED  BY <1>1, <1>2, TickAlways, PTL DEF OrderlySpec, TableSpec, Table!Spec

(* Three sessions do. *)
THEOREM ThreeSessionsImplementTable ==
  ASSUME AtMostThree
  PROVE  OrderlySpec => TableSpec
BY ThreeSessionsExclude, ExclusionGivesTable, PTL

(* In such a table no two sessions have one record, and a lock ends with   *)
(* its session or its record.                                              *)
LEMMA TableKeepsItsPromise == TableSpec => []Table!OneHolder /\ Table!LocksLast
<1> DEFINE h == [o \in Objects |-> Holders(o)]
           over == {s \in Sessions : released[s]}
           in == {o \in Objects : InCache(o)}
           One == \A r \in Objects, s, t \in Sessions : s \in h[r] /\ t \in h[r] => s = t
           Inv == One /\ in \subseteq created
           Lasts == \A r \in Objects : \A s \in h[r] \ h'[r] : s \in over' \/ r \notin in'
           same == UNCHANGED <<h, over, in, created>>
<1>1. Table!OneHolder <=> One
  BY DEF Table!OneHolder
<1>2. Table!Init => Inv
  BY DEF Table!Init
<1>3. ASSUME Inv, [Table!Next]_Table!vars PROVE Inv' /\ (Lasts \/ same)
  <2>1. ASSUME NEW s \in Sessions, NEW r \in Objects, Table!Grant(s, r)
        PROVE  Inv' /\ Lasts
    <3>1. /\ h[r] = {} /\ h' = [h EXCEPT ![r] = {s}]
          /\ UNCHANGED <<in, created>>
      BY <2>1 DEF Table!Grant
    <3>2. \A u \in Objects : h'[u] = IF u = r THEN {s} ELSE h[u]
      BY <3>1
    <3> HIDE DEF h, over, in
    <3> QED  BY <1>3, <3>1, <3>2
  <2>2. ASSUME NEW s \in Sessions, Table!Free(s) PROVE Inv' /\ Lasts
    <3>1. /\ h' = [r \in Objects |-> h[r] \ {s}] /\ over' = over \cup {s}
          /\ UNCHANGED <<in, created>>
      BY <2>2 DEF Table!Free
    <3>2. \A u \in Objects : h'[u] = h[u] \ {s}
      BY <3>1
    <3> HIDE DEF h, over, in
    <3> QED  BY <1>3, <3>1, <3>2
  <2>3. ASSUME NEW out \in SUBSET Objects, NEW new \in SUBSET Objects,
               Table!Turnover(out, new)
        PROVE  Inv' /\ Lasts
    <3>1. /\ h' = [r \in Objects |-> IF r \in out THEN {} ELSE h[r]]
          /\ out \subseteq in /\ new \cap created = {}
          /\ in' = (in \ out) \cup new /\ created' = created \cup new
      BY <2>3 DEF Table!Turnover
    <3>2. \A u \in Objects : h'[u] = IF u \in out THEN {} ELSE h[u]
      BY <3>1
    <3> HIDE DEF h, over, in
    <3>3. \A u \in out : u \notin in'
      BY <1>3, <3>1
    <3> QED  BY <1>3, <3>1, <3>2, <3>3
  <2>4. CASE UNCHANGED Table!vars
    <3>1. same
      BY <2>4 DEF Table!vars
    <3> HIDE DEF h, over, in
    <3> QED  BY <1>3, <3>1
  <2> QED  BY <1>3, <2>1, <2>2, <2>3, <2>4 DEF Table!Next
<1>4. TableSpec => []Inv
  BY <1>2, <1>3, PTL DEF TableSpec, Table!Spec
<1>5. TableSpec => []Table!OneHolder
  <2>1. Inv => Table!OneHolder
    BY <1>1
  <2> QED  BY <1>4, <2>1, PTL
<1>6. TableSpec => Table!LocksLast
  <2>1. Lasts <=> Table!LockLasts
    BY DEF Table!LockLasts
  <2>2. same <=> UNCHANGED Table!vars
    BY DEF Table!vars
  <2>3. Inv /\ [Table!Next]_Table!vars => [Table!LockLasts]_Table!vars
    BY <1>3, <2>1, <2>2
  <2> QED  BY <1>4, <2>3, PTL DEF TableSpec, Table!Spec, Table!LocksLast
<1> QED  BY <1>5, <1>6

(***************************************************************************)
(* So up to three sessions of orderly clients keep what they lock: no two  *)
(* hold one record, and only the session's end or the record's takes a     *)
(* lock away, whatever acquires overlap it and whoever waits.              *)
(***************************************************************************)
THEOREM ThreeSessionsKeepTheirLocks ==
  ASSUME AtMostThree
  PROVE  OrderlySpec => []Table!OneHolder /\ Table!LocksLast
BY ThreeSessionsImplementTable, TableKeepsItsPromise
=============================================================================
