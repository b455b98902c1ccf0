----------------------------- MODULE SessionTicks -----------------------------
(***************************************************************************)
(* LockSessions under the order in which the event loop really resumes its *)
(* awaits.  LockSessions lets two settled awaits resume in either order;   *)
(* here every continuation has the number of microtask ticks its chain of  *)
(* promises takes, the one that is due first runs first, and a timer fires *)
(* only when no microtask is due.  Client calls and engine answers may     *)
(* come at any point.  Continuations due at the same tick run in any       *)
(* order (the loop takes them in the order in which they began to wait).   *)
(***************************************************************************)
EXTENDS LockSessions

VARIABLES
  callDue,     \* callDue[c]: ticks until acquire() c resumes
  lockerDue,   \* lockerDue[s]: ticks until the lock loop of s resumes
  opDue        \* opDue[p]: ticks until operation p leaves untilReleased()

dueVars  == <<callDue, lockerDue, opDue>>
tickVars == <<vars, dueVars>>

Never == 9     \* nothing is due; above every number of ticks

TickInit ==
  /\ Init
  /\ callDue = [c \in Calls |-> Never]
  /\ lockerDue = [s \in Sessions |-> Never]
  /\ opDue = [p \in Ops |-> Never]

(***************************************************************************)
(* Ticks from the release of a session to the resumption of who awaits it. *)
(* The session's promise passes through the constructor's .catch (1) and   *)
(* untilReleased() (2).  lock() awaits that (3).  The controller's acquire *)
(* adds a .catch of its own (4).  The record's untilReleased() adds one    *)
(* hop to an update, set or remove (4), handleLocked one more to a read    *)
(* (5).  untilReleased() of a session already released skips the first     *)
(* two hops, the record's untilReleased() then adopts a settled promise.   *)
(***************************************************************************)
\* LockTicksViaRecord is a mutant of LockTicks: lock() awaits the record's own
\* untilReleased().
LockTicksViaRecord(justReleased) == IF justReleased THEN 5 ELSE 3
LockTicks(justReleased) == IF justReleased THEN 3 ELSE 1
AcquireTicks(justReleased) == IF justReleased THEN 4 ELSE 2
OpTicks(kind, justReleased) ==
  CASE kind = "read" -> IF justReleased THEN 5 ELSE 4
    [] OTHER         -> IF justReleased THEN 4 ELSE 3

Later(due, elapsed) == IF due = Never THEN Never ELSE due - elapsed

(***************************************************************************)
(* What is due after a step that ran `elapsed` ticks from now: a           *)
(* continuation the step has made ready gets its ticks, one that was due   *)
(* comes nearer.  An await that follows a return or a throw takes a tick.  *)
(***************************************************************************)
Schedule(elapsed) ==
  /\ callDue' = [c \in Calls |->
       LET old == call[c]  new == call'[c]
       IN CASE new.pc = "gathered" /\ old.pc # "gathered" -> 1
            [] new.pc = "reserving" /\ released'[new.on] ->
                 IF new # old THEN AcquireTicks(FALSE)
                 ELSE IF ~released[new.on] THEN AcquireTicks(TRUE)
                 ELSE Later(callDue[c], elapsed)
            [] new.pc = "gathered" -> Later(callDue[c], elapsed)
            [] OTHER -> Never]
  /\ lockerDue' = [s \in Sessions |->
       LET old == locker[s]  new == locker'[s]
       IN CASE new.pc \in {"granted", "refused"} ->
                 IF new # old THEN 1 ELSE Later(lockerDue[s], elapsed)
            [] new.pc = "waiting" /\ released'[new.on] ->
                 IF new # old THEN LockTicks(FALSE)
                 ELSE IF ~released[new.on] THEN LockTicks(TRUE)
                 ELSE Later(lockerDue[s], elapsed)
            [] OTHER -> Never]
  /\ opDue' = [p \in Ops |->
       LET old == op[p]  new == op'[p]
       IN IF new.pc = "waiting" /\ released'[new.on]
          THEN IF new # old THEN OpTicks(new.kind, FALSE)
               ELSE IF ~released[new.on] THEN OpTicks(new.kind, TRUE)
               ELSE Later(opDue[p], elapsed)
          ELSE Never]

(* Nothing is due before d ticks from now. *)
FirstDue(d) ==
  /\ \A c \in Calls : d <= callDue[c]
  /\ \A s \in Sessions : d <= lockerDue[s]
  /\ \A p \in Ops : d <= opDue[p]

(* A continuation runs when it is due and no other is due earlier. *)
Continue(due) ==
  /\ due # Never
  /\ FirstDue(due)
  /\ Schedule(due)

ResumeCall(c) == (ReservationResume(c) \/ Enlist(c)) /\ Continue(callDue[c])

ResumeLocker(s) ==
  /\ LockResume(s) \/ LockNext(s) \/ LockRefused(s)
  /\ Continue(lockerDue[s])

ResumeOp(p) == OpResume(p) /\ Continue(opDue[p])

ClientStep ==
  /\ \/ \E c \in Calls, request \in Requests : Acquire(c, request)
     \/ \E s \in Sessions : Release(s)
     \/ \E p \in Ops, key \in Keys :
          \/ \E kind \in Kinds, as \in Sessions \cup {NoSession} : OpStart(p, kind, key, as)
          \/ "set" \in Kinds /\ OpCreate(p, key)
  /\ Schedule(0)

EngineStep ==
  /\ \E p \in Ops : OpAct(p) \/ OpFail(p) \/ OpForget(p)
  /\ Schedule(0)

TimerStep ==
  /\ FirstDue(Never)
  /\ \E s \in Sessions : Timeout(s)
  /\ Schedule(0)

TickNext ==
  \/ \E c \in Calls : ResumeCall(c)
  \/ \E s \in Sessions : ResumeLocker(s)
  \/ \E p \in Ops : ResumeOp(p)
  \/ ClientStep
  \/ EngineStep
  \/ TimerStep

TickSpec == TickInit /\ [][TickNext]_tickVars

(***************************************************************************)
(* Orderly clients await every acquire before they release the session, as *)
(* the documentation's examples do, and no session times out on the way.   *)
(***************************************************************************)
Orderly ==
  \A s \in Sessions : released'[s] # released[s] =>
    \A c \in Calls : Caller[c] = s => call[c].pc \in {"idle", "done", "failed"}

OrderlySpec == TickInit /\ [][TickNext /\ Orderly]_tickVars

-----------------------------------------------------------------------------
(* The lock table that orderly clients see, when no more than three of     *)
(* them contend: only live sessions and cached records count.              *)
Holders(o) == {s \in Sessions : ~released[s] /\ InCache(o) /\ o \in locked[s]}

Table == INSTANCE LockTable WITH
  Records <- Objects,
  holders <- [o \in Objects |-> Holders(o)],
  over <- {s \in Sessions : released[s]},
  cached <- {o \in Objects : InCache(o)},
  used <- created

TableSpec == Table!Spec

-----------------------------------------------------------------------------
(* Who awaits a session in lock() comes first: while one does, no acquire  *)
(* and no cache operation that awaits the same session for the same record *)
(* goes ahead.  An acquire that threw leaves its records pending and       *)
(* reserved: who finds such a reservation may await a session that has     *)
(* long been released, and does go ahead.                                  *)
LockersFirst ==
  [][\A s \in Sessions :
       LET Behind(w) == /\ locker[s].pc = "waiting"
                        /\ InCache(locker[s].rec)
                        /\ w.rec = locker[s].rec
                        /\ w.on = locker[s].on
       IN /\ \A c \in Calls :
               /\ call[c].pc = "reserving" /\ Behind(call[c])
               /\ call[c].rec \notin pending[call[c].on]
               => call'[c] = call[c]
          /\ \A p \in Ops :
               op[p].pc = "waiting" /\ Behind(op[p]) => op'[p] = op[p]]_tickVars
=============================================================================
