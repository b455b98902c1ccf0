---------------------------- MODULE EnginesProxy ----------------------------
(***************************************************************************)
(* EnginesProxy: set, remove and read of a cache record across the storage *)
(* engines it is kept in.                                                  *)
(*                                                                         *)
(* A set goes to all engines at once and is rolled back if one fails.  A   *)
(* remove or a read is a task in the queue of the record's key; a call     *)
(* that finds a task of its kind there becomes a "leacher" of it.  The     *)
(* queue (atomix TasksQueue) is external: one task of a queue runs at a    *)
(* time, a waiting one starts some time after the queue is free, and a     *)
(* task is in the queue until its onResolve or onReject has run.           *)
(*                                                                         *)
(* The key of a file's record changes when the file is renamed.  A task    *)
(* and a leacher keep the key they were added under; engines are asked     *)
(* about the key the record has at that moment, and leachers are looked up *)
(* by the key it has when the task is over.                                *)
(*                                                                         *)
(* A value is named by the set call that wrote it.                         *)
(***************************************************************************)
EXTENDS Naturals

CONSTANTS
  Records,
  Files,       \* the records whose key can change
  Places,      \* (flavor, scope, key): what StorageEngine keys its maps by
  Keys,
  KeyOf,       \* KeyOf[p]: the key of p, which names queues and leachers
  Engines,     \* record.engines
  Memory,      \* the built-in engine's name; it may not be in Engines
  Calls,       \* bound: the calls made to the proxy
  Renames,     \* bound: the pairs of places a record moves between
  NoValue,     \* an engine's undefined
  NoResponse   \* an undefined in place of an EngineResponse

ASSUME KeyOfAssumption == KeyOf \in [Places -> Keys] /\ Files \subseteq Records
ASSUME ValueAssumption ==
  /\ NoValue \notin Calls
  /\ NoResponse \notin Calls \cup {NoValue}
ASSUME SomeAssumption == Records # {} /\ Places # {} /\ Engines # {}

VARIABLES
  at,       \* at[r]: the place record r has in its engines
  stored,   \* stored[e][p]: the value engine e keeps in p
  call,     \* call[c]: one call of set, remove or read
  io,       \* io[c][e]: the request c's code has made to engine e
  before    \* observer: before[c] is the set of calls over when c began

vars == <<at, stored, call, io, before>>

-----------------------------------------------------------------------------
(* Types *)

(***************************************************************************)
(* A set writes its value and may have to roll it back.  A remove or read  *)
(* owns a queued or running task, or is the leacher of another's.          *)
(***************************************************************************)
CallState ==
  [pc: {"idle", "setting", "rollback", "queued", "running", "leaching",
        "done", "failed"},
   op: {"set", "remove", "read"},
   rec: Records,
   place: Places,       \* the record's when the call was made
   owner: BOOLEAN,      \* the call's own task serves it
   got: Calls \cup {NoValue, NoResponse}]

IdleCall == [pc |-> "idle", op |-> "set", rec |-> CHOOSE r \in Records : TRUE,
             place |-> CHOOSE p \in Places : TRUE, owner |-> FALSE, got |-> NoValue]

Request == [req: {"none", "write", "erase", "read"},
            place: Places,
            st: {"sent", "ok", "failed"},
            val: Calls \cup {NoValue}]

SetCall(r) == [pc |-> "setting", op |-> "set", rec |-> r, place |-> at[r],
               owner |-> FALSE, got |-> NoValue]

NoRequest == [req |-> "none", place |-> CHOOSE p \in Places : TRUE, st |-> "ok",
              val |-> NoValue]

(* Type invariant. *)
TypeOK ==
  /\ at \in [Records -> Places]
  /\ stored \in [Engines -> [Places -> Calls \cup {NoValue}]]
  /\ call \in [Calls -> CallState]
  /\ io \in [Calls -> [Engines -> Request]]
  /\ before \in [Calls -> SUBSET Calls]

Init ==
  /\ at \in [Records -> Places]
  /\ stored = [e \in Engines |-> [p \in Places |-> NoValue]]
  /\ call = [c \in Calls |-> IdleCall]
  /\ io = [c \in Calls |-> [e \in Engines |-> NoRequest]]
  /\ before = [c \in Calls |-> {}]

-----------------------------------------------------------------------------
Over(c) == call[c].pc \in {"done", "failed"}
Key(c) == KeyOf[call[c].place]

Awaits(c, req) == \E e \in Engines : io[c][e].req = req /\ io[c][e].st = "sent"
Fulfilled(c, req) == {e \in Engines : io[c][e].req = req /\ io[c][e].st = "ok"}
Rejected(c, req) == {e \in Engines : io[c][e].req = req /\ io[c][e].st = "failed"}

(* Mutant of Value: a removal leaves an entry behind. *)
ValueTombstone(c, req, old) ==
  CASE req = "write" -> c
    [] req = "erase" -> NoResponse
    [] OTHER         -> old

(* What a request leaves in the engine. *)
Value(c, req, old) ==
  CASE req = "write" -> c
    [] req = "erase" -> NoValue
    [] OTHER         -> old

(***************************************************************************)
(* c's code makes the same request about place p to the engines of the set *)
(* `to`.  The built-in engine acts in the call itself, the others some     *)
(* time later.                                                             *)
(***************************************************************************)
Send(c, req, p, to) ==
  /\ io' = [io EXCEPT ![c] = [e \in Engines |->
       IF e \notin to THEN io[c][e]
       ELSE IF e = Memory
            THEN [req |-> req, place |-> p, st |-> "ok",
                  val |-> IF req = "read" THEN stored[e][p] ELSE NoValue]
            ELSE [req |-> req, place |-> p, st |-> "sent", val |-> NoValue]]]
  /\ stored' = [e \in Engines |->
       IF e \in to \cap {Memory}
       THEN [stored[e] EXCEPT ![p] = Value(c, req, @)]
       ELSE stored[e]]

(* Engine e answers c: it has done what it was asked for, or has failed    *)
(* and done nothing.                                                       *)
EngineAnswers(c, e) ==
  LET p == io[c][e].place
      req == io[c][e].req
  IN /\ io[c][e].st = "sent"
     /\ \/ /\ stored' = [stored EXCEPT ![e][p] = Value(c, req, @)]
           /\ io' = [io EXCEPT ![c][e] =
                [req |-> req, place |-> p, st |-> "ok",
                 val |-> IF req = "read" THEN stored[e][p] ELSE NoValue]]
        \/ /\ io' = [io EXCEPT ![c][e] =
                [req |-> req, place |-> p, st |-> "failed", val |-> NoValue]]
           /\ UNCHANGED stored
     /\ UNCHANGED <<at, call, before>>

(* A renamed file's record takes another key. *)
Rename(r, p) ==
  /\ <<at[r], p>> \in Renames
  /\ at' = [at EXCEPT ![r] = p]
  /\ UNCHANGED <<stored, call, io, before>>

Begin(c) ==
  /\ call[c].pc = "idle"
  /\ before' = [before EXCEPT ![c] = {d \in Calls : Over(d)}]
  /\ UNCHANGED at

-----------------------------------------------------------------------------
(* set *)

(* Mutant of Set: the built-in engine keeps what it has. *)
SetOthers(c, r) ==
  /\ Begin(c)
  /\ call' = [call EXCEPT ![c] = SetCall(r)]
  /\ LET kept == stored[Memory][at[r]] # NoValue
     IN Send(c, "write", at[r], IF kept THEN Engines \ {Memory} ELSE Engines)

Set(c, r) ==
  /\ Begin(c)
  /\ call' = [call EXCEPT ![c] = SetCall(r)]
  /\ Send(c, "write", at[r], Engines)

(* Mutant of SetSettles: the rollback removes where the set has failed. *)
SetSettlesSwapped(c) ==
  /\ call[c].pc = "setting"
  /\ ~Awaits(c, "write")
  /\ \/ /\ Rejected(c, "write") = {}
        /\ call' = [call EXCEPT ![c].pc = "done"]
        /\ UNCHANGED <<stored, io>>
     \/ /\ Rejected(c, "write") # {}
        /\ call' = [call EXCEPT ![c].pc = "rollback"]
        /\ Send(c, "erase", at[call[c].rec], Rejected(c, "write"))
  /\ UNCHANGED <<at, before>>

(* Mutant of SetSettles: Promise.any in place of Promise.allSettled. *)
SetSettlesAtFirst(c) ==
  /\ call[c].pc = "setting"
  /\ \/ /\ Fulfilled(c, "write") # {}
        /\ call' = [call EXCEPT ![c].pc = "done"]
        /\ UNCHANGED <<stored, io>>
     \/ /\ Fulfilled(c, "write") = {} /\ ~Awaits(c, "write")
        /\ call' = [call EXCEPT ![c].pc = "rollback"]
        /\ Send(c, "erase", at[call[c].rec], {})
  /\ UNCHANGED <<at, before>>

(* Promise.allSettled: all succeeded, or the engines that did are asked to *)
(* remove the record.                                                      *)
SetSettles(c) ==
  /\ call[c].pc = "setting"
  /\ ~Awaits(c, "write")
  /\ \/ /\ Rejected(c, "write") = {}
        /\ call' = [call EXCEPT ![c].pc = "done"]
        /\ UNCHANGED <<stored, io>>
     \/ /\ Rejected(c, "write") # {}
        /\ call' = [call EXCEPT ![c].pc = "rollback"]
        /\ Send(c, "erase", at[call[c].rec], Fulfilled(c, "write"))
  /\ UNCHANGED <<at, before>>

(* Promise.all: the set rejects when every removal is done, or when one    *)
(* has failed with others still on their way.                              *)
RollbackSettles(c) ==
  /\ call[c].pc = "rollback"
  /\ ~Awaits(c, "erase") \/ Rejected(c, "erase") # {}
  /\ call' = [call EXCEPT ![c].pc = "failed"]
  /\ UNCHANGED <<at, stored, io, before>>

-----------------------------------------------------------------------------
(* remove and read *)

(* queue.hasTask(`${op}_${key}`) *)
HasTask(op, k) ==
  \E d \in Calls : /\ call[d].pc \in {"queued", "running"}
                   /\ call[d].op = op
                   /\ Key(d) = k

(* The call joins the task of its kind or adds one. *)
Enqueue(c, op, r) ==
  /\ Begin(c)
  /\ LET joins == HasTask(op, KeyOf[at[r]])
     IN call' = [call EXCEPT
          ![c] = [pc |-> IF joins THEN "leaching" ELSE "queued", op |-> op,
                  rec |-> r, place |-> at[r], owner |-> ~joins, got |-> NoValue]]
  /\ UNCHANGED <<stored, io>>

(* The queue starts a task: a remove asks every engine, a read asks the    *)
(* built-in engine first, if the record is kept there.                     *)
RunTask(c) ==
  /\ call[c].pc = "queued"
  /\ \A d \in Calls : call[d].pc = "running" => Key(d) # Key(c)
  /\ call' = [call EXCEPT ![c].pc = "running"]
  /\ LET first == IF call[c].op = "remove" THEN Engines ELSE Engines \cap {Memory}
     IN Send(c, IF call[c].op = "remove" THEN "erase" ELSE "read", at[call[c].rec], first)
  /\ UNCHANGED <<at, before>>

Values(c) == {io[c][e].val : e \in Fulfilled(c, "read")} \ {NoValue}

(* The read goes on to the engines other than the built-in one. *)
ReadOthers(c) ==
  /\ call[c].pc = "running"
  /\ call[c].op = "read"
  /\ Values(c) = {}
  /\ \A e \in Engines \ {Memory} : io[c][e].req = "none"
  /\ Engines \ {Memory} # {}
  /\ Send(c, "read", at[call[c].rec], Engines \ {Memory})
  /\ UNCHANGED <<at, call, before>>

Answered(d, outcome, v) ==
  [pc |-> outcome, op |-> call[d].op, rec |-> call[d].rec, place |-> call[d].place,
   owner |-> call[d].owner, got |-> v]

(* The task is over: its owner is answered, and the leachers of its kind   *)
(* under the key its record has now.  Requests of a read that is answered  *)
(* already are of no interest any more.                                    *)
Answer(c, outcome, owner, leacher) ==
  /\ call' = [d \in Calls |->
       IF d = c THEN Answered(d, outcome, owner)
       ELSE IF /\ call[d].pc = "leaching"
               /\ call[d].op = call[c].op
               /\ Key(d) = KeyOf[at[call[c].rec]]
            THEN Answered(d, outcome, leacher)
            ELSE call[d]]
  /\ io' = [io EXCEPT ![c] = [e \in Engines |->
       IF io[c][e].req = "read" THEN NoRequest ELSE io[c][e]]]
  /\ UNCHANGED <<at, stored, before>>

RemoveRunning(c) == call[c].pc = "running" /\ call[c].op = "remove"
ReadRunning(c) == call[c].pc = "running" /\ call[c].op = "read"


(* Every engine that is to be read has answered. *)
AllRead(c) == \A e \in Engines : io[c][e].req = "read" /\ io[c][e].st # "sent"

(* Mutant of RemoveSettles: Promise.any in place of Promise.allSettled. *)
RemoveSettlesAtFirst(c) ==
  /\ RemoveRunning(c)
  /\ \/ Fulfilled(c, "erase") # {} /\ Answer(c, "done", NoValue, NoValue)
     \/ /\ Fulfilled(c, "erase") = {} /\ ~Awaits(c, "erase")
        /\ Answer(c, "failed", NoValue, NoValue)

(* A remove fails only if every engine has failed. *)
RemoveSettles(c) ==
  /\ RemoveRunning(c)
  /\ ~Awaits(c, "erase")
  /\ \/ Fulfilled(c, "erase") # {} /\ Answer(c, "done", NoValue, NoValue)
     \/ Fulfilled(c, "erase") = {} /\ Answer(c, "failed", NoValue, NoValue)

(* The first value settles a read. *)
ReadFinds(c) ==
  /\ ReadRunning(c)
  /\ \E v \in Values(c) : Answer(c, "done", v, v)

(* No engine has a value: the owner's promise is resolved from within the  *)
(* action, which returns undefined, and that is what the leachers get.     *)
ReadMisses(c) ==
  /\ ReadRunning(c)
  /\ AllRead(c)
  /\ Values(c) = {}
  /\ Rejected(c, "read") = {}
  /\ Answer(c, "done", NoValue, NoResponse)

(* No engine has a value and some have failed. *)
ReadFails(c) ==
  /\ ReadRunning(c)
  /\ AllRead(c)
  /\ Values(c) = {}
  /\ Rejected(c, "read") # {}
  /\ Answer(c, "failed", NoValue, NoValue)

-----------------------------------------------------------------------------
Settle(c) ==
  \/ SetSettles(c)
  \/ RollbackSettles(c)
  \/ RemoveSettles(c)
  \/ ReadFinds(c)
  \/ ReadMisses(c)
  \/ ReadFails(c)

Client(c) ==
  \E r \in Records : \/ Set(c, r)
                     \/ Enqueue(c, "remove", r)
                     \/ Enqueue(c, "read", r)

Progress(c) ==
  \/ \E e \in Engines : EngineAnswers(c, e)
  \/ RunTask(c)
  \/ ReadOthers(c)
  \/ Settle(c)

Next ==
  \/ \E c \in Calls : Client(c) \/ Progress(c)
  \/ \E r \in Files, p \in Places : Rename(r, p)

Spec == Init /\ [][Next]_vars

(* Engines answer, the queue runs its tasks, promises settle.  Nothing     *)
(* says in which order a queue takes its tasks, and none is starved: a     *)
(* queue never holds more than one of each kind.                           *)
FairSpec == Spec /\ \A c \in Calls : WF_vars(Progress(c))

-----------------------------------------------------------------------------
(* Properties that hold *)

Sets(p) == {c \in Calls : call[c].op = "set" /\ call[c].place = p /\ call[c].pc # "idle"}

(* A rollback that has failed rejects the set with removals on their way,  *)
(* which land whenever they do.                                            *)
BrokenRollback(c) == call[c].op = "set" /\ Rejected(c, "erase") # {}

(* x is over when c begins, and nothing of it lands afterwards. *)
Precedes(x, c) == x \in before[c] /\ ~BrokenRollback(x)

(* The sets of p, and the rollbacks and removes that ask engines for p. *)
Erasers(p) ==
  Sets(p) \cup {c \in Calls : \E e \in Engines : io[c][e].req = "erase" /\ io[c][e].place = p}

(* A set that resolved is in every engine until another set or remove of   *)
(* the place, overlapping it or later, changes that.                       *)
SetIsInAllEngines ==
  \A p \in Places : \A c \in Sets(p) :
    /\ call[c].pc = "done"
    /\ \A x \in Erasers(p) \ {c} : Precedes(x, c)
    => \A e \in Engines : stored[e][p] = c

(* The record was renamed during the set: the rollback asks for its new    *)
(* place.                                                                  *)
RolledBackElsewhere(c) ==
  \E e \in Engines : io[c][e].req = "erase" /\ io[c][e].place # call[c].place

(* A set that rejected has left its value nowhere, unless the rollback has *)
(* failed too or the record was renamed before it.                         *)
FailedSetLeavesNothing ==
  \A p \in Places : \A c \in Sets(p) :
    call[c].pc = "failed" /\ ~BrokenRollback(c) /\ ~RolledBackElsewhere(c) =>
      \A e \in Engines : stored[e][p] # c

(* A read with a task of its own never returns a value that another set of *)
(* the value's place had overwritten before the read began.                *)
ReadIsFresh ==
  \A c, w \in Calls :
    (/\ call[c].op = "read" /\ call[c].owner /\ call[c].pc = "done"
     /\ call[c].got \in Calls
     /\ w \in before[c] \cap Sets(call[call[c].got].place) /\ call[w].pc = "done")
    => call[c].got \notin before[w]

(* A remove with a task of its own leaves none of the values set before it *)
(* began in the place its record has when the task runs, save in engines   *)
(* that failed to remove the record.                                       *)
OwnRemoveForgets ==
  \A c, w \in Calls :
    call[c].op = "remove" /\ call[c].owner /\ call[c].pc = "done" /\ w \in before[c] =>
      \A e \in Engines \ Rejected(c, "erase") :
        w \in Sets(io[c][e].place) => stored[e][io[c][e].place] # w

(* The task that a leacher has joined is over, and was over for another    *)
(* key: its record had been renamed.                                       *)
Stranded(c) == call[c].pc = "leaching" /\ ~HasTask(call[c].op, Key(c))


-----------------------------------------------------------------------------
(* What the documentation promises and the code does not keep *)

(* EnginesProxy.ts:231-232: if all engines respond with undefined, read    *)
(* returns a response with undefined as the value: nobody gets an          *)
(* undefined in place of a response.                                       *)
ReadsGetResponses == \A c \in Calls : call[c].got # NoResponse

(* EnginesProxy.ts:239: read returns "a promise that resolves with the     *)
(* value".  That of a leacher whose task's record was renamed does not     *)
(* resolve or reject before another task of that kind and key is over.     *)
LeachersSettle == \A c \in Calls : call[c].pc # "idle" ~> Over(c)

(* README.md:230: scopes separate data logically: a read of a record does  *)
(* not return what was set for another one.                                *)
ScopesApart ==
  \A c \in Calls : /\ call[c].op = "read"
                   /\ call[c].pc = "done"
                   /\ call[c].got \in Calls
    => call[call[c].got].place = call[c].place

(* EnginesProxy.ts:144: remove resolves if at least one engine has removed *)
(* the record: not every engine keeps a value set before the call.         *)
RemoveForgets ==
  \A c, w \in Calls :
    (/\ call[c].op = "remove" /\ call[c].pc = "done"
     /\ w \in before[c] \cap Sets(call[c].place))
    => \E e \in Engines : stored[e][call[c].place] # w

(* EnginesProxy.ts:96-97: a failed set is rolled back to maintain          *)
(* consistency: with all calls over and all rollbacks done, the engines    *)
(* agree.                                                                  *)
EnginesAgree ==
  (\A c \in Calls : call[c].pc = "idle" \/ (Over(c) /\ Rejected(c, "erase") = {}))
    => \A e, f \in Engines, p \in Places : stored[e][p] = stored[f][p]
=============================================================================
