-------------------------- MODULE BackupRestoreProofs --------------------------
(***************************************************************************)
(* Proofs about BackupRestore: its types, its blocking processes, and that *)
(* it implements CacheCopy, for every set of keys, values and scopes, any  *)
(* buffer and any block of the cipher.                                     *)
(***************************************************************************)
EXTENDS BackupRestore, TLAPS

(***************************************************************************)
(* The invariant behind the refinement.  It follows a record's line: from  *)
(* the scopes to come through the exports and the waiting lines to the     *)
(* destination.                                                            *)
(***************************************************************************)
Busy == writer.pc # "idle"
Waiting == writer.queue \cup buffer \cup cipher

(* Between two backups nothing of a backup is left. *)
IdleInv == ~Busy =>
  /\ writer = Idle
  /\ buffer = {} /\ cipher = {}
  /\ sink = {}

(* A closed writer has nothing more to write. *)
ClosedInv == writer.pc = "closed" =>
  writer.left = {} /\ writer.todo = {} /\ writer.queue = {}

(* A local backup that is alone in its file is, while it runs, what has    *)
(* reached it.                                                             *)
InPlaceInv == Busy /\ use.service = "local" /\ saved.state # "mixed" =>
  saved = [lines |-> sink, state |-> "part"]

(* Streams are left over from local backups only, and write into a file    *)
(* that is no whole backup: a mixed one, as soon as a backup runs.         *)
OrphanInv == orphan # {} =>
  /\ use.service = "local"
  /\ saved.state = "mixed" \/ (saved.state = "part" /\ ~Busy)

(* What a cache has it has had, and what a read has got. *)
HeldInv == Busy =>
  /\ \A k \in Keys : cache[k] # Missing => cache[k] \in held[NameOf[k]]
  /\ \A n \in Names : reading[n] # Missing => reading[n] \in held[n]

(* What has been there all the while is there. *)
LastingInv == Busy => lasting \subseteq Records

(* A record is listed once, exported once and written once. *)
OnceInv == \A k \in Keys :
  /\ ScopeOf[k] \in writer.left => k \notin writer.todo \cup Waiting
  /\ k \in writer.todo => k \notin Waiting

(* A waiting line has a value that a record of its name had. *)
ExportedInv == \A k \in Keys :
  k \in Waiting => exported[k] # Missing /\ exported[k] \in held[NameOf[k]]

HasLine(k) == \E v \in Values : <<k, v>> \in sink

(* A record that has been there all the while is somewhere on its way. *)
OnItsWay == Busy => \A k \in lasting :
  \/ ScopeOf[k] \in writer.left
  \/ k \in writer.todo
  \/ k \in Waiting
  \/ HasLine(k)

StreamInv == IdleInv /\ InPlaceInv /\ OrphanInv
ValueInv == HeldInv /\ LastingInv /\ OnceInv /\ ExportedInv /\ OnItsWay
CopyInv == StreamInv /\ ClosedInv /\ ValueInv
Inv == TypeOK /\ FlagsMatch /\ CopyInv

(* What a step that moves a line leaves alone. *)
Same ==
  UNCHANGED <<use, cache, reading, flags, exported, orphan, restore, clearing, observers>>

Objects == [lines : SUBSET RecordLines, state : {"part", "whole", "mixed"}]

-----------------------------------------------------------------------------
(* Types *)

(* The pipe hands a line to the destination or to the cipher. *)
LEMMA DeliverEffect ==
  ASSUME TypeOK, NEW line \in Lines, Deliver(line)
  PROVE  /\ flowing' \in BOOLEAN
         /\ \/ Arrive(line) /\ cipher' = cipher
            \/ cipher' = {line} /\ sink' = sink /\ saved' = saved
BY DEF Deliver

LEMMA TakesType ==
  ASSUME TypeOK, NEW lines, lines \subseteq RecordLines, Takes(lines)
  PROVE  saved' \in Objects
<1>1. saved \in Objects
  BY DEF TypeOK, Objects
<1>2. [saved EXCEPT !.lines = @ \cup lines] \in Objects
  BY <1>1 DEF Objects
<1> QED  BY <1>1, <1>2 DEF Takes

(* A waiting line has a value. *)
LEMMA WaitingLine ==
  ASSUME TypeOK, ExportedInv, NEW k \in Keys, k \in Waiting
  PROVE  Line(k) \in RecordLines /\ exported[k] \in Values
BY DEF ExportedInv, TypeOK, Contents, Line, RecordLines

LEMMA ArriveType ==
  ASSUME TypeOK, ExportedInv, NEW line \in Lines, line \in Waiting \/ line \notin Keys,
         Arrive(line)
  PROVE  sink' \subseteq RecordLines /\ saved' \in Objects
<1> DEFINE arrived == IF line \in Keys THEN {Line(line)} ELSE {}
<1>1. arrived \subseteq RecordLines
  BY WaitingLine
<1>2. sink' = sink \cup arrived /\ Takes(arrived)
  BY DEF Arrive
<1>3. PICK lines : lines = arrived
  OBVIOUS
<1>4. saved' \in Objects
  BY <1>1, <1>2, <1>3, TakesType
<1> QED  BY <1>1, <1>2, <1>4 DEF TypeOK

LEMMA DeliverType ==
  ASSUME TypeOK, ExportedInv, NEW line \in Lines, line \in Waiting \/ line \notin Keys,
         Deliver(line)
  PROVE  /\ flowing' \in BOOLEAN
         /\ cipher' \subseteq Lines
         /\ sink' \subseteq RecordLines
         /\ saved' \in Objects
BY DeliverEffect, ArriveType DEF TypeOK, Objects

(* A line that is pushed goes through or waits. *)
LEMMA PushEffect ==
  ASSUME TypeOK, NEW line \in Lines, NEW pc \in {"running", "closed"}, Push(line, pc)
  PROVE  /\ writer' \in WriterState
         /\ writer'.pc \in {pc, "blocked"}
         /\ writer'.left = writer.left
         /\ writer'.todo = writer.todo
         /\ writer'.queue = writer.queue \ {line}
         /\ \/ Deliver(line) /\ cipher = {} /\ buffer' = buffer
            \/ /\ buffer' = buffer \cup {line}
               /\ UNCHANGED <<flowing, cipher, sink, saved>>
<1>1. CASE flowing /\ buffer = {} /\ cipher = {}
  <2>1. /\ Deliver(line) /\ buffer' = buffer
        /\ writer' = Writer(pc, writer.left, writer.todo, writer.queue \ {line})
    BY <1>1 DEF Push
  <2>2. writer' \in WriterState
    BY <2>1 DEF TypeOK, Writer, WriterState
  <2> QED  BY <1>1, <2>1, <2>2 DEF Writer
<1>2. CASE ~(flowing /\ buffer = {} /\ cipher = {})
  <2>1. PICK to \in {pc, "blocked"} :
          writer' = Writer(to, writer.left, writer.todo, writer.queue \ {line})
    BY <1>2 DEF Push
  <2> QED  BY <1>2, <2>1 DEF Push, TypeOK, Writer, WriterState
<1> QED  BY <1>1, <1>2

LEMMA PushType ==
  ASSUME TypeOK, ExportedInv, NEW line \in Lines, line \in writer.queue \/ line \notin Keys,
         NEW pc \in {"running", "closed"}, Push(line, pc), Same
  PROVE  TypeOK'
<1>1. line \in Waiting \/ line \notin Keys
  BY DEF Waiting
<1>2. buffer' \subseteq Lines /\ flowing' \in BOOLEAN /\ cipher' \subseteq Lines
  BY <1>1, PushEffect, DeliverType DEF TypeOK
<1>3. sink' \subseteq RecordLines /\ saved' \in Objects
  BY <1>1, PushEffect, DeliverType DEF TypeOK, Objects
<1> QED  BY <1>2, <1>3, PushEffect DEF TypeOK, Same, restore, observers, Objects

LEMMA DiscardType ==
  ASSUME TypeOK, Discard
  PROVE  /\ writer' \in WriterState
         /\ exported' \in Contents
         /\ buffer' \subseteq Lines /\ flowing' \in BOOLEAN /\ cipher' \subseteq Lines
         /\ sink' \subseteq RecordLines
         /\ held' \in [Names -> SUBSET Values]
         /\ lasting' \subseteq Keys
BY DEF Discard, Idle, Writer, WriterState, Nothing, Contents

LEMMA BecomesType ==
  ASSUME TypeOK, NEW k \in Keys, NEW v \in Values \cup {Missing}, Becomes(k, v)
  PROVE  /\ cache' \in Contents
         /\ held' \in [Names -> SUBSET Values]
         /\ lasting' \subseteq Keys
<1>1. NameOf[k] \in Names
  BY KeysAssumption
<1>2. held' \in [Names -> SUBSET Values]
  BY <1>1 DEF Becomes, TypeOK
<1> QED  BY <1>2 DEF Becomes, TypeOK, Contents

(* The variables of one action after the other.                            *)
LEMMA TypeStep == TypeOK /\ ExportedInv /\ [Next]_vars => TypeOK'
<1> SUFFICES ASSUME TypeOK, ExportedInv, [Next]_vars PROVE TypeOK'
  OBVIOUS
<1> USE KeysAssumption
<1>1. ASSUME NEW k \in Keys, NEW v \in Values \cup {Missing}, Change(k, v) PROVE TypeOK'
  BY <1>1, BecomesType DEF Change, TypeOK, stream, restore
<1>2. CASE Backup
  <2>1. saved' \in Objects
    BY <1>2 DEF Backup, TypeOK, Objects
  <2>2. writer' \in WriterState /\ buffer' \subseteq Lines
    BY <1>2 DEF Backup, Writer, WriterState, Lines
  <2>3. held' \in [Names -> SUBSET Values] /\ lasting' \subseteq Keys
    BY <1>2 DEF Backup, TypeOK, Contents, Records
  <2> QED  BY <1>2, <2>1, <2>2, <2>3 DEF Backup, Starts, TypeOK, restore, Objects
<1>3. CASE Restore
  BY <1>3 DEF Restore, Starts, TypeOK, stream, observers
<1>4. CASE Clear
  BY <1>4 DEF Clear, Starts, Records, TypeOK, stream, restore, observers
<1>5. ASSUME NEW s \in Scopes, NextScope(s) PROVE TypeOK'
  <2>1. writer' \in WriterState
    BY <1>5 DEF NextScope, Writer, WriterState, Records, TypeOK
  <2>2. exported' \in Contents
    BY <1>5 DEF NextScope, TypeOK, Contents
  <2> QED  BY <1>5, <2>1, <2>2 DEF NextScope, TypeOK, stream, restore, observers
<1>6. ASSUME NEW k \in Keys, Export(k) PROVE TypeOK'
  <2>1. writer' \in WriterState
    BY <1>6 DEF Export, Writer, WriterState, TypeOK
  <2>2. exported' \in Contents
    BY <1>6 DEF Export, TypeOK, Contents
  <2> QED  BY <1>6, <2>1, <2>2 DEF Export, TypeOK, stream, restore, observers
<1>7. ASSUME NEW k \in Keys, WriteRecord(k) PROVE TypeOK'
  BY <1>7, PushType DEF WriteRecord, Same, Lines
<1>8. CASE Close
  BY <1>8, PushType, LinesAssumption DEF Close, Same, Lines
<1>9. CASE Finish
  <2>1. saved' \in Objects
    BY <1>9 DEF Finish, TypeOK, Objects
  <2> QED  BY <1>9, <2>1, DiscardType DEF Finish, Ends, TypeOK, restore, Objects
<1>10. CASE Resume
  BY <1>10 DEF Resume, TypeOK, restore, observers
<1>11. ASSUME NEW line \in Lines, Flow(line) PROVE TypeOK'
  <2>1. Deliver(line) /\ buffer' = buffer \ {line} /\ line \in Waiting
    BY <1>11 DEF Flow, Waiting
  <2> QED  BY <1>11, <2>1, DeliverType DEF Flow, TypeOK, restore, observers, Objects
<1>12. CASE RestoreEnds
  BY <1>12 DEF RestoreEnds, Ends, TypeOK, stream, observers
<1>13. ASSUME NEW k \in Keys, NEW v \in Values, RestoreLine(k, v) PROVE TypeOK'
  BY <1>13 DEF RestoreLine, TypeOK, stream, observers
<1>14. ASSUME NEW k \in Keys, NEW v \in Values, Applied(k, v) PROVE TypeOK'
  BY <1>14, BecomesType DEF Applied, SetOver, TypeOK, stream
<1>15. CASE ClearEnds
  BY <1>15 DEF ClearEnds, Ends, TypeOK, stream, restore, observers
<1>16. ASSUME NEW k \in Keys, ClearKey(k) PROVE TypeOK'
  BY <1>16, BecomesType DEF ClearKey, TypeOK, stream, restore
<1>17. ASSUME NEW k \in Keys, NEW v \in Values, SetFails(k, v) PROVE TypeOK'
  BY <1>17 DEF SetFails, SetOver, TypeOK, stream, observers
<1>18. CASE StreamFails
  BY <1>18, DiscardType DEF StreamFails, Ends, TypeOK, restore
<1>19. CASE RestoreFails
  BY <1>19 DEF RestoreFails, Ends, TypeOK, stream, observers
<1>20. CASE Crash
  BY <1>20, DiscardType DEF Crash, TypeOK, Nothing, Contents
<1>21. ASSUME NEW k \in Keys, ExportFails(k) PROVE TypeOK'
  <2>1. \A j \in buffer \cap Keys : Line(j) \in RecordLines
    BY WaitingLine DEF Waiting
  <2>2. orphan' \subseteq RecordLines \cup {Header}
    BY <1>21, <2>1 DEF ExportFails, TypeOK
  <2> QED  BY <1>21, <2>2, DiscardType DEF ExportFails, Ends, TypeOK, restore
<1>22. ASSUME NEW line \in orphan, OrphanWrites(line) PROVE TypeOK'
  <2>1. PICK written : written = {line} \cap RecordLines
    OBVIOUS
  <2>2. Takes(written) /\ written \subseteq RecordLines
    BY <1>22, <2>1 DEF OrphanWrites
  <2>3. saved' \in Objects
    BY <2>2, TakesType
  <2>4. unread' \subseteq RecordLines /\ orphan' \subseteq RecordLines \cup {Header}
    BY <1>22 DEF OrphanWrites, TypeOK
  <2> QED  BY <1>22, <2>3, <2>4 DEF OrphanWrites, TypeOK, observers, Objects
<1>23. CASE OrphanFails
  BY <1>23 DEF OrphanFails, TypeOK, restore, observers
<1>24. ASSUME NEW k \in Keys, ReadGets(k) PROVE TypeOK'
  BY <1>24 DEF ReadGets, TypeOK, Contents, stream, restore, observers
<1>25. ASSUME NEW n \in Names, ReadOver(n) PROVE TypeOK'
  BY <1>25 DEF ReadOver, TypeOK, stream, restore, observers
<1>26. CASE UNCHANGED vars
  BY <1>26 DEF vars, TypeOK
<1> QED
  BY <1>1, <1>2, <1>3, <1>4, <1>5, <1>6, <1>7, <1>8, <1>9, <1>10, <1>11, <1>12, <1>13,
     <1>14, <1>15, <1>16, <1>17, <1>18, <1>19, <1>20, <1>21, <1>22, <1>23, <1>24, <1>25, <1>26
  DEF Next, WriterStep, PipeStep, RestoreStep, SetStep, ClearStep, ReadStep, OrphanStep

-----------------------------------------------------------------------------
(* The blocking processes *)

(* A writer that pushes is still at work. *)
LEMMA PushKeepsBusy ==
  ASSUME TypeOK, NEW line \in Lines, NEW pc \in {"running", "closed"}, Push(line, pc)
  PROVE  writer'.pc # "idle"
BY PushEffect

(* A process starts where none is, *)
LEMMA StartsEffect ==
  ASSUME NEW process, Starts(process)
  PROVE  flags = {} /\ flags' = {process}
BY DEF Starts

(* and another one's flag stays as it is. *)
LEMMA QuietFlags ==
  ASSUME FlagsMatch, UNCHANGED <<flags, clearing>>,
         Busy' <=> Busy,
         unread' # {} => unread # {} \/ "restoring" \in flags,
         pending' # late' => pending # late \/ unread # {}
  PROVE  FlagsMatch'
BY DEF FlagsMatch, Busy

LEMMA FlagsStep == TypeOK /\ FlagsMatch /\ [Next]_vars => FlagsMatch'
<1> SUFFICES ASSUME TypeOK, FlagsMatch, [Next]_vars PROVE FlagsMatch'
  OBVIOUS
<1>1. ASSUME NEW k \in Keys, NEW v \in Values \cup {Missing}, Change(k, v) PROVE FlagsMatch'
  BY <1>1, QuietFlags DEF Change, restore, Busy
<1>2. CASE Backup
  <2>1. flags = {} /\ flags' = {"backingUp"}
    BY <1>2, StartsEffect DEF Backup
  <2> QED  BY <1>2, <2>1 DEF Backup, Writer, FlagsMatch, restore
<1>3. CASE Restore
  <2>1. flags = {} /\ flags' = {"restoring"}
    BY <1>3, StartsEffect DEF Restore
  <2> QED  BY <1>3, <2>1 DEF Restore, FlagsMatch
<1>4. CASE Clear
  <2>1. flags = {} /\ flags' = {"clearing"}
    BY <1>4, StartsEffect DEF Clear
  <2> QED  BY <1>4, <2>1 DEF Clear, FlagsMatch, restore
<1>5. ASSUME NEW s \in Scopes, NextScope(s) PROVE FlagsMatch'
  <2>1. Busy /\ Busy'
    BY <1>5 DEF NextScope, Writer, Busy
  <2> QED  BY <1>5, <2>1, QuietFlags DEF NextScope, restore
<1>6. ASSUME NEW k \in Keys, Export(k) PROVE FlagsMatch'
  <2>1. Busy /\ Busy'
    BY <1>6 DEF Export, Writer, Busy
  <2> QED  BY <1>6, <2>1, QuietFlags DEF Export, restore
<1>7. ASSUME NEW k \in Keys, WriteRecord(k) PROVE FlagsMatch'
  <2>1. Busy /\ Busy'
    BY <1>7, PushKeepsBusy DEF WriteRecord, Lines, Busy
  <2> QED  BY <1>7, <2>1, QuietFlags DEF WriteRecord, restore
<1>8. CASE Close
  <2>1. Busy /\ Busy'
    BY <1>8, PushKeepsBusy DEF Close, Lines, Busy
  <2> QED  BY <1>8, <2>1, QuietFlags DEF Close, restore
<1>9. ASSUME Discard, Ends("backingUp"), UNCHANGED <<restore, clearing>>, Busy
      PROVE  FlagsMatch'
  <2>1. writer'.pc = "idle"
    BY <1>9 DEF Discard, Idle, Writer
  <2>2. flags = {"backingUp"} /\ flags' = {}
    BY <1>9 DEF FlagsMatch, Ends, Busy
  <2> QED  BY <1>9, <2>1, <2>2 DEF FlagsMatch, restore
<1>10. CASE Finish \/ StreamFails
  BY <1>9, <1>10 DEF Finish, StreamFails, Busy
<1>11. ASSUME NEW k \in Keys, ExportFails(k) PROVE FlagsMatch'
  BY <1>9, <1>11 DEF ExportFails, Busy
<1>12. CASE Resume \/ OrphanFails
  BY <1>12, QuietFlags DEF Resume, OrphanFails, restore, Busy
<1>13. ASSUME NEW line \in Lines, Flow(line) PROVE FlagsMatch'
  BY <1>13, QuietFlags DEF Flow, restore, Busy
<1>14. ASSUME NEW line \in orphan, OrphanWrites(line) PROVE FlagsMatch'
  BY <1>14, QuietFlags DEF OrphanWrites, Busy
<1>15. CASE RestoreEnds
  <2>1. flags = {"restoring"} /\ flags' = {}
    BY <1>15 DEF RestoreEnds, Ends, FlagsMatch
  <2>2. pending' = late'
    BY <1>15, UsesAssumption DEF RestoreEnds, TypeOK
  <2> QED  BY <1>15, <2>1, <2>2 DEF RestoreEnds, FlagsMatch
<1>16. CASE RestoreFails
  <2>1. flags = {"restoring"} /\ flags' = {}
    BY <1>16 DEF RestoreFails, Ends, FlagsMatch
  <2> QED  BY <1>16, <2>1 DEF RestoreFails, FlagsMatch
<1>17. ASSUME NEW k \in Keys, NEW v \in Values, RestoreLine(k, v) PROVE FlagsMatch'
  BY <1>17, QuietFlags DEF RestoreLine, Busy
<1>18. ASSUME NEW k \in Keys, NEW v \in Values, Applied(k, v) \/ SetFails(k, v)
       PROVE  FlagsMatch'
  <2>1. pending' # late' => pending # late
    BY <1>18 DEF Applied, SetFails, SetOver
  <2> QED  BY <1>18, <2>1, QuietFlags DEF Applied, SetFails, Busy
<1>19. CASE ClearEnds
  <2>1. flags = {"clearing"} /\ flags' = {}
    BY <1>19 DEF ClearEnds, Ends, FlagsMatch
  <2> QED  BY <1>19, <2>1 DEF ClearEnds, FlagsMatch, restore
<1>20. ASSUME NEW k \in Keys, ClearKey(k) PROVE FlagsMatch'
  BY <1>20 DEF ClearKey, FlagsMatch, restore
<1>21. CASE Crash
  BY <1>21 DEF Crash, Discard, Idle, Writer, FlagsMatch
<1>22. ASSUME NEW k \in Keys, ReadGets(k) PROVE FlagsMatch'
  BY <1>22, QuietFlags DEF ReadGets, restore, Busy
<1>23. ASSUME NEW n \in Names, ReadOver(n) PROVE FlagsMatch'
  BY <1>23, QuietFlags DEF ReadOver, restore, Busy
<1>24. CASE UNCHANGED vars
  BY <1>24, QuietFlags DEF vars, Busy
<1> QED
  BY <1>1, <1>2, <1>3, <1>4, <1>5, <1>6, <1>7, <1>8, <1>10, <1>11, <1>12, <1>13, <1>14,
     <1>15, <1>16, <1>17, <1>18, <1>19, <1>20, <1>21, <1>22, <1>23, <1>24
  DEF Next, WriterStep, PipeStep, RestoreStep, SetStep, ClearStep, ReadStep, OrphanStep

-----------------------------------------------------------------------------
(* The records on their way *)

(***************************************************************************)
(* What a step that moves one line does, whether the writer pushes it or   *)
(* the pipe takes it from the buffer: no other record begins to wait, and  *)
(* one that waits no more is in the destination.                           *)
(***************************************************************************)
Stays == \A k \in Keys : k \in Waiting => k \in Waiting'
Moves ==
  /\ Same
  /\ writer'.left = writer.left /\ writer'.todo = writer.todo
  /\ Busy /\ Busy'
  /\ \A k \in Keys : k \in Waiting' => k \in Waiting
  /\ \/ sink' = sink /\ saved' = saved /\ Stays
     \/ sink' = sink /\ Takes({}) /\ Stays
     \/ \E j \in Keys :
          /\ j \in Waiting
          /\ sink' = sink \cup {Line(j)}
          /\ Takes({Line(j)})
          /\ \A k \in Keys \ {j} : k \in Waiting => k \in Waiting'

(* The line that is delivered reaches the destination or the cipher. *)
LEMMA DeliveredMoves ==
  ASSUME TypeOK, NEW line \in Lines, Deliver(line), cipher = {},
         Same, Busy, Busy',
         writer'.left = writer.left, writer'.todo = writer.todo,
         writer'.queue \cup buffer' \subseteq writer.queue \cup buffer,
         (writer.queue \cup buffer) \ {line} \subseteq writer'.queue \cup buffer',
         line \in Waiting \/ line \notin Keys
  PROVE  Moves
<1>1. CASE cipher' = {line} /\ sink' = sink /\ saved' = saved
  BY <1>1 DEF Moves, Stays, Waiting
<1>2. CASE Arrive(line) /\ cipher' = cipher
  <2>1. CASE line \in Keys
    <3>1. sink' = sink \cup {Line(line)} /\ Takes({Line(line)})
      BY <1>2, <2>1 DEF Arrive
    <3>2. \A k \in Keys \ {line} : k \in Waiting => k \in Waiting'
      BY <1>2 DEF Waiting
    <3>3. \A k \in Keys : k \in Waiting' => k \in Waiting
      BY <1>2 DEF Waiting
    <3> QED  BY <2>1, <3>1, <3>2, <3>3 DEF Moves
  <2>2. CASE line \notin Keys
    <3>1. sink' = sink /\ Takes({})
      BY <1>2, <2>2 DEF Arrive
    <3>2. \A k \in Keys : k \in Waiting <=> k \in Waiting'
      BY <1>2, <2>2 DEF Waiting
    <3> QED  BY <3>1, <3>2 DEF Moves, Stays
  <2> QED  BY <2>1, <2>2
<1> QED  BY <1>1, <1>2, DeliverEffect

LEMMA PushMoves ==
  ASSUME TypeOK, NEW line \in Lines, NEW pc \in {"running", "closed"}, Push(line, pc),
         Same, Busy, line \in writer.queue \/ line \notin Keys
  PROVE  Moves
<1>1. Busy'
  BY PushEffect DEF Busy
<1>2. CASE Deliver(line) /\ cipher = {} /\ buffer' = buffer
  BY <1>1, <1>2, PushEffect, DeliveredMoves DEF Waiting
<1>3. CASE buffer' = buffer \cup {line} /\ UNCHANGED <<flowing, cipher, sink, saved>>
  <2>1. \A k \in Keys : k \in Waiting <=> k \in Waiting'
    BY <1>3, PushEffect DEF Waiting
  <2> QED  BY <1>1, <1>3, <2>1, PushEffect DEF Moves, Stays
<1> QED  BY <1>2, <1>3, PushEffect

LEMMA WriteMoves == ASSUME TypeOK, NEW k \in Keys, WriteRecord(k) PROVE Moves
BY PushMoves DEF WriteRecord, Lines, Busy, Same

LEMMA CloseMoves == ASSUME TypeOK, Close PROVE Moves
BY PushMoves, LinesAssumption DEF Close, Lines, Busy, Same

LEMMA FlowMoves == ASSUME TypeOK, IdleInv, NEW line \in Lines, Flow(line) PROVE Moves
<1>1. Busy /\ Busy'
  BY DEF Flow, IdleInv, Busy
<1> QED  BY <1>1, DeliveredMoves DEF Flow, Same, Waiting

(* A moved line keeps the invariant. *)
LEMMA MovesKeep == ASSUME TypeOK, CopyInv, Moves PROVE StreamInv' /\ ValueInv'
<1> USE DEF CopyInv, StreamInv, ValueInv
<1>1. IdleInv'
  BY DEF Moves, IdleInv, Busy
<1>2. InPlaceInv'
  <2> SUFFICES ASSUME use.service = "local", saved'.state # "mixed"
               PROVE  saved' = [lines |-> sink', state |-> "part"]
    BY DEF InPlaceInv, Moves, Same
  <2>1. ASSUME NEW lines, Takes(lines), sink' = sink \cup lines
        PROVE  saved' = [lines |-> sink', state |-> "part"]
    <3>1. saved' = [saved EXCEPT !.lines = @ \cup lines]
      BY <2>1 DEF Takes
    <3>2. saved = [lines |-> sink, state |-> "part"]
      BY <3>1 DEF InPlaceInv, Moves, TypeOK
    <3> QED  BY <2>1, <3>1, <3>2
  <2>2. CASE saved' = saved /\ sink' = sink
    BY <2>2 DEF InPlaceInv, Moves
  <2>3. CASE sink' = sink /\ Takes({})
    <3>1. sink' = sink \cup {}
      BY <2>3
    <3> QED  BY <2>1, <2>3, <3>1
  <2>4. ASSUME NEW j \in Keys, sink' = sink \cup {Line(j)}, Takes({Line(j)})
        PROVE  saved' = [lines |-> sink', state |-> "part"]
    <3>1. PICK lines : lines = {Line(j)}
      OBVIOUS
    <3> QED  BY <2>1, <2>4, <3>1
  <2> QED  BY <2>2, <2>3, <2>4 DEF Moves
<1>3. OrphanInv'
  <2>1. saved'.state = saved.state
    BY DEF Moves, Takes, TypeOK
  <2> QED  BY <2>1 DEF Moves, Same, OrphanInv
<1>4. HeldInv' /\ LastingInv'
  BY DEF Moves, Same, HeldInv, LastingInv, observers, Records
<1>5. OnceInv'
  BY DEF Moves, OnceInv
<1>6. ExportedInv'
  BY DEF Moves, Same, ExportedInv, observers
<1>7. OnItsWay'
  <2> SUFFICES ASSUME NEW k \in lasting,
                      ScopeOf[k] \notin writer.left, k \notin writer.todo, k \notin Waiting'
               PROVE  HasLine(k)'
    BY DEF Moves, Same, OnItsWay, observers
  <2>1. k \in Keys /\ (k \in Waiting \/ HasLine(k))
    BY DEF Moves, OnItsWay, TypeOK
  <2>2. CASE sink' = sink /\ Stays
    BY <2>1, <2>2 DEF HasLine, Stays
  <2>3. ASSUME NEW j \in Keys, j \in Waiting, sink' = sink \cup {Line(j)},
               \A i \in Keys \ {j} : i \in Waiting => i \in Waiting'
        PROVE  HasLine(k)'
    <3>1. CASE HasLine(k)
      BY <2>3, <3>1 DEF HasLine
    <3>2. CASE k = j
      BY <2>3, <3>2, WaitingLine DEF HasLine, Line
    <3> QED  BY <2>1, <2>3, <3>1, <3>2
  <2> QED  BY <2>2, <2>3 DEF Moves
<1> QED  BY <1>1, <1>2, <1>3, <1>4, <1>5, <1>6, <1>7

(* Steps that leave the records, the reads and their lines alone, *)
LEMMA QuietKeeps ==
  ASSUME CopyInv,
         UNCHANGED <<use, cache, reading, writer, exported, buffer, cipher, sink, orphan,
                     saved, held, lasting>>
  PROVE  CopyInv'
BY DEF CopyInv, StreamInv, ValueInv, IdleInv, ClosedInv, InPlaceInv, OrphanInv, HeldInv,
       LastingInv, Records, OnceInv, ExportedInv, OnItsWay, HasLine, Busy, Waiting

(* that change a record, or a read, *)
LEMMA LiveKeeps ==
  ASSUME CopyInv, HeldInv', LastingInv',
         \A n \in Names : held[n] \subseteq held'[n],
         lasting' \subseteq lasting,
         UNCHANGED <<use, writer, exported, buffer, cipher, sink, orphan, saved>>
  PROVE  CopyInv'
<1> USE DEF CopyInv, StreamInv, ValueInv
<1>1. (StreamInv /\ ClosedInv /\ OnceInv)'
  BY DEF IdleInv, ClosedInv, InPlaceInv, OrphanInv, OnceInv, Busy, Waiting
<1>2. ExportedInv'
  BY KeysAssumption DEF ExportedInv, Waiting
<1>3. OnItsWay'
  BY DEF OnItsWay, Busy, Waiting, HasLine
<1> QED  BY <1>1, <1>2, <1>3

LEMMA BecomesKeeps ==
  ASSUME TypeOK, FlagsMatch, CopyInv, NEW k \in Keys, NEW v \in Values \cup {Missing},
         Becomes(k, v),
         UNCHANGED <<use, reading, writer, exported, buffer, cipher, sink, orphan, saved>>
  PROVE  CopyInv'
<1> USE KeysAssumption DEF CopyInv, ValueInv
<1>1. \A n \in Names : held[n] \subseteq held'[n]
  BY DEF Becomes, TypeOK
<1>2. HeldInv'
  <2> SUFFICES ASSUME Busy PROVE HeldInv'
    BY DEF HeldInv, Busy
  <2>1. "backingUp" \in flags
    BY DEF Busy, FlagsMatch
  <2>2. ASSUME NEW j \in Keys, cache'[j] # Missing PROVE cache'[j] \in held'[NameOf[j]]
    <3>1. CASE j = k
      BY <2>1, <2>2, <3>1 DEF Becomes, TypeOK, Contents
    <3>2. CASE j # k
      BY <1>1, <2>2, <3>2 DEF Becomes, HeldInv, TypeOK, Contents
    <3> QED  BY <3>1, <3>2
  <2>3. ASSUME NEW n \in Names, reading'[n] # Missing PROVE reading'[n] \in held'[n]
    BY <1>1, <2>3 DEF HeldInv
  <2> QED  BY <2>2, <2>3 DEF HeldInv
<1>3. lasting' \subseteq lasting
  BY DEF Becomes
<1>4. LastingInv'
  BY DEF LastingInv, Becomes, Records, Busy, TypeOK, Contents
<1> QED  BY <1>1, <1>2, <1>3, <1>4, LiveKeeps

LEMMA ReadKeeps ==
  ASSUME TypeOK, CopyInv, NEW n \in Names, NEW v, reading' = [reading EXCEPT ![n] = v],
         Busy => v = Missing \/ v \in held[n],
         UNCHANGED <<use, cache, writer, exported, buffer, cipher, sink, orphan, saved,
                     held, lasting>>
  PROVE  CopyInv'
<1> USE DEF CopyInv, ValueInv
<1>1. HeldInv'
  BY DEF HeldInv, Busy, TypeOK
<1>2. LastingInv'
  BY DEF LastingInv, Busy, Records
<1> QED  BY <1>1, <1>2, LiveKeeps

(* that drop the writer, *)
LEMMA DiscardKeeps ==
  ASSUME Discard,
         orphan' # {} => use'.service = "local" /\ saved'.state \in {"part", "mixed"}
  PROVE  CopyInv'
<1>1. writer' = Idle /\ buffer' = {} /\ cipher' = {} /\ sink' = {} /\ lasting' = {}
  BY DEF Discard
<1>2. ~Busy' /\ Waiting' = {} /\ writer'.left = {} /\ writer'.todo = {} /\ writer'.pc # "closed"
  BY <1>1 DEF Busy, Waiting, Idle, Writer
<1>3. StreamInv'
  BY <1>1, <1>2 DEF StreamInv, IdleInv, InPlaceInv, OrphanInv
<1>4. ValueInv' /\ ClosedInv'
  BY <1>1, <1>2 DEF ValueInv, ClosedInv, HeldInv, LastingInv, OnceInv, ExportedInv, OnItsWay
<1> QED  BY <1>3, <1>4 DEF CopyInv

(* What a local backup has stored is no whole one while it runs. *)
LEMMA StoredInPart ==
  ASSUME TypeOK, CopyInv, Busy, use.service = "local"
  PROVE  saved.state \in {"part", "mixed"}
BY DEF CopyInv, StreamInv, InPlaceInv

LEMMA EndKeeps ==
  ASSUME TypeOK, CopyInv,
         Finish \/ StreamFails \/ Crash \/ \E k \in Keys : ExportFails(k)
  PROVE  CopyInv'
<1> USE DEF CopyInv, StreamInv
<1>1. CASE Finish
  <2>1. Busy /\ orphan' = orphan /\ use' = use
    BY <1>1 DEF Finish, Busy
  <2>2. ASSUME orphan # {} PROVE use.service = "local" /\ saved'.state = "mixed"
    <3>1. use.service = "local" /\ saved.state = "mixed"
      BY <2>1, <2>2 DEF OrphanInv
    <3> QED  BY <1>1, <3>1 DEF Finish, TypeOK
  <2> QED  BY <1>1, <2>1, <2>2, DiscardKeeps DEF Finish
<1>2. CASE StreamFails
  BY <1>2, DiscardKeeps DEF StreamFails, OrphanInv
<1>3. CASE Crash
  BY <1>3, DiscardKeeps DEF Crash
<1>4. ASSUME NEW k \in Keys, ExportFails(k) PROVE CopyInv'
  <2>1. Discard /\ Busy /\ UNCHANGED <<use, saved>>
    BY <1>4 DEF ExportFails, Busy
  <2>2. orphan' # {} => use.service = "local"
    BY <1>4 DEF ExportFails, OrphanInv
  <2> QED  BY <2>1, <2>2, StoredInPart, DiscardKeeps
<1> QED  BY <1>1, <1>2, <1>3, <1>4

(* and those of the streams that are left over. *)
LEMMA OrphanKeeps ==
  ASSUME TypeOK, CopyInv,
         OrphanFails \/ \E line \in orphan : OrphanWrites(line)
  PROVE  CopyInv'
<1> USE DEF CopyInv, StreamInv
<1>1. orphan # {} /\ orphan' \subseteq orphan /\ saved'.state = saved.state
  BY DEF OrphanFails, OrphanWrites, Takes, TypeOK
<1>2. UNCHANGED <<use, cache, reading, writer, exported, buffer, cipher, sink, held, lasting>>
  BY DEF OrphanFails, OrphanWrites, observers
<1>3. InPlaceInv' /\ OrphanInv'
  BY <1>1, <1>2 DEF InPlaceInv, OrphanInv, Busy
<1>4. IdleInv' /\ ClosedInv' /\ ValueInv'
  BY <1>2 DEF ValueInv, IdleInv, ClosedInv, HeldInv, LastingInv, Records, OnceInv,
              ExportedInv, OnItsWay, HasLine, Busy, Waiting
<1> QED  BY <1>3, <1>4

LEMMA BackupKeeps == ASSUME TypeOK, FlagsMatch, CopyInv, Backup PROVE CopyInv'
<1> USE KeysAssumption DEF CopyInv, StreamInv, ValueInv
<1>1. flags = {}
  BY DEF Backup, Starts
<1>2. sink = {} /\ cipher = {} /\ ~Busy
  BY <1>1 DEF FlagsMatch, IdleInv, Busy
<1>3. /\ writer' = Writer("running", Scopes, {}, {})
      /\ buffer' = {Header} /\ cipher' = {} /\ sink' = {}
      /\ lasting' = Records
      /\ UNCHANGED <<use, cache, reading, orphan>>
  BY <1>2 DEF Backup
<1>4. Busy' /\ writer'.left = Scopes /\ writer'.todo = {} /\ writer'.pc = "running"
  BY <1>3 DEF Busy, Writer
<1>5. Waiting' \cap Keys = {}
  BY <1>3, LinesAssumption DEF Waiting, Writer
<1>6. InPlaceInv' /\ OrphanInv'
  BY <1>2, <1>3 DEF InPlaceInv, OrphanInv, Backup
<1>7. HeldInv'
  <2>1. \A n \in Names : held'[n] =
          ({cache[k] : k \in {j \in Keys : NameOf[j] = n}} \cup {reading[n]}) \ {Missing}
    BY DEF Backup
  <2> QED  BY <1>3, <2>1 DEF HeldInv
<1>8. (IdleInv /\ ClosedInv /\ LastingInv)'
  BY <1>3, <1>4 DEF IdleInv, ClosedInv, LastingInv, Records
<1>9. (OnceInv /\ ExportedInv /\ OnItsWay)'
  BY <1>3, <1>4, <1>5 DEF OnceInv, ExportedInv, OnItsWay, Records
<1> QED  BY <1>6, <1>7, <1>8, <1>9

LEMMA NextScopeKeeps ==
  ASSUME TypeOK, CopyInv, NEW s \in Scopes, NextScope(s)
  PROVE  CopyInv'
<1> USE DEF CopyInv, StreamInv, ValueInv
<1> DEFINE listed == {k \in Records : ScopeOf[k] = s}
<1>1. /\ writer.pc = "running" /\ writer.todo = {} /\ writer.queue = {} /\ s \in writer.left
      /\ UNCHANGED <<use, cache, reading, buffer, cipher, sink, orphan, saved, held, lasting>>
  BY DEF NextScope, stream, observers
<1>2. /\ Busy /\ Busy' /\ writer'.pc = "running"
      /\ writer'.left = writer.left \ {s}
      /\ writer'.todo \cup writer'.queue = listed
      /\ writer'.todo \cap writer'.queue = {}
      /\ \A k \in writer'.queue : exported'[k] = cache[k]
  BY <1>1 DEF NextScope, Busy, Writer, Records
<1>3. \A k \in Keys : k \notin writer'.queue => exported'[k] = exported[k]
  BY DEF NextScope, TypeOK, Contents, Writer
<1>4. \A k \in Keys : k \in Waiting' <=> k \in Waiting \/ k \in writer'.queue
  BY <1>1 DEF Waiting
<1>5. \A k \in listed : k \in Keys /\ ScopeOf[k] \in writer.left /\ k \notin Waiting
  BY <1>1 DEF OnceInv, Records
<1>6. (IdleInv /\ ClosedInv /\ InPlaceInv /\ OrphanInv /\ HeldInv /\ LastingInv)'
  BY <1>1, <1>2 DEF IdleInv, ClosedInv, InPlaceInv, OrphanInv, HeldInv, LastingInv, Records
<1>7. OnceInv'
  <2> SUFFICES ASSUME NEW k \in Keys
               PROVE  /\ ScopeOf[k] \in writer'.left => k \notin writer'.todo \cup Waiting'
                      /\ k \in writer'.todo => k \notin Waiting'
    BY DEF OnceInv
  <2>1. ScopeOf[k] = s => ScopeOf[k] \notin writer'.left
    BY <1>2
  <2>2. ScopeOf[k] # s => k \notin writer'.todo \cup writer'.queue
    BY <1>2
  <2>3. ScopeOf[k] \in writer'.left => ScopeOf[k] \in writer.left
    BY <1>2
  <2> QED  BY <1>2, <1>4, <1>5, <2>1, <2>2, <2>3 DEF OnceInv
<1>8. ExportedInv'
  <2> SUFFICES ASSUME NEW k \in Keys, k \in Waiting'
               PROVE  exported'[k] # Missing /\ exported'[k] \in held[NameOf[k]]
    BY <1>1 DEF ExportedInv
  <2>1. CASE k \in writer'.queue
    BY <1>2, <2>1 DEF HeldInv, Records
  <2>2. CASE k \notin writer'.queue
    BY <1>3, <1>4, <2>2 DEF ExportedInv
  <2> QED  BY <2>1, <2>2
<1>9. OnItsWay'
  <2> SUFFICES ASSUME NEW k \in lasting
               PROVE  \/ ScopeOf[k] \in writer'.left \/ k \in writer'.todo
                      \/ k \in Waiting' \/ HasLine(k)
    BY <1>1 DEF OnItsWay, HasLine
  <2>1. k \in Keys /\ k \in Records
    BY <1>2 DEF LastingInv, TypeOK
  <2>2. ScopeOf[k] = s => k \in writer'.todo \/ k \in Waiting'
    BY <1>2, <1>4, <2>1
  <2> QED  BY <1>1, <1>2, <1>4, <2>1, <2>2 DEF OnItsWay
<1> QED  BY <1>6, <1>7, <1>8, <1>9

LEMMA ExportKeeps ==
  ASSUME TypeOK, CopyInv, NEW k \in Keys, Export(k)
  PROVE  CopyInv'
<1> USE KeysAssumption DEF CopyInv, StreamInv, ValueInv
<1>1. PICK answer :
        /\ answer = IF reading[NameOf[k]] # Missing THEN reading[NameOf[k]] ELSE cache[k]
        /\ exported' = [exported EXCEPT ![k] = answer]
        /\ writer' = Writer("running", writer.left, writer.todo \ {k},
                            writer.queue \cup IF answer # Missing THEN {k} ELSE {})
  BY DEF Export
<1>2. /\ writer.pc = "running" /\ k \in writer.todo
      /\ UNCHANGED <<use, cache, reading, buffer, cipher, sink, orphan, saved, held, lasting>>
  BY DEF Export, stream, observers
<1>3. /\ Busy /\ Busy' /\ writer'.pc = "running"
      /\ writer'.left = writer.left
      /\ writer'.todo = writer.todo \ {k}
      /\ Waiting' = Waiting \cup IF answer # Missing THEN {k} ELSE {}
  BY <1>1, <1>2 DEF Busy, Waiting, Writer
<1>4. answer # Missing => answer \in held[NameOf[k]]
  BY <1>1, <1>3 DEF HeldInv
<1>5. k \in Records => answer # Missing
  BY <1>1 DEF Records
<1>6. k \notin Waiting /\ ScopeOf[k] \notin writer.left
  BY <1>2 DEF OnceInv
<1>7. (IdleInv /\ ClosedInv /\ InPlaceInv /\ OrphanInv /\ HeldInv /\ LastingInv)'
  BY <1>2, <1>3 DEF IdleInv, ClosedInv, InPlaceInv, OrphanInv, HeldInv, LastingInv, Records
<1>8. OnceInv'
  BY <1>3, <1>6 DEF OnceInv
<1>9. ExportedInv'
  BY <1>1, <1>2, <1>3, <1>4, <1>6 DEF ExportedInv, TypeOK, Contents
<1>10. OnItsWay'
  <2> SUFFICES ASSUME NEW j \in lasting
               PROVE  \/ ScopeOf[j] \in writer'.left \/ j \in writer'.todo
                      \/ j \in Waiting' \/ HasLine(j)
    BY <1>2 DEF OnItsWay, HasLine
  <2>1. CASE j = k
    BY <1>3, <1>5, <2>1 DEF LastingInv
  <2>2. CASE j # k
    BY <1>3, <2>2 DEF OnItsWay
  <2> QED  BY <2>1, <2>2
<1> QED  BY <1>7, <1>8, <1>9, <1>10

LEMMA CopyStep == TypeOK /\ FlagsMatch /\ CopyInv /\ [Next]_vars => CopyInv'
<1> SUFFICES ASSUME TypeOK, FlagsMatch, CopyInv, [Next]_vars PROVE CopyInv'
  OBVIOUS
<1>1. ASSUME NEW k \in Keys, NEW v \in Values \cup {Missing}, Change(k, v) PROVE CopyInv'
  BY <1>1, BecomesKeeps DEF Change, stream
<1>2. ASSUME NEW k \in Keys, ClearKey(k) PROVE CopyInv'
  BY <1>2, BecomesKeeps DEF ClearKey, stream
<1>3. ASSUME NEW k \in Keys, NEW v \in Values, Applied(k, v) PROVE CopyInv'
  BY <1>3, BecomesKeeps DEF Applied, stream
<1>4. CASE Restore \/ RestoreEnds \/ RestoreFails
  BY <1>4, QuietKeeps DEF Restore, RestoreEnds, RestoreFails, stream, observers
<1>5. CASE Clear \/ ClearEnds \/ Resume
  BY <1>5, QuietKeeps DEF Clear, ClearEnds, Resume, stream, observers
<1>6. ASSUME NEW k \in Keys, NEW v \in Values, RestoreLine(k, v) \/ SetFails(k, v)
      PROVE  CopyInv'
  BY <1>6, QuietKeeps DEF RestoreLine, SetFails, stream, observers
<1>7. ASSUME NEW k \in Keys, ReadGets(k) PROVE CopyInv'
  <2>1. /\ NameOf[k] \in Names /\ cache[k] # Missing
        /\ reading' = [reading EXCEPT ![NameOf[k]] = cache[k]]
    BY <1>7, KeysAssumption DEF ReadGets
  <2>2. Busy => cache[k] \in held[NameOf[k]]
    BY <2>1 DEF CopyInv, ValueInv, HeldInv
  <2> QED  BY <1>7, <2>1, <2>2, ReadKeeps DEF ReadGets, stream, observers
<1>8. ASSUME NEW n \in Names, ReadOver(n) PROVE CopyInv'
  BY <1>8, ReadKeeps DEF ReadOver, stream, observers
<1>9. CASE Backup
  BY <1>9, BackupKeeps
<1>10. ASSUME NEW s \in Scopes, NextScope(s) PROVE CopyInv'
  BY <1>10, NextScopeKeeps
<1>11. ASSUME NEW k \in Keys, Export(k) PROVE CopyInv'
  BY <1>11, ExportKeeps
<1>12. ASSUME NEW k \in Keys, WriteRecord(k) PROVE CopyInv'
  <2>1. writer'.pc # "closed"
    BY <1>12, PushEffect DEF WriteRecord, Lines
  <2> QED  BY <1>12, <2>1, WriteMoves, MovesKeep DEF CopyInv, ClosedInv
<1>13. CASE Close
  <2>1. writer'.left = {} /\ writer'.todo = {} /\ writer'.queue = {}
    BY <1>13, PushEffect DEF Close, Lines
  <2> QED  BY <1>13, <2>1, CloseMoves, MovesKeep DEF CopyInv, ClosedInv
<1>14. ASSUME NEW line \in Lines, Flow(line) PROVE CopyInv'
  <2>1. Moves /\ writer' = writer
    BY <1>14, FlowMoves DEF Flow, CopyInv, StreamInv
  <2> QED  BY <2>1, MovesKeep DEF CopyInv, ClosedInv
<1>15. CASE Finish \/ StreamFails \/ Crash \/ \E k \in Keys : ExportFails(k)
  BY <1>15, EndKeeps
<1>16. CASE OrphanStep
  BY <1>16, OrphanKeeps DEF OrphanStep
<1>17. CASE UNCHANGED vars
  BY <1>17, QuietKeeps DEF vars
<1> QED
  BY <1>1, <1>2, <1>3, <1>4, <1>5, <1>6, <1>7, <1>8, <1>9, <1>10, <1>11, <1>12, <1>13,
     <1>14, <1>15, <1>16, <1>17
  DEF Next, WriterStep, PipeStep, RestoreStep, SetStep, ClearStep, ReadStep

-----------------------------------------------------------------------------
LEMMA InitInv == Init => Inv
<1> SUFFICES ASSUME Init PROVE Inv
  OBVIOUS
<1>1. TypeOK
  BY DEF Init, TypeOK, Idle, Writer, WriterState, Nothing, Contents, Lines
<1>2. FlagsMatch
  BY DEF Init, FlagsMatch, Idle, Writer
<1>3. CopyInv
  BY DEF Init, CopyInv, StreamInv, ValueInv, IdleInv, ClosedInv, InPlaceInv, OrphanInv,
         HeldInv, LastingInv, OnceInv, ExportedInv, OnItsWay, Busy, Waiting, Idle, Writer
<1> QED  BY <1>1, <1>2, <1>3 DEF Inv

LEMMA InvStep == Inv /\ [Next]_vars => Inv'
BY TypeStep, FlagsStep, CopyStep DEF Inv, CopyInv, ValueInv

LEMMA InvHolds == Spec => []Inv
BY InitInv, InvStep, PTL DEF Spec

(***************************************************************************)
(* The types are as declared; above all no line is ever written, and no    *)
(* record ever set, without a value.                                       *)
(***************************************************************************)
THEOREM BackupTypes == Spec => []TypeOK
<1>1. Inv => TypeOK
  BY DEF Inv
<1> QED  BY <1>1, InvHolds, PTL

(***************************************************************************)
(* A blocking process has its flag up while it works and lowers it however *)
(* it ends, and no two of them work at once.  A set of a restored record   *)
(* is under way only while the restore's flag is up, but for those left    *)
(* behind by a restore that failed or was one of key-value records.        *)
(***************************************************************************)
THEOREM ProcessesExclude == Spec => []FlagsMatch
<1>1. Inv => FlagsMatch
  BY DEF Inv
<1> QED  BY <1>1, InvHolds, PTL

-----------------------------------------------------------------------------
(* The refinement *)

CopyStutter == UNCHANGED Copy!vars

Due == pending \cup unread

LEMMA SameFetched == ASSUME UNCHANGED reading PROVE Fetched' = Fetched
BY DEF Fetched

LEMMA Stutters ==
  ASSUME UNCHANGED <<use, cache, reading, held, lasting, sink, saved, orphan, unread, pending>>,
         "backingUp" \in flags' <=> "backingUp" \in flags
  PROVE  CopyStutter
BY SameFetched DEF CopyStutter, Copy!vars

(* A record that changes is a change of the cache. *)
LEMMA BecomesMaps ==
  ASSUME NEW k \in Keys, NEW v \in Values \cup {Missing}, Becomes(k, v),
         UNCHANGED <<use, reading, flags, sink, saved, orphan, unread, pending>>
  PROVE  Copy!Next
<1>1. Copy!Becomes(k, v)
  BY DEF Becomes, Copy!Becomes
<1>2. Copy!Change(k, v)
  BY <1>1, SameFetched DEF Copy!Change
<1> QED  BY <1>2 DEF Copy!Next

LEMMA ReadGetsMaps == ASSUME TypeOK, NEW k \in Keys, ReadGets(k) PROVE Copy!Next
<1>1. /\ NameOf[k] \in Names /\ cache[k] \in Values /\ Missing \notin Values
      /\ reading[NameOf[k]] = Missing
      /\ reading' = [reading EXCEPT ![NameOf[k]] = cache[k]]
  BY KeysAssumption DEF ReadGets, TypeOK, Contents
<1>2. Fetched' = Fetched \cup {<<NameOf[k], cache[k]>>}
  <2>1. \A got \in Names \X Values : got \in Fetched' <=>
          got \in Fetched \/ got = <<NameOf[k], cache[k]>>
    BY <1>1 DEF Fetched, TypeOK
  <2>2. Fetched \subseteq Names \X Values /\ Fetched' \subseteq Names \X Values
    BY DEF Fetched
  <2>3. <<NameOf[k], cache[k]>> \in Names \X Values
    BY <1>1
  <2> QED  BY <2>1, <2>2, <2>3
<1>3. Copy!Fetch(k)
  BY <1>2 DEF Copy!Fetch, ReadGets, stream, restore, observers
<1> QED  BY <1>3 DEF Copy!Next

LEMMA ReadOverMaps == ASSUME TypeOK, NEW n \in Names, ReadOver(n) PROVE Copy!Next
<1>1. Fetched' \subseteq Fetched
  BY KeysAssumption DEF Fetched, ReadOver, TypeOK
<1>2. Copy!Return
  BY <1>1 DEF Copy!Return, ReadOver, stream, restore, observers
<1> QED  BY <1>2 DEF Copy!Next

LEMMA BackupMaps == ASSUME Inv, Backup PROVE Copy!Next
<1>1. flags = {} /\ flags' = {"backingUp"}
  BY DEF Backup, Starts
<1>2. ASSUME NEW n \in Names PROVE held'[n] = Copy!Had(n)
  <2>1. held'[n] = ({cache[k] : k \in {j \in Keys : NameOf[j] = n}} \cup {reading[n]}) \ {Missing}
    BY DEF Backup
  <2>2. \A v \in Values : <<n, v>> \in Fetched <=> reading[n] = v
    BY DEF Fetched
  <2>3. Copy!Had(n) = {v \in Values : reading[n] = v
                                      \/ \E k \in Keys : NameOf[k] = n /\ cache[k] = v}
    BY <2>2 DEF Copy!Had
  <2>4. /\ \A k \in Keys : cache[k] \in Values \cup {Missing}
        /\ reading[n] \in Values \cup {Missing} /\ Missing \notin Values
    BY KeysAssumption DEF Inv, TypeOK, Contents
  <2> QED  BY <2>1, <2>3, <2>4
<1>3. held' = [n \in Names |-> Copy!Had(n)]
  BY <1>2 DEF Backup
<1>4. Copy!Begin
  BY <1>1, <1>3, SameFetched DEF Copy!Begin, Backup, restore, Records
<1> QED  BY <1>4 DEF Copy!Next

LEMMA TakesMaps == ASSUME NEW lines, Takes(lines), use.service = "local" PROVE Copy!Takes(lines)
BY DEF Takes, Copy!Takes

(* A moved line copies a record, or nothing the copy has not yet. *)
LEMMA MovesMap == ASSUME Inv, Moves PROVE Copy!Next \/ CopyStutter
<1>1. /\ "backingUp" \in flags
      /\ UNCHANGED <<use, cache, reading, flags, held, lasting, orphan, unread, pending>>
  BY DEF Inv, FlagsMatch, Moves, Same, Busy, restore, observers
<1>2. CASE sink' = sink /\ saved' = saved
  BY <1>1, <1>2, Stutters
<1>3. CASE sink' = sink /\ Takes({})
  <2>1. saved' = saved
    BY <1>3 DEF Takes, Inv, TypeOK
  <2> QED  BY <1>1, <1>3, <2>1, Stutters
<1>4. ASSUME NEW j \in Keys, j \in Waiting, sink' = sink \cup {Line(j)}, Takes({Line(j)})
      PROVE  Copy!Next
  <2>1. PICK v : v = exported[j]
    OBVIOUS
  <2>2. v \in held[NameOf[j]] /\ Line(j) = <<j, v>>
    BY <1>4, <2>1 DEF Inv, CopyInv, ValueInv, ExportedInv, Line
  <2>3. sink' = sink \cup {<<j, v>>} /\ Takes({<<j, v>>})
    BY <1>4, <2>2
  <2>4. IF use.service = "local" THEN Copy!Takes({<<j, v>>}) ELSE UNCHANGED saved
    BY <2>3, TakesMaps DEF Takes
  <2>5. Copy!Copy(j)
    BY <1>1, <2>2, <2>3, <2>4, SameFetched DEF Copy!Copy
  <2> QED  BY <2>5 DEF Copy!Next
<1> QED  BY <1>2, <1>3, <1>4 DEF Moves

(* Once nothing waits, what was there all the while is in the copy. *)
LEMMA FinishMaps == ASSUME Inv, Finish PROVE Copy!Next
<1> USE DEF Inv, CopyInv
<1>1. /\ "backingUp" \in flags /\ "backingUp" \notin flags' /\ Busy
      /\ UNCHANGED <<use, cache, reading, orphan, unread, pending>>
  BY DEF FlagsMatch, Finish, Ends, restore, Busy
<1>2. \A k \in lasting : \E v \in Values : <<k, v>> \in sink
  <2>1. \A k \in lasting : k \in Keys
    BY DEF TypeOK
  <2>2. writer.left = {} /\ writer.todo = {} /\ Waiting = {}
    BY DEF ClosedInv, Finish, Waiting
  <2> QED  BY <1>1, <2>1, <2>2 DEF ValueInv, OnItsWay, HasLine
<1>3. Copy!Done
  BY <1>1 DEF Finish, Discard, Copy!Done
<1>4. saved' = IF use.service = "local" /\ saved.state = "mixed" THEN saved
               ELSE [lines |-> sink, state |-> "whole"]
  <2>1. CASE use.service = "s3"
    BY <2>1 DEF Finish
  <2>2. CASE use.service = "local" /\ saved.state = "mixed"
    BY <2>2 DEF Finish, TypeOK
  <2>3. CASE use.service = "local" /\ saved.state # "mixed"
    <3>1. saved = [lines |-> sink, state |-> "part"]
      BY <1>1, <2>3 DEF StreamInv, InPlaceInv
    <3>2. saved' = [saved EXCEPT !.state = "whole"]
      BY <2>3 DEF Finish
    <3> QED  BY <2>3, <3>1, <3>2
  <2> QED  BY <2>1, <2>2, <2>3, UsesAssumption DEF TypeOK
<1>5. Copy!End
  BY <1>1, <1>2, <1>3, <1>4, SameFetched DEF Copy!End
<1> QED  BY <1>5 DEF Copy!Next

(* What is left to write is a header, or has a value of its record's name. *)
LEMMA AbandonMaps ==
  ASSUME Inv, StreamFails \/ \E k \in Keys : ExportFails(k)
  PROVE  Copy!Next
<1> USE DEF Inv, CopyInv
<1>1. /\ "backingUp" \in flags /\ "backingUp" \notin flags' /\ Discard
      /\ UNCHANGED <<use, cache, reading, saved, unread, pending>>
  BY DEF FlagsMatch, StreamFails, ExportFails, Ends, restore
<1>2. Copy!Done
  BY <1>1 DEF Discard, Copy!Done
<1>3. ASSUME NEW j \in buffer \cap Keys
      PROVE  Line(j) \in {line \in RecordLines : line[2] \in held[NameOf[line[1]]]}
  <2>1. j \in Waiting
    BY <1>3 DEF Waiting
  <2>2. Line(j) \in RecordLines /\ Line(j) = <<j, exported[j]>>
    BY <2>1, WaitingLine DEF Line, ValueInv
  <2>3. exported[j] \in held[NameOf[j]]
    BY <2>1 DEF ValueInv, ExportedInv
  <2> QED  BY <2>2, <2>3
<1>4. orphan' \subseteq orphan \cup {Header} \cup
                        {line \in RecordLines : line[2] \in held[NameOf[line[1]]]}
  BY <1>3 DEF StreamFails, ExportFails
<1>5. use.service # "local" => orphan' = orphan
  BY DEF StreamFails, ExportFails
<1>6. Copy!RecordLines = RecordLines
  BY DEF Copy!RecordLines, RecordLines
<1>7. Copy!Abandon
  BY <1>1, <1>2, <1>4, <1>5, <1>6, SameFetched DEF Copy!Abandon
<1> QED  BY <1>7 DEF Copy!Next

LEMMA OrphanMaps == ASSUME Inv, NEW line \in orphan, OrphanWrites(line) PROVE Copy!Next
<1> USE DEF Inv, CopyInv
<1> DEFINE written == {line} \cap RecordLines
<1>1. use.service = "local" /\ (saved.state = "mixed" \/ (saved.state = "part" /\ ~Busy))
  BY DEF StreamInv, OrphanInv
<1>2. "backingUp" \in flags <=> Busy
  BY DEF FlagsMatch, Busy
<1>3. /\ orphan' = orphan \ {line} /\ Takes(written)
      /\ pending' \cup unread' \subseteq pending \cup unread \cup written
      /\ UNCHANGED <<use, cache, reading, flags, held, lasting, sink>>
  BY DEF OrphanWrites, observers
<1>4. Copy!RecordLines = RecordLines
  BY DEF Copy!RecordLines, RecordLines
<1>5. Copy!Takes({line} \cap Copy!RecordLines)
  BY <1>1, <1>3, <1>4, TakesMaps
<1>6. Copy!Land(line)
  BY <1>1, <1>2, <1>3, <1>4, <1>5, SameFetched DEF Copy!Land
<1> QED  BY <1>6 DEF Copy!Next

LEMMA OrphanFailsMaps == ASSUME OrphanFails PROVE Copy!Next
<1>1. Copy!Drop
  BY SameFetched DEF OrphanFails, Copy!Drop, restore, observers
<1> QED  BY <1>1 DEF Copy!Next

LEMMA CrashMaps == ASSUME Inv, Crash PROVE Copy!Next
<1>1. Fetched' = {}
  <2>1. \A n \in Names : reading'[n] = Missing /\ Missing \notin Values
    BY KeysAssumption DEF Crash
  <2> QED  BY <2>1 DEF Fetched
<1>2. Copy!Done
  BY DEF Crash, Discard, Copy!Done
<1>3. Copy!Restart
  BY <1>1, <1>2 DEF Crash, Copy!Restart, Nothing
<1> QED  BY <1>3 DEF Copy!Next

LEMMA RestoreMaps == ASSUME Inv, Restore PROVE Copy!Next
<1>1. flags = {} /\ flags' = {"restoring"} /\ unread = {}
  BY DEF Inv, FlagsMatch, Restore, Starts
<1>2. pending' \cup unread' = (pending \cup unread) \cup saved.lines
  BY <1>1 DEF Restore
<1>3. Copy!Load
  BY <1>1, <1>2, SameFetched DEF Copy!Load, Restore, stream, observers
<1> QED  BY <1>3 DEF Copy!Next

(* A restored record that is left out, or whose set fails. *)
LEMMA ForgetMaps ==
  ASSUME UNCHANGED <<use, cache, reading, held, lasting, sink, saved, orphan>>, Due' \subseteq Due,
         "backingUp" \in flags' <=> "backingUp" \in flags
  PROVE  Copy!Next
<1>1. Copy!Forget
  BY SameFetched DEF Copy!Forget, Due
<1> QED  BY <1>1 DEF Copy!Next

LEMMA RestoreLineMaps ==
  ASSUME NEW k \in Keys, NEW v \in Values, RestoreLine(k, v)
  PROVE  Copy!Next
<1>1. /\ <<k, v>> \in unread /\ unread' = unread \ {<<k, v>>}
      /\ pending' \subseteq pending \cup {<<k, v>>}
      /\ UNCHANGED <<use, cache, reading, flags, held, lasting, sink, saved, orphan>>
  BY DEF RestoreLine, stream, observers
<1>2. Due' \subseteq Due
  BY <1>1 DEF Due
<1> QED  BY <1>1, <1>2, ForgetMaps

LEMMA AppliedMaps == ASSUME NEW k \in Keys, NEW v \in Values, Applied(k, v) PROVE Copy!Next
<1>1. /\ <<k, v>> \in pending /\ pending' = pending \ {<<k, v>>} /\ Becomes(k, v)
      /\ UNCHANGED <<use, reading, flags, sink, saved, orphan, unread>>
  BY DEF Applied, SetOver, stream
<1>2. /\ <<k, v>> \in pending \cup unread
      /\ pending' \cup unread' \in {pending \cup unread, (pending \cup unread) \ {<<k, v>>}}
  BY <1>1
<1>3. Copy!Becomes(k, v)
  BY <1>1 DEF Becomes, Copy!Becomes
<1>4. Copy!Put(k, v)
  BY <1>1, <1>2, <1>3, SameFetched DEF Copy!Put
<1> QED  BY <1>4 DEF Copy!Next

LEMMA SetFailsMaps ==
  ASSUME NEW k \in Keys, NEW v \in Values, SetFails(k, v)
  PROVE  Copy!Next
<1>1. /\ pending' \subseteq pending
      /\ UNCHANGED <<use, cache, reading, flags, held, lasting, sink, saved, orphan, unread>>
  BY DEF SetFails, SetOver, stream, observers
<1>2. Due' \subseteq Due
  BY <1>1 DEF Due
<1> QED  BY <1>1, <1>2, ForgetMaps

LEMMA RestoreFailsMaps == ASSUME RestoreFails PROVE Copy!Next
<1>1. /\ unread' = {} /\ pending' = pending /\ flags' = flags \ {"restoring"}
      /\ UNCHANGED <<use, cache, reading, held, lasting, sink, saved, orphan>>
  BY DEF RestoreFails, Ends, stream, observers
<1>2. Due' \subseteq Due
  BY <1>1 DEF Due
<1> QED  BY <1>1, <1>2, ForgetMaps

LEMMA StepMaps == Inv /\ [Next]_vars => [Copy!Next]_(Copy!vars)
<1> SUFFICES ASSUME Inv, [Next]_vars PROVE Copy!Next \/ CopyStutter
  BY DEF CopyStutter
<1> USE DEF Inv, CopyInv, StreamInv
<1>1. ASSUME NEW k \in Keys, NEW v \in Values \cup {Missing}, Change(k, v) PROVE Copy!Next
  BY <1>1, BecomesMaps DEF Change, stream, restore
<1>2. CASE Restore
  BY <1>2, RestoreMaps
<1>3. CASE RestoreEnds \/ Clear \/ ClearEnds \/ Resume
  BY <1>3, Stutters
  DEF RestoreEnds, Clear, ClearEnds, Resume, Starts, Ends, stream, restore, observers
<1>4. CASE RestoreFails
  BY <1>4, RestoreFailsMaps
<1>5. ASSUME NEW k \in Keys, NEW v \in Values, RestoreLine(k, v) PROVE Copy!Next
  BY <1>5, RestoreLineMaps
<1>6. ASSUME NEW k \in Keys, NEW v \in Values, Applied(k, v) PROVE Copy!Next
  BY <1>6, AppliedMaps
<1>7. ASSUME NEW k \in Keys, NEW v \in Values, SetFails(k, v) PROVE Copy!Next
  BY <1>7, SetFailsMaps
<1>8. ASSUME NEW k \in Keys, ClearKey(k) PROVE Copy!Next
  BY <1>8, BecomesMaps DEF ClearKey, stream, restore
<1>9. CASE Backup
  BY <1>9, BackupMaps
<1>10. ASSUME NEW s \in Scopes, NextScope(s) PROVE CopyStutter
  BY <1>10, Stutters DEF NextScope, stream, restore, observers
<1>11. ASSUME NEW k \in Keys, Export(k) PROVE CopyStutter
  BY <1>11, Stutters DEF Export, stream, restore, observers
<1>12. ASSUME NEW k \in Keys, WriteRecord(k) PROVE Copy!Next \/ CopyStutter
  BY <1>12, WriteMoves, MovesMap
<1>13. CASE Close
  BY <1>13, CloseMoves, MovesMap
<1>14. ASSUME NEW line \in Lines, Flow(line) PROVE Copy!Next \/ CopyStutter
  BY <1>14, FlowMoves, MovesMap
<1>15. ASSUME NEW k \in Keys, ReadGets(k) PROVE Copy!Next
  BY <1>15, ReadGetsMaps
<1>16. ASSUME NEW n \in Names, ReadOver(n) PROVE Copy!Next
  BY <1>16, ReadOverMaps
<1>17. CASE Finish
  BY <1>17, FinishMaps
<1>18. CASE StreamFails \/ \E k \in Keys : ExportFails(k)
  BY <1>18, AbandonMaps
<1>19. ASSUME NEW line \in orphan, OrphanWrites(line) PROVE Copy!Next
  BY <1>19, OrphanMaps
<1>20. CASE OrphanFails
  BY <1>20, OrphanFailsMaps
<1>21. CASE Crash
  BY <1>21, CrashMaps
<1>22. CASE UNCHANGED vars
  BY <1>22, Stutters DEF vars
<1> QED
  BY <1>1, <1>2, <1>3, <1>4, <1>5, <1>6, <1>7, <1>8, <1>9, <1>10, <1>11, <1>12, <1>13,
     <1>14, <1>15, <1>16, <1>17, <1>18, <1>19, <1>20, <1>21, <1>22
  DEF Next, WriterStep, PipeStep, RestoreStep, SetStep, ClearStep, ReadStep, OrphanStep

(***************************************************************************)
(* Backup and restore implement CacheCopy: whatever clients change and     *)
(* read while the lines are on their way, whichever read an export joins   *)
(* and whatever streams an earlier backup has left, a line has a value     *)
(* that a record of its name had, a restore puts back only such lines, and *)
(* no record that was there all the while is left out of a backup that     *)
(* ends and was alone in its file.                                         *)
(***************************************************************************)
THEOREM BackupImplementsCopy == Spec => CopySpec
<1>1. Init => Copy!Init
  <2> SUFFICES ASSUME Init PROVE Copy!Init
    OBVIOUS
  <2>1. Fetched = {}
    BY KeysAssumption DEF Init, Fetched
  <2> QED  BY <2>1 DEF Init, Copy!Init, Nothing
<1> QED  BY <1>1, InvHolds, StepMaps, PTL DEF Spec, CopySpec, Copy!Spec
=============================================================================
