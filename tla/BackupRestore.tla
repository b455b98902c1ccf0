---------------------------- MODULE BackupRestore ----------------------------
(***************************************************************************)
(* Backup and restore of one cache manager: the manager's blocking         *)
(* processes, the writer that exports the records scope by scope, the      *)
(* backup stream with its buffer and its cipher, the storage drivers, and  *)
(* the restore stream whose records are set again.  The process may crash. *)
(*                                                                         *)
(* A record is its key and its value; its line in the backup is named by   *)
(* the key.  One manager and one name: a backup is always made under the   *)
(* same name and restored from it.  Lines keep no order in the buffer: the *)
(* footer is the last one, and nothing else depends on it.                 *)
(*                                                                         *)
(* The export of a key-value record is a read, and reads of one name join  *)
(* whatever record they are of (EnginesProxy).  A read under way is here   *)
(* the value it has got from an engine and has still to return; reads that *)
(* get none, and how the engines come to it, are left out.                 *)
(***************************************************************************)
EXTENDS Integers, FiniteSets

CONSTANTS
  Keys,
  Values,
  Missing,   \* no value, no record
  Scopes,
  ScopeOf,   \* ScopeOf[k]: the scope of k's records
  Names,
  NameOf,    \* NameOf[k]: the key without its scope, by which reads join
  Mortal,    \* the keys whose records expire
  Header,    \* the two header lines
  Footer,    \* the END_BACKUP line
  Capacity,  \* the lines that fill the stream's buffer (and the cipher's)
  Block,     \* the lines that fill a block of the cipher; 1: no encryption
  Uses       \* how the manager may be used: its flavor, the storage service,
             \* whether the name given is the flavor's own, the values that
             \* clients set each key to, and the keys they read

ASSUME KeysAssumption ==
  /\ ScopeOf \in [Keys -> Scopes]
  /\ NameOf \in [Keys -> Names]
  /\ Mortal \subseteq Keys
  /\ Missing \notin Values
ASSUME UsesAssumption ==
  Uses \subseteq [flavor: {"kvs", "files"}, service: {"local", "s3"}, named: BOOLEAN,
                  given: [Keys -> SUBSET Values], read: SUBSET Keys]
ASSUME LinesAssumption ==
  /\ Header \notin Keys /\ Footer \notin Keys /\ Header # Footer
  /\ Header \notin Keys \X Values
  /\ Capacity \in Nat /\ Block \in Nat \ {0}

VARIABLES
  use,       \* one of Uses
  cache,     \* cache[k]: the value of k's record
  reading,   \* reading[n]: the value the read of n under way has got
  flags,     \* the blocking processes of the manager
  writer,    \* the loop that writes the records
  exported,  \* exported[k]: what k's export has answered
  buffer,    \* the lines in the Readable of the backup stream
  flowing,   \* the pipe reads from it
  cipher,    \* the lines in the block the cipher fills
  sink,      \* the records' lines that have reached the destination
  orphan,    \* the lines that streams of rejected backups have still to write
  saved,     \* the stored object: its records' lines, and what it is
  unread,    \* the records' lines a restore has still to handle
  pending,   \* the restored records whose set is not over
  late,      \* those of them that nobody awaits: their restore is over
  clearing,  \* the keys a clear() has still to remove
  held,      \* observer: the values each name has had since the backup, or a
             \* read it may join, began
  lasting    \* observer: the records that have been there since then

vars == <<use, cache, reading, flags, writer, exported, buffer, flowing, cipher, sink,
          orphan, saved, unread, pending, late, clearing, held, lasting>>
stream == <<buffer, flowing, cipher, sink, orphan, saved>>
restore == <<unread, pending, late>>
observers == <<held, lasting>>

-----------------------------------------------------------------------------
(* Types *)

Nothing == [k \in Keys |-> Missing]
Contents == [Keys -> Values \cup {Missing}]
Lines == Keys \cup {Header, Footer}
RecordLines == Keys \X Values

(* blocked: awaits the Readable's 'drain' event, which a Readable never    *)
(* emits.  left: the scopes to come; todo: the exports it awaits; queue:   *)
(* the exported records it has still to write.                             *)
WriterState == [pc: {"idle", "running", "blocked", "closed"},
                left: SUBSET Scopes, todo: SUBSET Keys, queue: SUBSET Keys]

(* Type invariant. *)
TypeOK ==
  /\ use \in Uses
  /\ cache \in Contents
  /\ reading \in [Names -> Values \cup {Missing}]
  /\ flags \subseteq {"clearing", "backingUp", "restoring"}
  /\ writer \in WriterState
  /\ exported \in Contents
  /\ buffer \subseteq Lines
  /\ flowing \in BOOLEAN
  /\ cipher \subseteq Lines
  /\ sink \subseteq RecordLines
  /\ orphan \subseteq RecordLines \cup {Header}
  /\ saved \in [lines: SUBSET RecordLines, state: {"part", "whole", "mixed"}]
  /\ unread \subseteq RecordLines
  /\ pending \subseteq RecordLines
  /\ late \subseteq pending
  /\ clearing \subseteq Keys
  /\ held \in [Names -> SUBSET Values]
  /\ lasting \subseteq Keys

Writer(pc, left, todo, queue) ==
  [pc |-> pc, left |-> left, todo |-> todo, queue |-> queue]

Idle == Writer("idle", {}, {}, {})

Init ==
  /\ use \in Uses
  /\ cache = Nothing
  /\ reading = [n \in Names |-> Missing]
  /\ flags = {}
  /\ writer = Idle
  /\ exported = Nothing
  /\ buffer = {}
  /\ flowing = FALSE
  /\ cipher = {}
  /\ sink = {}
  /\ orphan = {}
  /\ saved = [lines |-> {}, state |-> "part"]
  /\ unread = {} /\ pending = {} /\ late = {}
  /\ clearing = {}
  /\ held = [n \in Names |-> {}]
  /\ lasting = {}

-----------------------------------------------------------------------------
(* The manager's records and its blocking processes *)

Records == {k \in Keys : cache[k] # Missing}

Becomes(k, v) ==
  /\ cache' = [cache EXCEPT ![k] = v]
  /\ held' = IF "backingUp" \in flags
             THEN [held EXCEPT ![NameOf[k]] = @ \cup ({v} \ {Missing})]
             ELSE held
  /\ lasting' = IF v = Missing THEN lasting \ {k} ELSE lasting

(* Mutant of Starts: the other processes are not looked at. *)
StartsAnyway(process) ==
  /\ process \notin flags
  /\ flags' = flags \cup {process}

(* A process that runs already is not started again; another refuses it.   *)
Starts(process) ==
  /\ process \notin flags
  /\ flags \ {process} = {}
  /\ flags' = flags \cup {process}

Ends(process) == flags' = flags \ {process}

(* set, update and remove of the manager: refused while it clears, and not *)
(* while it backs up or restores.                                          *)
Change(k, v) ==
  /\ "clearing" \notin flags
  /\ v \in (use.given[k] \cup {Missing}) \ {cache[k]}
  /\ Becomes(k, v)
  /\ UNCHANGED <<use, reading, flags, writer, exported, stream, restore, clearing>>

(* A read of a key-value record has its value.  Others of that name join   *)
(* it until it is over.                                                    *)
ReadGets(k) ==
  /\ use.flavor = "kvs" /\ k \in use.read
  /\ reading[NameOf[k]] = Missing
  /\ cache[k] # Missing
  /\ reading' = [reading EXCEPT ![NameOf[k]] = cache[k]]
  /\ UNCHANGED <<use, cache, flags, writer, exported, stream, restore, clearing, observers>>

ReadOver(n) ==
  /\ reading[n] # Missing
  /\ reading' = [reading EXCEPT ![n] = Missing]
  /\ UNCHANGED <<use, cache, flags, writer, exported, stream, restore, clearing, observers>>

Clear ==
  /\ Starts("clearing")
  /\ clearing' = Records
  /\ UNCHANGED <<use, cache, reading, writer, exported, stream, restore, observers>>

ClearKey(k) ==
  /\ k \in clearing
  /\ clearing' = clearing \ {k}
  /\ Becomes(k, Missing)
  /\ UNCHANGED <<use, reading, flags, writer, exported, stream, restore>>

ClearEnds ==
  /\ "clearing" \in flags
  /\ clearing = {}
  /\ Ends("clearing")
  /\ UNCHANGED <<use, cache, reading, writer, exported, stream, restore, clearing, observers>>

-----------------------------------------------------------------------------
(* The stream and the storage *)

(* The destination takes more lines.  A local one is the file itself; if   *)
(* two streams have it open, each writes at its own position, and any line *)
(* of either may be overwritten: of a mixed file's lines some are there.   *)
(* On s3 the object is replaced when the upload is complete.               *)
Takes(lines) ==
  saved' = IF use.service = "local" THEN [saved EXCEPT !.lines = @ \cup lines] ELSE saved

Line(k) == <<k, exported[k]>>

Arrive(line) ==
  LET arrived == IF line \in Keys THEN {Line(line)} ELSE {}
  IN sink' = sink \cup arrived /\ Takes(arrived)

(* How often a chunk makes the cipher (or the decipher) call back: once    *)
(* for each block it fills.  Without that call the Transform takes no      *)
(* other chunk and passes nothing on.  (A line is shorter than a block.)   *)
Callbacks(chunk) == chunk \div Block

(* The pipe hands a line on; it stops when the destination is full. *)
Deliver(line) ==
  /\ flowing' \in BOOLEAN
  /\ IF Callbacks(1) = 1
     THEN Arrive(line) /\ UNCHANGED cipher
     ELSE cipher' = {line} /\ UNCHANGED <<sink, saved>>

(* Mutant of Push: a line that meets a full buffer is dropped. *)
PushDrops(line, pc) ==
  IF flowing /\ buffer = {} /\ cipher = {}
  THEN /\ Deliver(line)
       /\ writer' = Writer(pc, writer.left, writer.todo, writer.queue \ {line})
       /\ UNCHANGED buffer
  ELSE /\ buffer' = IF Cardinality(buffer) < Capacity THEN buffer \cup {line} ELSE buffer
       /\ writer' = Writer(pc, writer.left, writer.todo, writer.queue \ {line})
       /\ UNCHANGED <<flowing, cipher, sink, saved>>

(* push: a flowing stream with nothing buffered passes the line on at      *)
(* once; else it is buffered, and a full buffer blocks the writer.         *)
Push(line, pc) ==
  IF flowing /\ buffer = {} /\ cipher = {}
  THEN /\ Deliver(line)
       /\ writer' = Writer(pc, writer.left, writer.todo, writer.queue \ {line})
       /\ UNCHANGED buffer
  ELSE /\ buffer' = buffer \cup {line}
       /\ writer' = Writer(IF Cardinality(buffer') < Capacity THEN pc ELSE "blocked",
                           writer.left, writer.todo, writer.queue \ {line})
       /\ UNCHANGED <<flowing, cipher, sink, saved>>

(* The pipe begins, or the destination has drained. *)
Resume ==
  /\ writer.pc # "idle"
  /\ ~flowing
  /\ flowing' = TRUE
  /\ UNCHANGED <<use, cache, reading, flags, writer, exported, buffer, cipher, sink, orphan,
                 saved, restore, clearing, observers>>

Flow(line) ==
  /\ flowing /\ cipher = {}
  /\ line \in buffer
  /\ line = Footer => buffer = {Footer}
  /\ buffer' = buffer \ {line}
  /\ Deliver(line)
  /\ UNCHANGED <<use, cache, reading, flags, writer, exported, orphan, restore, clearing,
                 observers>>

-----------------------------------------------------------------------------
(* backup *)

(* createWriteStream cuts the file off at once.  The streams of an earlier *)
(* backup may still have it open.                                          *)
Backup ==
  /\ Starts("backingUp")
  /\ writer' = Writer("running", Scopes, {}, {})
  /\ buffer' = {Header}
  /\ saved' = IF use.service = "local"
              THEN [lines |-> {}, state |-> IF orphan = {} THEN "part" ELSE "mixed"]
              ELSE saved
  /\ held' = [n \in Names |->
       ({cache[k] : k \in {j \in Keys : NameOf[j] = n}} \cup {reading[n]}) \ {Missing}]
  /\ lasting' = Records
  /\ UNCHANGED <<use, cache, reading, exported, flowing, cipher, sink, orphan, restore,
                 clearing>>

(* The records of the next scope are listed and all their exports begin.   *)
(* That of a file is there at once.                                        *)
NextScope(s) ==
  /\ writer.pc = "running" /\ writer.todo = {} /\ writer.queue = {}
  /\ s \in writer.left
  /\ LET listed == {k \in Records : ScopeOf[k] = s}
         left == writer.left \ {s}
     IN IF use.flavor = "kvs"
        THEN writer' = Writer("running", left, listed, {}) /\ UNCHANGED exported
        ELSE /\ writer' = Writer("running", left, {}, listed)
             /\ exported' = [k \in Keys |-> IF k \in listed THEN cache[k] ELSE exported[k]]
  /\ UNCHANGED <<use, cache, reading, flags, stream, restore, clearing, observers>>

(* Mutant of Export: a record removed since it was listed is not skipped.   *)
ExportGone(k) ==
  /\ writer.pc = "running"
  /\ k \in writer.todo
  /\ LET n == NameOf[k]
         answer == IF reading[n] # Missing THEN reading[n] ELSE cache[k]
     IN /\ exported' = [exported EXCEPT ![k] = answer]
        /\ writer' = Writer("running", writer.left, writer.todo \ {k}, writer.queue \cup {k})
  /\ UNCHANGED <<use, cache, reading, flags, stream, restore, clearing, observers>>

(* An export answers with what the read under way of its name has got, or  *)
(* with its own.  A record removed since it was listed is skipped.         *)
Export(k) ==
  /\ writer.pc = "running"
  /\ k \in writer.todo
  /\ LET n == NameOf[k]
         answer == IF reading[n] # Missing THEN reading[n] ELSE cache[k]
     IN /\ exported' = [exported EXCEPT ![k] = answer]
        /\ writer' = Writer("running", writer.left, writer.todo \ {k},
                            writer.queue \cup IF answer # Missing THEN {k} ELSE {})
  /\ UNCHANGED <<use, cache, reading, flags, stream, restore, clearing, observers>>

(* Once all the scope's exports have answered its lines are written. *)
WriteRecord(k) ==
  /\ writer.pc = "running" /\ writer.todo = {}
  /\ k \in writer.queue
  /\ Push(k, "running")
  /\ UNCHANGED <<use, cache, reading, flags, exported, orphan, restore, clearing, observers>>

(* Mutant of Close: a backup without records is not closed. *)
CloseWritten ==
  /\ writer.pc = "running" /\ writer.todo = {} /\ writer.queue = {}
  /\ writer.left = {} /\ exported # Nothing
  /\ Push(Footer, "closed")
  /\ UNCHANGED <<use, cache, reading, flags, exported, orphan, restore, clearing, observers>>

Close ==
  /\ writer.pc = "running" /\ writer.todo = {} /\ writer.queue = {}
  /\ writer.left = {}
  /\ Push(Footer, "closed")
  /\ UNCHANGED <<use, cache, reading, flags, exported, orphan, restore, clearing, observers>>

(* The writer is done with; so is what the observers saw. *)
Discard ==
  /\ writer' = Idle
  /\ exported' = Nothing
  /\ buffer' = {}
  /\ flowing' = FALSE
  /\ cipher' = {}
  /\ sink' = {}
  /\ held' = [n \in Names |-> {}]
  /\ lasting' = {}

(* The destination has everything: the backup resolves. *)
Finish ==
  /\ writer.pc = "closed" /\ buffer = {} /\ cipher = {}
  /\ Discard
  /\ Ends("backingUp")
  /\ saved' = IF use.service = "s3" THEN [lines |-> sink, state |-> "whole"]
              ELSE [saved EXCEPT !.state = IF @ = "mixed" THEN @ ELSE "whole"]
  /\ UNCHANGED <<use, cache, reading, orphan, restore, clearing>>

(* The destination or the cipher fails: all streams are destroyed, the     *)
(* backup rejects and leaves what has been stored.                         *)
StreamFails ==
  /\ writer.pc # "idle"
  /\ Discard
  /\ Ends("backingUp")
  /\ UNCHANGED <<use, cache, reading, orphan, saved, restore, clearing>>

(* An export rejects and so does the backup, but no stream is destroyed:   *)
(* what is in the Readable goes on into a local file.  An upload waits for *)
(* an end that never comes.                                                *)
ExportFails(k) ==
  /\ use.flavor = "kvs"
  /\ writer.pc = "running"
  /\ k \in writer.todo
  /\ orphan' = IF use.service = "local"
               THEN orphan \cup {Line(j) : j \in buffer \cap Keys} \cup (buffer \cap {Header})
               ELSE orphan
  /\ Discard
  /\ Ends("backingUp")
  /\ UNCHANGED <<use, cache, reading, saved, restore, clearing>>

(* The pipe of a rejected backup writes a line.  A restore that reads the  *)
(* file may meet it.                                                       *)
OrphanWrites(line) ==
  LET written == {line} \cap RecordLines
  IN /\ line \in orphan
     /\ orphan' = orphan \ {line}
     /\ Takes(written)
     /\ \/ UNCHANGED unread
        \/ "restoring" \in flags /\ unread' = unread \cup written
     /\ UNCHANGED <<use, cache, reading, flags, writer, exported, buffer, flowing, cipher,
                    sink, pending, late, clearing, observers>>

(* Its file fails, and its streams are destroyed. *)
OrphanFails ==
  /\ orphan # {}
  /\ orphan' = {}
  /\ UNCHANGED <<use, cache, reading, flags, writer, exported, buffer, flowing, cipher, sink,
                 saved, restore, clearing, observers>>

-----------------------------------------------------------------------------
(* restore *)

(* The local drivers' object of both calls is named by the flavor and the  *)
(* name; s3 backs up to the name and restores from the flavor's.           *)
Found == use.service = "local" \/ use.named

(* A file that is not there is no error; an object that is not there is.   *)
Restore ==
  /\ Found
  /\ Starts("restoring")
  /\ unread' = saved.lines
  /\ UNCHANGED <<use, cache, reading, writer, exported, stream, pending, late, clearing,
                 observers>>

(* A RECORD line: an expired record is skipped, any other set at once.  A  *)
(* line of a mixed file may not be there.  The footer is not looked for.   *)
RestoreLine(k, v) ==
  /\ Callbacks(1) = 1
  /\ <<k, v>> \in unread
  /\ unread' = unread \ {<<k, v>>}
  /\ \/ (k \in Mortal \/ saved.state = "mixed") /\ UNCHANGED pending
     \/ pending' = pending \cup {<<k, v>>}
  /\ UNCHANGED <<use, cache, reading, flags, writer, exported, stream, late, clearing,
                 observers>>

(* The set of a restored record is over. *)
SetOver(k, v) ==
  /\ <<k, v>> \in pending
  /\ pending' = pending \ {<<k, v>>}
  /\ late' = late \ {<<k, v>>}

Applied(k, v) ==
  /\ SetOver(k, v)
  /\ Becomes(k, v)
  /\ UNCHANGED <<use, reading, flags, writer, exported, stream, unread, clearing>>

(* A set that fails is logged; the restore goes on. *)
SetFails(k, v) ==
  /\ SetOver(k, v)
  /\ UNCHANGED <<use, cache, reading, flags, writer, exported, stream, unread, clearing,
                 observers>>

(* A read error, or a line that was cut off: what was set remains. *)
RestoreFails ==
  /\ "restoring" \in flags
  /\ Ends("restoring")
  /\ unread' = {}
  /\ late' = pending
  /\ UNCHANGED <<use, cache, reading, writer, exported, stream, pending, clearing, observers>>

(* Mutant of RestoreEnds: the footer is waited for. *)
RestoreEndsWhole ==
  /\ "restoring" \in flags
  /\ unread = {} /\ saved.state = "whole"
  /\ Ends("restoring")
  /\ late' = pending
  /\ UNCHANGED <<use, cache, reading, writer, exported, stream, unread, pending, clearing,
                 observers>>

(* The queue's tasks are over.  Those of files have awaited their sets;    *)
(* the promise a key-value record's task awaits settles before its set.    *)
RestoreEnds ==
  /\ "restoring" \in flags
  /\ unread = {}
  /\ use.flavor = "files" => pending = {}
  /\ Ends("restoring")
  /\ late' = IF use.flavor = "kvs" THEN pending ELSE late
  /\ UNCHANGED <<use, cache, reading, writer, exported, stream, unread, pending, clearing,
                 observers>>

-----------------------------------------------------------------------------
(* The process dies and is started again: the memory is lost, a local      *)
(* backup in progress leaves what has been written.                        *)
Crash ==
  /\ cache' = Nothing
  /\ reading' = [n \in Names |-> Missing]
  /\ flags' = {}
  /\ Discard
  /\ orphan' = {}
  /\ unread' = {} /\ pending' = {} /\ late' = {}
  /\ clearing' = {}
  /\ UNCHANGED <<use, saved>>

WriterStep ==
  \/ \E s \in Scopes : NextScope(s)
  \/ \E k \in Keys : Export(k) \/ WriteRecord(k)
  \/ Close \/ Finish
PipeStep == Resume \/ \E line \in Lines : Flow(line)
RestoreStep == RestoreEnds \/ \E k \in Keys, v \in Values : RestoreLine(k, v)
SetStep == \E k \in Keys, v \in Values : Applied(k, v)
ClearStep == ClearEnds \/ \E k \in Keys : ClearKey(k)

ReadStep == (\E k \in Keys : ReadGets(k)) \/ (\E n \in Names : ReadOver(n))
OrphanStep == OrphanFails \/ \E line \in orphan : OrphanWrites(line)

Next ==
  \/ \E k \in Keys, v \in Values \cup {Missing} : Change(k, v)
  \/ Backup \/ Restore \/ Clear \/ ReadStep \/ OrphanStep
  \/ WriterStep \/ PipeStep \/ RestoreStep \/ SetStep \/ ClearStep
  \/ \E k \in Keys, v \in Values : SetFails(k, v)
  \/ \E k \in Keys : ExportFails(k)
  \/ StreamFails \/ RestoreFails \/ Crash

Spec == Init /\ [][Next]_vars

(* Exports, streams and engines answer; what is awaited resumes. *)
FairSpec ==
  /\ Spec
  /\ WF_vars(WriterStep) /\ WF_vars(PipeStep) /\ WF_vars(RestoreStep)
  /\ WF_vars(SetStep) /\ WF_vars(ClearStep)

-----------------------------------------------------------------------------
(* Properties that hold *)

Fetched == {got \in Names \X Values : reading[got[1]] = got[2]}

Copy == INSTANCE CacheCopy WITH
  live <- cache, fetched <- Fetched,
  copying <- "backingUp" \in flags, held <- held, lasting <- lasting, draft <- sink,
  kept <- saved, strays <- orphan, due <- pending \cup unread,
  inPlace <- use.service = "local", Blank <- Header

(* Backup and restore implement CacheCopy: records that clients change,    *)
(* exports that join other reads, streams that outlive their backup,       *)
(* restores and removals that end late, the buffer and the crash never     *)
(* bring a value into a backup that no record of that name had, nor leave  *)
(* a record that was there all the while out of a backup that ended and    *)
(* was alone in its file, and only copied values are put back.             *)
CopySpec == Copy!Spec

(* A flag is up exactly while its process works, however that ends, and no *)
(* two processes work at once.  What they leave behind is not covered: the *)
(* streams of a backup whose export was rejected go on writing (orphan),   *)
(* and of a restore that has failed, or was one of key-value records, the  *)
(* sets go on (late).  No other set is under way without the flag.         *)
FlagsMatch ==
  /\ \A p \in flags : flags = {p}
  /\ ("backingUp" \in flags) = (writer.pc # "idle")
  /\ unread # {} => flags = {"restoring"}
  /\ pending # late => flags = {"restoring"}
  /\ clearing # {} => flags = {"clearing"}

(* A backup ends, unless its writer waits for an event that never comes.   *)
BackupSettles == "backingUp" \in flags ~> ("backingUp" \notin flags \/ writer.pc = "blocked")

(* A restore always ends. *)
RestoreSettles == "restoring" \in flags ~> "restoring" \notin flags

-----------------------------------------------------------------------------
(* What the documentation promises and the code does not keep *)

(* kvs.manager.ts:865: the promise of a restore "resolves once the restore *)
(* completes": no set of it is under way any more, and no clear, backup or *)
(* other restore starts over one.                                          *)
SetsAwaited == pending # {} => flags = {"restoring"}

(* BackupStream.ts:110-112: streamTo's promise rejects with an error on    *)
(* either stream.  An error beside them, an export's, rejects the backup   *)
(* with its streams still writing, and the file may be read while they do. *)
ReadAlone == unread # {} => orphan = {}

(* BackupStream.ts:53: when the buffer is full, writeRecord awaits 'drain' *)
(* "before returning".  It never returns, and every later backup, restore  *)
(* and clear is refused.                                                   *)
BackupEnds == "backingUp" \in flags ~> "backingUp" \notin flags
=============================================================================
