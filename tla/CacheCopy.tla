------------------------------ MODULE CacheCopy ------------------------------
(***************************************************************************)
(* What a backup and a restore of one cache promise, with the streams, the *)
(* storage and the processes of the manager left out.                      *)
(*                                                                         *)
(* A backup is no snapshot: each record is copied at a moment of its own.  *)
(* Nor is a copied value always the record's own: an export is answered by *)
(* the read under way of a record of the same name.  What a backup does    *)
(* promise is that a copied value is one that a record of that name had    *)
(* while the backup ran, or that a read had got before and had still to    *)
(* return; and that a whole copy has a line of every record that was there *)
(* all the while.  A copy is whole if it ended and no other backup, given  *)
(* up but still writing, had the same place.  A restore puts copied values *)
(* back, each at some later moment or never.                               *)
(***************************************************************************)
CONSTANTS
  Keys,
  Names,
  NameOf,   \* NameOf[k]: what reads know k's record by
  Values,
  Missing,  \* no value
  Blank     \* a line that is no record's

VARIABLES
  live,     \* live[k]: what the cache has
  fetched,  \* the values that reads under way have got, each with its name
  copying,  \* a backup runs
  held,     \* held[n]: the values a copied record of that name may have
  lasting,  \* the records that have been there since the backup began
  draft,    \* the lines of the copy the backup makes
  kept,     \* the lines in the storage, and what they are
  strays,   \* the lines that backups given up have still to write there
  due,      \* the copied values a restore may still put back
  inPlace   \* the storage keeps a draft in the place of the earlier copy

vars == <<live, fetched, copying, held, lasting, draft, kept, strays, due, inPlace>>

RecordLines == Keys \X Values
Contents == [Keys -> Values \cup {Missing}]
Copies == [lines: SUBSET RecordLines, state: {"part", "whole", "mixed"}]

TypeOK ==
  /\ live \in Contents
  /\ fetched \subseteq Names \X Values
  /\ copying \in BOOLEAN
  /\ held \in [Names -> SUBSET Values]
  /\ lasting \subseteq Keys
  /\ draft \subseteq RecordLines
  /\ kept \in Copies
  /\ strays \subseteq RecordLines \cup {Blank}
  /\ due \subseteq RecordLines
  /\ inPlace \in BOOLEAN

Init ==
  /\ live = [k \in Keys |-> Missing]
  /\ fetched = {}
  /\ copying = FALSE
  /\ held = [n \in Names |-> {}]
  /\ lasting = {}
  /\ draft = {}
  /\ kept = [lines |-> {}, state |-> "part"]
  /\ strays = {}
  /\ due = {}
  /\ inPlace \in BOOLEAN

Becomes(k, v) ==
  /\ live' = [live EXCEPT ![k] = v]
  /\ held' = IF copying THEN [held EXCEPT ![NameOf[k]] = @ \cup ({v} \ {Missing})] ELSE held
  /\ lasting' = IF v = Missing THEN lasting \ {k} ELSE lasting

(* A client sets or removes a record. *)
Change(k, v) ==
  /\ Becomes(k, v)
  /\ UNCHANGED <<fetched, copying, draft, kept, strays, due, inPlace>>

(* A read of a record has its value, and returns it later. *)
Fetch(k) ==
  /\ live[k] # Missing
  /\ fetched' = fetched \cup {<<NameOf[k], live[k]>>}
  /\ UNCHANGED <<live, copying, held, lasting, draft, kept, strays, due, inPlace>>

Return ==
  /\ fetched' \in SUBSET fetched
  /\ UNCHANGED <<live, copying, held, lasting, draft, kept, strays, due, inPlace>>

Had(n) ==
  {v \in Values : <<n, v>> \in fetched \/ \E k \in Keys : NameOf[k] = n /\ live[k] = v}

Begin ==
  /\ ~copying
  /\ copying' = TRUE
  /\ held' = [n \in Names |-> Had(n)]
  /\ lasting' = {k \in Keys : live[k] # Missing}
  /\ kept' = IF inPlace
             THEN [lines |-> {}, state |-> IF strays = {} THEN "part" ELSE "mixed"]
             ELSE kept
  /\ UNCHANGED <<live, fetched, draft, strays, due, inPlace>>

(* The storage takes more lines.  Where several write, any may be lost.    *)
Takes(lines) == kept' = [kept EXCEPT !.lines = @ \cup lines]

Copy(k) ==
  /\ copying
  /\ \E v \in held[NameOf[k]] :
       /\ draft' = draft \cup {<<k, v>>}
       /\ IF inPlace THEN Takes({<<k, v>>}) ELSE UNCHANGED kept
  /\ UNCHANGED <<live, fetched, copying, held, lasting, strays, due, inPlace>>

(* The backup is over, one way or another. *)
Done ==
  /\ copying' = FALSE
  /\ held' = [n \in Names |-> {}]
  /\ lasting' = {}
  /\ draft' = {}

End ==
  /\ copying
  /\ \A k \in lasting : \E v \in Values : <<k, v>> \in draft
  /\ Done
  /\ kept' = IF inPlace /\ kept.state = "mixed" THEN kept
             ELSE [lines |-> draft, state |-> "whole"]
  /\ UNCHANGED <<live, fetched, strays, due, inPlace>>

(* A backup is given up; some of what it has copied may still be written.  *)
Abandon ==
  /\ copying
  /\ Done
  /\ strays' \in SUBSET (strays \cup {Blank} \cup
                         {line \in RecordLines : line[2] \in held[NameOf[line[1]]]})
  /\ ~inPlace => strays' = strays
  /\ UNCHANGED <<live, fetched, kept, due, inPlace>>

(* It is, or is not: never into a copy that is whole, nor into one that is *)
(* made alone.  A restore that reads the storage may meet it.              *)
Land(line) ==
  /\ line \in strays
  /\ strays' = strays \ {line}
  /\ kept.state = "mixed" \/ (kept.state = "part" /\ ~copying)
  /\ Takes({line} \cap RecordLines)
  /\ due' \in SUBSET (due \cup ({line} \cap RecordLines))
  /\ UNCHANGED <<live, fetched, copying, held, lasting, draft, inPlace>>

Drop ==
  /\ strays' \in SUBSET strays
  /\ UNCHANGED <<live, fetched, copying, held, lasting, draft, kept, due, inPlace>>

(* A restore reads the lines there are; Forget covers those that are lost. *)
Load ==
  /\ ~copying
  /\ due' = due \cup kept.lines
  /\ UNCHANGED <<live, fetched, copying, held, lasting, draft, kept, strays, inPlace>>

Put(k, v) ==
  /\ <<k, v>> \in due
  /\ Becomes(k, v)
  /\ due' \in {due, due \ {<<k, v>>}}
  /\ UNCHANGED <<fetched, copying, draft, kept, strays, inPlace>>

Forget ==
  /\ due' \in SUBSET due
  /\ UNCHANGED <<live, fetched, copying, held, lasting, draft, kept, strays, inPlace>>

(* The process ends and is started again. *)
Restart ==
  /\ live' = [k \in Keys |-> Missing]
  /\ fetched' = {} /\ strays' = {} /\ due' = {}
  /\ Done
  /\ UNCHANGED <<kept, inPlace>>

Next ==
  \/ \E k \in Keys, v \in Values \cup {Missing} : Change(k, v)
  \/ \E k \in Keys, v \in Values : Put(k, v)
  \/ \E k \in Keys : Fetch(k) \/ Copy(k)
  \/ \E line \in strays : Land(line)
  \/ Return \/ Begin \/ End \/ Abandon \/ Drop \/ Load \/ Forget \/ Restart

Spec == Init /\ [][Next]_vars
=============================================================================
