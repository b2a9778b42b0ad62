---------------------------- MODULE ListManager ----------------------------
(***************************************************************************)
(* sub-modules/middleware/list-manager: an append-only list of lines kept  *)
(* on the SD card, one group of files per calendar day, with a metadata    *)
(* file that remembers how many lines each tracked day has and how many    *)
(* of them were consumed.  The module has the state of one handle, the     *)
(* card underneath it, and the steps of list_mgr_add and list_mgr_ack; the *)
(* client that calls them is in Retransmission.                            *)
(*                                                                         *)
(* A step is what happens between two calls of the storage interface, so a *)
(* power cut may fall between any two of them.  A line is an event, and a  *)
(* file a sequence of lines; a missing file and an empty one read alike.   *)
(*                                                                         *)
(* Three history variables carry no state of the code.  log[d] is what     *)
(* list_mgr_add has stored for date d, in order.  undeleted is the set of  *)
(* files that delete_file was asked to remove, or came behind one it was   *)
(* asked to remove, and did not: the code goes on without them.  torn is   *)
(* the set of dates that met one of the four accidents after which files   *)
(* and counters no longer agree: a power cut between a file operation and  *)
(* the metadata write, a line added after the unfinished last file was     *)
(* drained and deleted, an acknowledgement through a handle that the       *)
(* change of day has made stale, and a date that comes back while it is    *)
(* still tracked or files of it are left.                                  *)
(***************************************************************************)
EXTENDS Integers, Sequences, SequencesExt

CONSTANTS Dates,       \* the date keys the clock may give
          Events,      \* the lines clients may add
          MaxLines,    \* config.max_lines_per_file, 500 in the product
          MaxDays,     \* config.max_tracked_days, 7 in the product
          MaxSeq       \* bound: the sequence numbers of a day's files

CONSTANTS NoDate, NoEvent

ASSUME ListAssumption ==
  /\ MaxLines \in Nat \ {0}
  /\ MaxDays \in Nat \ {0}
  /\ MaxSeq \in Nat
  /\ NoDate \notin Dates
  /\ NoEvent \notin Events

VARIABLES files,   \* the card: <<date, seq>> -> lines of that file
          meta,    \* the card: what list_meta.dat says
          days,    \* handle->day_meta, most recent first
          write,   \* handle->current_write_date, _seq and _lines
          op,      \* the operation in progress and the storage call it is at
          log, torn, undeleted

listVars == <<files, meta, days, write, op, log, torn, undeleted>>

Entry(d) == [date |-> d, total |-> 0, index |-> 0]
FreshWrite(d) == [date |-> d, seq |-> 0, lines |-> 0]
Blank == [days |-> << >>, write |-> FreshWrite(NoDate)]
Idle == [kind |-> "idle", date |-> NoDate, event |-> NoEvent]

ListInit ==
  /\ files = [f \in Dates \X (0 .. MaxSeq) |-> << >>]
  /\ meta = Blank
  /\ days = << >> /\ write = FreshWrite(NoDate)
  /\ op = Idle
  /\ log = [d \in Dates |-> << >>]
  /\ torn = {} /\ undeleted = {}

Tracked(ds) == {ds[i].date : i \in 1 .. Len(ds)}

\* What a metadata table says of a date; a day without lines says nothing.
EntriesOf(ds, d) ==
  {ds[i] : i \in {j \in 1 .. Len(ds) : ds[j].date = d /\ ds[j].total > 0}}
Newer(ds, d, x) == \E i, j \in 1 .. Len(ds) : i < j /\ ds[i].date = d /\ ds[j].date = x
Disagree(old, new, d) ==
  \/ EntriesOf(old, d) # EntriesOf(new, d)
  \/ \E x \in Dates : \/ (Newer(old, d, x) /\ Newer(new, x, d))
                     \/ (Newer(old, x, d) /\ Newer(new, d, x))

(***************************************************************************)
(* list_mgr_add                                                            *)
(***************************************************************************)

DayChanges(d) == days = << >> \/ write.date # d

\* The days kept when a new one is put in front: the oldest falls off a
\* full table.
Kept == IF Len(days) >= MaxDays THEN Front(days) ELSE days

DroppedNone == {d \in Dates : FALSE}    \* (variant: files of an expired day stay)
\* _delete_day_files of the day that falls off.
Dropped == IF Len(days) >= MaxDays THEN {Last(days).date} ELSE {}

\* Files of a date are on the card.
Remains(fs, d) == \E s \in 0 .. MaxSeq : fs[<<d, s>>] # << >>

\* _delete_day_files deletes the files of the dropped day from 0 on and stops at
\* the first it cannot delete, which is n.
AddNewDay(d, e, n) ==
  /\ op.kind = "idle" /\ DayChanges(d)
  /\ days' = <<Entry(d)>> \o Kept
  /\ write' = FreshWrite(d)
  /\ files' = [f \in DOMAIN files |->
                IF f[1] \in Dropped /\ f[2] < n THEN << >> ELSE files[f]]
  /\ undeleted' = {f \in DOMAIN files :
                    files'[f] # << >> /\ (f[1] \in Dropped \/ f \in undeleted)}
  /\ op' = [kind |-> "append", date |-> d, event |-> e]
  /\ log' = [x \in Dates |-> IF x \in Dropped THEN << >> ELSE log[x]]
  /\ torn' = IF d \in Tracked(Kept) \/ Remains(files', d) THEN torn \cup {d} ELSE torn
  /\ UNCHANGED meta

AddSameDay(d, e) ==
  /\ op.kind = "idle" /\ ~ DayChanges(d)
  /\ op' = [kind |-> "append", date |-> d, event |-> e]
  /\ UNCHANGED <<files, meta, days, write, log, torn, undeleted>>

\* Where the next line goes: a full file is followed by the next sequence
\* number.
RollsLate == write.lines > MaxLines    \* (variant: one line too many)
RollsOver == write.lines >= MaxLines
NextWrite == IF RollsOver THEN [write EXCEPT !.seq = @ + 1, !.lines = 0] ELSE write

\* The last file was deleted by list_mgr_ack when the day was drained, and
\* the line that comes now makes it anew.
TailWasDrained == /\ days[1].total > 0 /\ days[1].index >= days[1].total
                  /\ NextWrite.lines > 0
                  /\ files[<<op.date, NextWrite.seq>>] = << >>

AddAppend ==
  /\ op.kind = "append" /\ NextWrite.seq <= MaxSeq
  /\ files' = [files EXCEPT ![<<op.date, NextWrite.seq>>] = Append(@, op.event)]
  /\ days' = [days EXCEPT ![1].total = @ + 1]
  /\ write' = [NextWrite EXCEPT !.lines = @ + 1]
  /\ op' = [op EXCEPT !.kind = "save"]
  /\ log' = [log EXCEPT ![op.date] = Append(@, op.event)]
  /\ torn' = IF TailWasDrained THEN torn \cup {op.date} ELSE torn
  /\ UNCHANGED <<meta, undeleted>>

\* append_line fails: the handle keeps the new day and the new sequence
\* number, and nothing is saved.
AddFails ==
  /\ op.kind = "append"
  /\ write' = NextWrite
  /\ op' = Idle
  /\ UNCHANGED <<files, meta, days, log, torn, undeleted>>

(***************************************************************************)
(* _save_metadata, the last thing list_mgr_add and list_mgr_ack do.  Its   *)
(* result is ignored.  The file is opened with "w", so a write that does   *)
(* not complete leaves the old text or an empty file.                      *)
(***************************************************************************)
Save ==
  /\ op.kind = "save"
  /\ meta' = [days |-> days, write |-> write]
  /\ op' = Idle
  /\ UNCHANGED <<files, days, write, log, torn, undeleted>>

SaveFails ==
  /\ op.kind = "save"
  /\ meta' \in {meta, Blank}
  /\ op' = Idle
  /\ UNCHANGED <<files, days, write, log, torn, undeleted>>

(***************************************************************************)
(* list_mgr_peek_next: the oldest day that has a line left.                *)
(***************************************************************************)
HasMore(i) == days[i].index < days[i].total
Newest == CHOOSE i \in 1 .. Len(days) :    \* (variant: day_0 first)
            HasMore(i) /\ \A j \in 1 .. i - 1 : ~ HasMore(j)
Oldest == CHOOSE i \in 1 .. Len(days) :
            HasMore(i) /\ \A j \in i + 1 .. Len(days) : ~ HasMore(j)
Pending == \E i \in 1 .. Len(days) : HasMore(i)

FileOf(k) == k \div MaxLines
LineAt(d, k) == LET lines == files[<<d, FileOf(k)>>] n == (k % MaxLines) + 1
                IN IF n <= Len(lines) THEN lines[n] ELSE NoEvent

\* read_line fails where the file has no such line; peek_next then fails too.
Peek == [day |-> Oldest, date |-> days[Oldest].date, line |-> days[Oldest].index,
         event |-> LineAt(days[Oldest].date, days[Oldest].index)]
PeekOK == Pending /\ Peek.event # NoEvent
NoHandle == [day |-> 0, date |-> NoDate, line |-> 0, event |-> NoEvent]

(***************************************************************************)
(* list_mgr_ack: the counter of the day slot the handle names, and the     *)
(* file, of the date the handle names, that this exhausts.  The result of  *)
(* deleting it is ignored.                                                 *)
(***************************************************************************)
\* (variant: the unfinished last file is forgotten)
ExhaustedFull(new, total) == IF new % MaxLines = 0 THEN {FileOf(new) - 1} ELSE {}
Exhausted(new, total) ==
  IF new % MaxLines = 0 THEN {FileOf(new) - 1}
  ELSE IF new >= total /\ total > 0 THEN {FileOf(total - 1)}
  ELSE {}

\* The slot still holds the line the handle was taken for.
Current(slot, h) ==
  /\ slot.date = h.date /\ slot.index < Len(log[h.date])
  /\ log[h.date][slot.index + 1] = h.event

Ack(h, fails) ==
  LET slot == days[h.day]
      done == {f \in DOMAIN files :
                f[1] = h.date /\ f[2] \in Exhausted(slot.index + 1, slot.total)}
  IN /\ op.kind = "idle" /\ h.day \in 1 .. Len(days)
     /\ days' = [days EXCEPT ![h.day].index = @ + 1]
     /\ files' = [f \in DOMAIN files |->
                   IF f \in done /\ ~ fails THEN << >> ELSE files[f]]
     /\ undeleted' = IF fails THEN undeleted \cup done ELSE undeleted \ done
     /\ op' = [Idle EXCEPT !.kind = "save"]
     /\ torn' = IF Current(slot, h) THEN torn ELSE torn \cup {slot.date, h.date}
     /\ UNCHANGED <<meta, write, log>>

(***************************************************************************)
(* A power cut loses the handle; list_mgr_init reads the metadata back.    *)
(* Cut in the middle of the metadata write, the file may be empty.         *)
(***************************************************************************)
PowerCut ==
  /\ meta' \in IF op.kind = "save" THEN {meta, Blank} ELSE {meta}
  /\ days' = << >> /\ write' = FreshWrite(NoDate) /\ op' = Idle
  /\ torn' = torn \cup {d \in Dates : \/ Disagree(meta'.days, days, d)
                                     \/ /\ d \in Tracked(meta'.days) \ Tracked(days)
                                        /\ Remains(files, d)}
  /\ UNCHANGED <<files, log, undeleted>>

Load ==
  /\ days' = meta.days /\ write' = meta.write
  /\ UNCHANGED <<files, meta, op, log, torn, undeleted>>
=============================================================================
