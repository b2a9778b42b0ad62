--------------------------- MODULE Retransmission ---------------------------
(***************************************************************************)
(* The retransmission path of ModuleCubeSphere on top of ListManager: fuel *)
(* transactions that cannot be posted at once are stored on the SD card by *)
(* _retx_store_pumped and posted later, one at a time, by                  *)
(* _retx_try_send_one.  The post is asynchronous: the read handle is kept  *)
(* until the result comes, and the line is acknowledged only then.         *)
(*                                                                         *)
(* The module runs in one task, so a handler is interrupted by nothing but *)
(* a power cut: an operation of the list manager that has begun (op) is    *)
(* finished before anything else happens.  Abstracted: whether the system  *)
(* is idle, online and registered, which only decides when TrySend may run *)
(* (MsgSystemStatus may come at any time, the tick every minute);          *)
(* which other event _start_next_event picks; retx_mgr_process, whose send *)
(* callback is a stub that always fails, and which therefore changes       *)
(* nothing but its own cooldown.                                           *)
(***************************************************************************)
EXTENDS ListManager, FiniteSets

CONSTANTS Unusable,     \* events of a nozzle that is not configured
          MaxCuts,      \* bound: power cuts
          Faults        \* which of "append", "save", "delete", "busy", "rollover" may happen

VARIABLES next,         \* the events stored so far are 1 .. next - 1
          cuts,
          ready,        \* _retx_ready
          phase,        \* _http_phase
          cur,          \* _cur_evt: "none", "retx" or "other"
          inProgress,   \* _retx_in_progress
          lastFailed,   \* _retx_last_send_failed
          handle,       \* _retx_pending_rh
          taken,        \* the cloud has accepted the request in flight
          sent          \* history: the events the cloud has accepted

netVars == <<phase, cur, inProgress, lastFailed, handle, taken>>
vars == <<listVars, next, cuts, ready, netVars, sent>>

Init ==
  /\ ListInit
  /\ next = 1 /\ cuts = 0 /\ ready = TRUE
  /\ phase = "IDLE" /\ cur = "none" /\ inProgress = FALSE /\ lastFailed = FALSE
  /\ handle = NoHandle /\ taken = FALSE
  /\ sent = {}

\* Whether delete_file fails, and at which file of a dropped day.
Fails == IF "delete" \in Faults THEN BOOLEAN ELSE {FALSE}
StopsAt == IF "delete" \in Faults THEN 0 .. MaxSeq + 1 ELSE {MaxSeq + 1}

Free == op.kind = "idle" /\ ready

(***************************************************************************)
(* Storing                                                                 *)
(***************************************************************************)

\* _retx_store_pumped: the date is what the clock says, which may be any.
\* Without "rollover" the clock does not change while a post is in flight.
Store(d) ==
  /\ Free /\ next \in Events
  /\ "rollover" \in Faults \/ ~ inProgress \/ ~ DayChanges(d)
  /\ (\E n \in StopsAt : AddNewDay(d, next, n)) \/ AddSameDay(d, next)
  /\ next' = next + 1
  /\ UNCHANGED <<cuts, ready, netVars, sent>>

\* The storage calls of the operation in progress.
Storage ==
  /\ \/ AddAppend
     \/ "append" \in Faults /\ AddFails
     \/ Save
     \/ "save" \in Faults /\ SaveFails
  /\ UNCHANGED <<next, cuts, ready, netVars, sent>>

(***************************************************************************)
(* Posting                                                                 *)
(***************************************************************************)

\* The guards of _retx_try_send_one.
MaySend == Free /\ ~ inProgress /\ ~ lastFailed /\ phase = "IDLE" /\ PeekOK

TrySend ==
  /\ MaySend /\ Peek.event \notin Unusable
  /\ handle' = Peek /\ inProgress' = TRUE /\ cur' = "retx"
  /\ phase' = "STARTING"
  /\ UNCHANGED <<listVars, next, cuts, ready, lastFailed, taken, sent>>

\* A record of an unconfigured nozzle is acknowledged without being sent.
Discard ==
  /\ MaySend /\ Peek.event \in Unusable
  /\ \E fails \in Fails : Ack(Peek, fails)
  /\ UNCHANGED <<next, cuts, ready, netVars, sent>>

\* _start_next_event posts a heartbeat, a live transaction or another event.
OtherEvent ==
  /\ Free /\ phase = "IDLE"
  /\ phase' = "STARTING" /\ cur' = "other"
  /\ UNCHANGED <<listVars, next, cuts, ready, inProgress, lastFailed, handle, taken, sent>>

\* _on_http_start_response
Started ==
  /\ Free /\ phase = "STARTING"
  /\ phase' = "EXECUTING" /\ taken' = FALSE
  /\ UNCHANGED <<listVars, next, cuts, ready, cur, inProgress, lastFailed, handle, sent>>

\* HTTP_SESSION_BUSY: another module has the session.
StartBusy ==
  /\ "busy" \in Faults /\ Free /\ phase = "STARTING"
  /\ phase' = "IDLE"
  /\ UNCHANGED <<listVars, next, cuts, ready, cur, inProgress, lastFailed, handle, taken, sent>>

\* The server processes the request; its answer may still be lost.
CloudAccepts ==
  /\ phase = "EXECUTING" /\ ~ taken
  /\ taken' = TRUE
  /\ sent' = IF cur = "retx" THEN sent \cup {handle.event} ELSE sent
  /\ UNCHANGED <<listVars, next, cuts, ready, phase, cur, inProgress, lastFailed, handle>>

\* (variant: the line is acknowledged whatever the answer was)
ResultEager(ok) ==
  /\ Free /\ phase = "EXECUTING" /\ (ok => taken)
  /\ phase' = "IDLE" /\ cur' = "none"
  /\ inProgress' = IF cur = "retx" THEN FALSE ELSE inProgress
  /\ lastFailed' = IF cur = "retx" /\ ~ ok THEN TRUE ELSE lastFailed
  /\ IF cur = "retx" THEN \E fails \in Fails : Ack(handle, fails) ELSE UNCHANGED listVars
  /\ UNCHANGED <<next, cuts, ready, handle, taken, sent>>

\* (variant: only a success ends the transmission)
ResultSticky(ok) ==
  /\ Free /\ phase = "EXECUTING" /\ (ok => taken)
  /\ phase' = "IDLE" /\ cur' = "none"
  /\ inProgress' = IF cur = "retx" /\ ok THEN FALSE ELSE inProgress
  /\ lastFailed' = IF cur = "retx" /\ ~ ok THEN TRUE ELSE lastFailed
  /\ IF cur = "retx" /\ ok THEN \E fails \in Fails : Ack(handle, fails) ELSE UNCHANGED listVars
  /\ UNCHANGED <<next, cuts, ready, handle, taken, sent>>

\* _on_http_result, _on_event_result
Result(ok) ==
  /\ Free /\ phase = "EXECUTING" /\ (ok => taken)
  /\ phase' = "IDLE" /\ cur' = "none"
  /\ inProgress' = IF cur = "retx" THEN FALSE ELSE inProgress
  /\ lastFailed' = IF cur = "retx" /\ ~ ok THEN TRUE ELSE lastFailed
  /\ IF cur = "retx" /\ ok THEN \E fails \in Fails : Ack(handle, fails) ELSE UNCHANGED listVars
  /\ UNCHANGED <<next, cuts, ready, handle, taken, sent>>

\* _on_tick, once a minute; its own attempt to send is TrySend.
Tick ==
  /\ Free /\ lastFailed /\ lastFailed' = FALSE
  /\ UNCHANGED <<listVars, next, cuts, ready, phase, cur, inProgress, handle, taken, sent>>

(***************************************************************************)
(* Power                                                                   *)
(***************************************************************************)
Cut ==
  /\ ready /\ cuts < MaxCuts /\ cuts' = cuts + 1
  /\ PowerCut
  /\ ready' = FALSE
  /\ phase' = "IDLE" /\ cur' = "none" /\ inProgress' = FALSE /\ lastFailed' = FALSE
  /\ handle' = NoHandle /\ taken' = FALSE
  /\ UNCHANGED <<next, sent>>

\* _on_sd_ready, _retx_init
SdReady ==
  /\ ~ ready /\ ready' = TRUE
  /\ Load
  /\ UNCHANGED <<next, cuts, netVars, sent>>

Next ==
  \/ \E d \in Dates : Store(d)
  \/ Storage
  \/ TrySend \/ Discard \/ OtherEvent
  \/ Started \/ StartBusy \/ CloudAccepts
  \/ \E ok \in BOOLEAN : Result(ok)
  \/ Tick
  \/ Cut \/ SdReady

Spec == Init /\ [][Next]_vars

\* The card answers, the HTTP module answers, the minute passes, and the
\* server accepts a request that is tried again and again.
FairSpec ==
  /\ Spec
  /\ WF_vars(AddAppend /\ Storage) /\ WF_vars(Save /\ Storage)
  /\ WF_vars(SdReady) /\ WF_vars(Started) /\ WF_vars(Tick)
  /\ WF_vars(\E ok \in BOOLEAN : Result(ok))
  /\ SF_vars(cur = "retx" /\ CloudAccepts) /\ SF_vars(cur = "retx" /\ Result(TRUE))
  /\ SF_vars(TrySend) /\ SF_vars(Discard)

-----------------------------------------------------------------------------
(***************************************************************************)
(* Properties                                                              *)
(***************************************************************************)

TypeOK ==
  /\ files \in [Dates \X (0 .. MaxSeq) -> Seq(Events)]
  /\ \A m \in {meta, [days |-> days, write |-> write]} :
       /\ m.days \in Seq([date : Dates, total : Nat, index : Nat])
       /\ Len(m.days) <= MaxDays
       /\ m.write \in [date : Dates \cup {NoDate}, seq : Nat, lines : 0 .. MaxLines]
  /\ op \in [kind : {"idle", "append", "save"}, date : Dates \cup {NoDate},
             event : Events \cup {NoEvent}]
  /\ phase \in {"IDLE", "STARTING", "EXECUTING"} /\ cur \in {"none", "retx", "other"}
  /\ {ready, inProgress, lastFailed, taken} \subseteq BOOLEAN
  /\ handle \in [day : 0 .. MaxDays, date : Dates \cup {NoDate}, line : Nat,
                 event : Events \cup {NoEvent}]
  /\ sent \subseteq Events /\ torn \subseteq Dates
  /\ undeleted \subseteq DOMAIN files

\* The tables that count: the handle's, or the card's until it is loaded.
Table == IF ready THEN days ELSE meta.days

\* Of a day that met no accident, the counters say exactly what was stored,
\* and the index arithmetic of list_mgr_peek_next finds every line that is
\* left, in every file of the day, whatever was consumed, deleted, expired
\* or reloaded since.
QueueExact ==
  \A i \in 1 .. Len(Table) :
    LET t == Table[i] IN
    t.date \notin torn =>
      /\ t.total = Len(log[t.date]) /\ t.index <= t.total
      /\ \A k \in t.index .. t.total - 1 : LineAt(t.date, k) = log[t.date][k + 1]

\* A line is consumed only after the cloud confirmed it or because it can
\* never be sent.
ConsumedWasSent ==
  \A i \in 1 .. Len(Table) :
    LET t == Table[i] IN
    t.date \notin torn =>
      \A k \in 1 .. t.index : log[t.date][k] \in sent \cup Unusable

\* Consumed files are deleted during the drain and expired days leave
\* nothing on the card: a file holds a line only of a day that is tracked
\* and only until the last line of the file, or of the day, is consumed,
\* unless deleting this file failed, or one before it of an expired day.
NoOrphanFiles ==
  \A d \in Dates \ torn, s \in 0 .. MaxSeq :
    files[<<d, s>>] # << >> /\ <<d, s>> \notin undeleted =>
      \E i \in 1 .. Len(Table) :
        /\ Table[i].date = d
        /\ Table[i].index < (s + 1) * MaxLines /\ Table[i].index < Table[i].total

\* The events a reader of the card will be handed, oldest day first.
LeftOf(t) == [n \in 1 .. t.total - t.index |-> LineAt(t.date, t.index + n - 1)]
Queue == FlattenSeq([i \in 1 .. Len(Table) |-> LeftOf(Table[Len(Table) + 1 - i])])

Promise == INSTANCE RetxQueueSpec WITH queue <- Queue

\* As long as no day met an accident, what a reader would be handed changes
\* as a first-in first-out queue does: across files, days, the expiry of a
\* day and restarts between two operations.
FifoUntilTorn == [][torn' = {} => Promise!Next]_Queue

\* Every event on the card is handed out in the end, or its day expires.
EventuallyHandedOut ==
  \A e \in Events :
    e \in Range(Queue) ~> (e \notin Range(Queue) \/ torn # {})

(***************************************************************************)
(* Statements of the documents and comments that do not hold               *)
(***************************************************************************)

\* list_manager.h:69: "Peek Next: Returns next unprocessed line."
PeekFindsNext == Free /\ Pending => PeekOK

\* list_manager.cpp:310-312: "Save metadata on every write so total_lines
\* survives a power loss."
TotalsSurvive ==
  Free => \A i \in 1 .. Len(days) : days[i].total = Len(log[days[i].date])

\* module_cubesphere.cpp:900: "Acknowledge only after the HTTP response
\* confirms success."
AckedWasConfirmed ==
  \A i \in 1 .. Len(days) :
    \A k \in (1 .. days[i].index) \cap DOMAIN log[days[i].date] :
      log[days[i].date][k] \in sent \cup Unusable

\* module_cubesphere.h:193: "True while an EVT_PUMPED_RETX HTTP send is live"
InProgressMeansLive == inProgress => phase # "IDLE" /\ cur = "retx"

\* list_manager.h:69: "Starts from day_0, moves to day_1 when day_0 is done."
DayZeroFirst == Free /\ Pending /\ HasMore(1) => Peek.day = 1
=============================================================================
