----------------------------- MODULE HttpClient -----------------------------
(***************************************************************************)
(* The HTTP client module (module_http.cpp): one task, one session at a    *)
(* time.  A client opens a session, sets the parts of its request one      *)
(* message at a time and sends it; the request is executed in the task     *)
(* itself, which handles nothing else meanwhile.  A session nobody goes on *)
(* with is given up by an idle timer, whose callback runs in another task. *)
(* A request whose body is a firmware image streams it into the driver of  *)
(* the target, which OtaSession may erase from its own task.               *)
(*                                                                         *)
(* Abstracted: what the parts contain (each remembers the job it was set   *)
(* for), the limits on their lengths, and the answers to the messages that *)
(* set them and the collected response headers, which no client reads.     *)
(***************************************************************************)
EXTENDS OtaSession, FiniteSets

CONSTANT Clients   \* the modules that open sessions

VARIABLES
  http,   \* _state, _owner_id, what the session was opened for and the parts set
  asks,   \* the messages queued for the task of the HTTP module
  timer,  \* the idle timer: armed, and _idle_expired
  mail    \* what the module has sent to each client and the client has not handled

httpVars == <<http, asks, timer, mail>>

NoSink == [target |-> None, up |-> 0, next |-> 0, opened |-> FALSE, error |-> FALSE]

Unowned == [state |-> "idle", owner |-> None, job |-> None, parts |-> {}, sink |-> NoSink]

HttpInit ==
  /\ http = Unowned
  /\ asks = <<>>
  /\ timer = [armed |-> FALSE, expired |-> FALSE]
  /\ mail = [c \in Clients |-> <<>>]

Start(c, job)      == [id |-> "Start", from |-> c, job |-> job]
Part(c, part, job) == [id |-> "Part", from |-> c, part |-> part, job |-> job]
Sink(c, t, u, job) == [id |-> "Sink", from |-> c, target |-> t, up |-> u, job |-> job]
Send(c)            == [id |-> "Send", from |-> c]
WakeUp             == [id |-> "Wake", from |-> None]

Opening(ok)        == [id |-> "StartResponse", ok |-> ok]
Result(r, body)    == [id |-> "Result", ok |-> r = "ok", expired |-> r = "expired",
                       body |-> body, job |-> http.job]

Tell(c, m) == mail' = [mail EXCEPT ![c] = Append(@, m)]

-----------------------------------------------------------------------------
(* The handlers of the task.                                               *)

Asked(id) == http.state # "executing" /\ asks # <<>> /\ Head(asks).id = id
Ask       == Head(asks)

\* Variant of IsOwner: any client may go on with an open session.
IsOwnerAnyone == http.state # "idle"

IsOwner == http.state # "idle" /\ Ask.from = http.owner

\* The timer is started again; what it has already queued stays queued.
ResetIdleTimer == timer' = [timer EXCEPT !.armed = TRUE]

StartRefused ==
  /\ Asked("Start")
  /\ http.state # "idle"
  /\ Tell(Ask.from, Opening(FALSE))
  /\ asks' = Tail(asks)
  /\ UNCHANGED <<http, timer, sessVars>>

StartGranted ==
  /\ Asked("Start")
  /\ http.state = "idle"
  /\ http' = [Unowned EXCEPT !.state = "open", !.owner = Ask.from, !.job = Ask.job]
  /\ ResetIdleTimer
  /\ Tell(Ask.from, Opening(TRUE))
  /\ asks' = Tail(asks)
  /\ UNCHANGED <<sessVars>>

NotOwner ==
  /\ Asked("Part") \/ Asked("Sink") \/ Asked("Send")
  /\ ~IsOwner
  /\ asks' = Tail(asks)
  /\ UNCHANGED <<http, timer, mail, sessVars>>

\* _handle_set_url, _handle_set_root_ca and _handle_body replace what was set;
\* _handle_header adds to it.
With(parts, m) ==
  {p \in parts : m.part = "header" \/ p.part # m.part} \cup {[part |-> m.part, job |-> m.job]}

PartSet ==
  /\ Asked("Part")
  /\ IsOwner
  /\ http' = [http EXCEPT !.parts = With(@, Ask)]
  /\ ResetIdleTimer
  /\ asks' = Tail(asks)
  /\ UNCHANGED <<mail, sessVars>>

SinkSet ==
  /\ Asked("Sink")
  /\ IsOwner
  /\ http' = [http EXCEPT !.parts = With(@, [part |-> "sink", job |-> Ask.job]),
                          !.sink = [NoSink EXCEPT !.target = Ask.target, !.up = Ask.up]]
  /\ ResetIdleTimer
  /\ asks' = Tail(asks)
  /\ UNCHANGED <<mail, sessVars>>

SendAsked ==
  /\ Asked("Send")
  /\ IsOwner
  /\ http' = [http EXCEPT !.state = "executing"]
  /\ timer' = [timer EXCEPT !.armed = FALSE]
  /\ asks' = Tail(asks)
  /\ UNCHANGED <<mail, sessVars>>

-----------------------------------------------------------------------------
(* The idle timer.                                                         *)

\* What on_wake gives up: whichever session is open by now.
Woken == timer.expired /\ http.state = "open"

\* The callback: _on_idle_timer_fired.
IdleTimerFires ==
  /\ timer.armed
  /\ timer' = [armed |-> FALSE, expired |-> TRUE]
  /\ asks' = Append(asks, WakeUp)
  /\ UNCHANGED <<http, mail, sessVars>>

OnWake ==
  /\ Asked("Wake")
  /\ asks' = Tail(asks)
  /\ timer' = [timer EXCEPT !.expired = FALSE]
  /\ IF Woken
     THEN Tell(http.owner, Result("expired", FALSE)) /\ http' = Unowned
     ELSE UNCHANGED <<http, mail>>
  /\ UNCHANGED <<sessVars>>

-----------------------------------------------------------------------------
(* _execute: the buffered path.                                            *)

Executing == http.state = "executing"
Streaming == Executing /\ http.sink.target # None

Finish(r, body) == Tell(http.owner, Result(r, body)) /\ http' = Unowned

\* The server carries the job out and its answer arrives.
Answered ==
  /\ Executing /\ ~Streaming
  /\ Finish("ok", TRUE)
  /\ UNCHANGED <<asks, timer, sessVars>>

\* No connection, a refusal, or an answer that does not arrive.
Failed ==
  /\ Executing /\ ~Streaming
  /\ Finish("failed", FALSE)
  /\ UNCHANGED <<asks, timer, sessVars>>

-----------------------------------------------------------------------------
(* _execute: the body goes to the driver chunk by chunk.                   *)

Stream == http.sink

\* The first chunk opens the file: drv->fopen.
StreamOpens ==
  /\ Streaming /\ ~Stream.opened /\ ~Stream.error
  /\ dev' \in Opened(Stream.target)
  /\ http' = [http EXCEPT !.sink.opened = TRUE]
  /\ UNCHANGED <<sess, inbox, task, meant, asks, timer, mail>>

\* drv->fwrite, which refuses when the file is not open any more.
StreamWrites ==
  /\ Streaming /\ Stream.opened /\ ~Stream.error
  /\ Stream.next < Chunks
  /\ IF dev[Stream.target].open
     THEN /\ dev' = Written(Stream.target, Stream.up, Stream.next + 1)
          /\ http' = [http EXCEPT !.sink.next = @ + 1]
     ELSE /\ http' = [http EXCEPT !.sink.error = TRUE]
          /\ UNCHANGED dev
  /\ UNCHANGED <<sess, inbox, task, meant, asks, timer, mail>>

\* Variant of StreamWhole: the transfer ended, whatever became of the writes.
StreamWholeAnyway == Stream.next > 0

\* Every byte came, was written and has the expected checksum.
StreamWhole == Stream.next = Chunks /\ ~Stream.error

StreamCloses ==
  /\ Streaming /\ StreamWhole
  /\ IF dev[Stream.target].open
     THEN dev' = Closed(Stream.target) /\ Finish("ok", FALSE)
     ELSE UNCHANGED dev /\ Finish("failed", FALSE)
  /\ UNCHANGED <<sess, inbox, task, meant, asks, timer>>

\* pal_fw_update_end finds the image invalid; ferase finds nothing more to do.
StreamCloseFails ==
  /\ Streaming /\ StreamWhole
  /\ Stream.target \in NeedsReboot /\ dev[Stream.target].open
  /\ dev' = Refused(Stream.target)
  /\ Finish("failed", FALSE)
  /\ UNCHANGED <<sess, inbox, task, meant, asks, timer>>

\* The connection, the driver or the checksum failed: what was written is erased.
StreamFails ==
  /\ Streaming
  /\ dev' \in IF Stream.opened THEN Erased(Stream.target) ELSE {dev}
  /\ Finish("failed", FALSE)
  /\ UNCHANGED <<sess, inbox, task, meant, asks, timer>>

\* A write that failed makes the transfer fail.
StreamGivesUp == Stream.error /\ StreamFails

Handles == \/ StartRefused \/ StartGranted \/ NotOwner \/ PartSet \/ SinkSet
           \/ SendAsked \/ OnWake

Executes == \/ Answered \/ StreamOpens \/ StreamWrites \/ StreamCloses \/ StreamGivesUp
=============================================================================
