----------------------------- MODULE OtaSession -----------------------------
(***************************************************************************)
(* The OTA session manager (OtaModule.cpp) and the target drivers          *)
(* (targets/ota_driver_*.c).  A source asks for a session, then for the    *)
(* driver of its target, writes the image through the driver from its own  *)
(* thread, and reports the end.  OtaModule shares one task with the bus    *)
(* handlers of the sources: their messages go through one inbox.           *)
(*                                                                         *)
(* Abstracted: time (the tick may find a deadline passed at any moment the *)
(* environment allows, see Overdue), and with it MsgOtaProgress, which     *)
(* only moves the deadline; versions; the rejection of sources and targets *)
(* that are in no table, which app.cpp's tables do not produce.            *)
(***************************************************************************)
EXTENDS Naturals, Sequences

CONSTANTS
  Targets,      \* the target table
  NeedsReboot,  \* the targets whose needs_reboot is set
  Chunks,       \* the chunks of every image
  LastUpload,   \* bound: uploads started by all sources
  None

ASSUME OtaAssumption ==
  /\ NeedsReboot \subseteq Targets
  /\ Chunks \in Nat \ {0}
  /\ LastUpload \in Nat
  /\ None \notin Targets

Sources == {"web", "mqtt"}

VARIABLES
  sess,   \* _state, _active_source_id, _active_target; up: the upload it was opened for
  inbox,  \* the messages queued for the task that OtaModule shares
  task,   \* where the handler that task is running has got to
  dev,    \* the drivers' contexts and the files behind them
  meant   \* history: the target each upload was meant for

sessVars == <<sess, inbox, task, dev, meant>>

Uploads == DOMAIN meant

NoSession == [state |-> "idle", source |-> None, target |-> None, up |-> 0]
NoFile    == [open |-> FALSE, image |-> <<>>, cut |-> FALSE, left |-> FALSE]

SessInit ==
  /\ sess = NoSession
  /\ inbox = <<>>
  /\ task = "free"
  /\ dev = [t \in Targets |-> NoFile]
  /\ meant = <<>>

-----------------------------------------------------------------------------
(* Messages.  up is not in the code: it says which upload a message is of. *)

StartRequest(s, t, u)  == [id |-> "StartRequest", source |-> s, target |-> t, up |-> u]
RequestDriver(s)       == [id |-> "RequestDriver", source |-> s]
AbortRequest(s, u)     == [id |-> "AbortRequest", source |-> s, up |-> u]
Notify(s, success, u)  == [id |-> "CompleteNotify", source |-> s, success |-> success, up |-> u]
StartResponse(s, ok)   == [id |-> "StartResponse", to |-> s, accepted |-> ok]
DriverResponse(s, t)   == [id |-> "DriverResponse", to |-> s, target |-> t]
Event(e)               == [id |-> "Event", event |-> e]

Post(m) == inbox' = Append(inbox, m)

\* The task is about to handle a message of this kind.
Receives(id) == task = "free" /\ inbox # <<>> /\ Head(inbox).id = id
Message      == Head(inbox)
Answer(ms)   == inbox' = Tail(inbox) \o ms

-----------------------------------------------------------------------------
(* The drivers.  A call is one step, except that fwrite looks at is_open    *)
(* first and then appends.  image is what was written since the file was    *)
(* opened; left: ahead of it, the file still holds what a delete that       *)
(* failed should have removed; cut: a restart interrupted the writing.      *)

\* What is left after pal_spiffs_file_delete, whose result nobody looks at.  The image
\* of a target that needs a reboot is no file but a slot, begun anew.  An open file may
\* hold part of a chunk whose writing failed.
Undeleted(t) ==
  {FALSE} \cup {l \in {dev[t].left \/ dev[t].open \/ dev[t].image # <<>>} : t \notin NeedsReboot}

Opened(t)    == {[dev EXCEPT ![t] = [NoFile EXCEPT !.open = TRUE, !.left = l]] : l \in Undeleted(t)}
Closed(t)    == [dev EXCEPT ![t].open = FALSE]
Written(t, u, n) == [dev EXCEPT ![t].image = Append(@, <<u, n>>)]
\* pal_fw_update_end finds the image invalid: the slot is given up.
Refused(t)   == [dev EXCEPT ![t] = NoFile]

\* Variant of Erased: closes without removing what was written.
ErasedNever(t) == {[dev EXCEPT ![t].open = FALSE]}

\* pal_spiffs_file_delete and is_open = false, or pal_fw_update_abort.
Erased(t) == IF dev[t].open
             THEN {[dev EXCEPT ![t] = [NoFile EXCEPT !.left = l]] : l \in Undeleted(t)}
             ELSE {dev}

Whole(t) == \E u \in Uploads : dev[t].image = [i \in 1..Chunks |-> <<u, i>>]

-----------------------------------------------------------------------------
(* The handlers of OtaModule.                                              *)

\* Variant of Owns: the sender is not looked at.
OwnsAnyone(s) == TRUE

Owns(s) == sess.source = s

\* Variant of StartAccepted: a session in progress does not matter.
StartAcceptedAlways ==
  /\ Receives("StartRequest")
  /\ sess' = [state |-> "pending", source |-> Message.source,
              target |-> Message.target, up |-> Message.up]
  /\ Answer(<<StartResponse(Message.source, TRUE)>>)
  /\ UNCHANGED <<task, dev, meant>>

StartAccepted ==
  /\ Receives("StartRequest")
  /\ sess.state = "idle"
  /\ sess' = [state |-> "pending", source |-> Message.source,
              target |-> Message.target, up |-> Message.up]
  /\ Answer(<<StartResponse(Message.source, TRUE)>>)
  /\ UNCHANGED <<task, dev, meant>>

StartRejected ==
  /\ Receives("StartRequest")
  /\ sess.state # "idle"
  /\ Answer(<<StartResponse(Message.source, FALSE)>>)
  /\ UNCHANGED <<sess, task, dev, meant>>

GrantsDriver == sess.state = "pending" /\ Owns(Message.source)

DriverRequested ==
  /\ Receives("RequestDriver")
  /\ IF GrantsDriver
     THEN /\ sess' = [sess EXCEPT !.state = "active"]
          /\ Answer(<<DriverResponse(sess.source, sess.target), Event("started")>>)
     ELSE Answer(<<>>) /\ UNCHANGED sess
  /\ UNCHANGED <<task, dev, meant>>

\* _enter_aborting, _reset_session
Abandon(sofar) ==
  /\ dev' \in Erased(sess.target)
  /\ sess' = NoSession
  /\ inbox' = sofar \o <<Event("aborted")>>

Aborts == Owns(Message.source) /\ sess.state \in {"pending", "active"}

AbortRequested ==
  /\ Receives("AbortRequest")
  /\ IF Aborts THEN Abandon(Tail(inbox)) ELSE Answer(<<>>) /\ UNCHANGED <<sess, dev>>
  /\ UNCHANGED <<task, meant>>

Completes == Owns(Message.source) /\ sess.state = "active"

CompleteNotified ==
  /\ Receives("CompleteNotify")
  /\ CASE Completes /\ Message.success ->
            /\ sess' = [sess EXCEPT !.state = "complete"]
            /\ Answer(<<Event("complete")>>)
            /\ UNCHANGED dev
       [] Completes /\ ~Message.success -> Abandon(Tail(inbox))
       [] OTHER -> Answer(<<>>) /\ UNCHANGED <<sess, dev>>
  /\ UNCHANGED <<task, meant>>

\* Variant of Watched: nobody looks after a source that never asks for the driver.
WatchedActive == {"active"}

\* The states whose deadline _handle_tick looks at.
Watched == {"pending", "active"}

\* _handle_tick with the deadline passed; which is when, the environment says.
Overdue ==
  /\ task = "free"
  /\ sess.state \in Watched
  /\ Abandon(Append(inbox, Event("timeout")))
  /\ UNCHANGED <<task, meant>>

\* _handle_tick 2 s after completion, for a target that needs no reboot.
Settle ==
  /\ task = "free"
  /\ sess.state = "complete"
  /\ sess.target \notin NeedsReboot
  /\ sess' = NoSession
  /\ UNCHANGED <<inbox, task, dev, meant>>

\* pal_power_reset, or a crash: the files stay, everything else is as after start-up.
Restarts ==
  /\ sess' = NoSession
  /\ inbox' = <<>>
  /\ task' = "free"
  /\ dev' = [t \in Targets |-> [dev[t] EXCEPT !.open = FALSE, !.cut = @ \/ dev[t].open]]
  /\ UNCHANGED meant

RebootDue == task = "free" /\ sess.state = "complete" /\ sess.target \in NeedsReboot

SessionStep ==
  \/ StartAccepted \/ StartRejected \/ DriverRequested
  \/ AbortRequested \/ CompleteNotified \/ Settle
=============================================================================
