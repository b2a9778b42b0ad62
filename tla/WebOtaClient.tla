---------------------------- MODULE WebOtaClient ----------------------------
(***************************************************************************)
(* The web OTA client (ModuleWebClientOta.cpp): at every interval it asks  *)
(* the update server, through the HTTP module, about one of the targets in *)
(* turn; when there is an update it asks OtaModule for a session and for   *)
(* the driver, and downloads the image through the HTTP module into the    *)
(* driver.  It runs in the task OtaModule runs in.                         *)
(*                                                                         *)
(* Abstracted: the configuration and the cloud registration, which the     *)
(* first tick waits for and which stay; the time without internet, when    *)
(* ticks are not counted; versions, URLs and checksums.                    *)
(***************************************************************************)
EXTENDS HttpClient

CONSTANTS
  Slots,      \* _targets: the targets asked about, in turn
  LastCheck   \* bound: checks begun

ASSUME SlotsAssumption == Slots \in Seq(Targets) /\ Slots # <<>> /\ LastCheck \in Nat

VARIABLES
  ota,     \* _state, _http_phase, _active_slot, _next_slot, _dl_drv's target, and the
           \* job in whose answer the update was found
  checks   \* checks begun so far

otaVars == <<ota, checks>>

OtaInit ==
  /\ ota = [state |-> "idle", phase |-> "idle", slot |-> 1, next |-> 1, up |-> 0,
            found |-> None, driver |-> None]
  /\ checks = 0

CheckJob(slot)  == [kind |-> "check", slot |-> slot]
ImageJob(slot)  == [kind |-> "image", slot |-> slot]

Following(slot) == (slot % Len(Slots)) + 1

\* Variant of Idle: _http_phase is not reset.
IdlePhaseKept(o) == [o EXCEPT !.state = "idle", !.found = None]

Idle(o) == [o EXCEPT !.state = "idle", !.phase = "idle", !.found = None]

\* The next check is about the next target.
Rotated(o) == [Idle(o) EXCEPT !.next = Following(o.next)]

-----------------------------------------------------------------------------
(* Requests to the HTTP module.  The messages of a burst are put in its    *)
(* inbox one by one, here in one step: what another client puts between    *)
(* them is answered like what it puts before the first.                    *)

CheckBurst(slot) ==
  [i \in 1..4 |-> Part("ota", <<"ca", "url", "header", "body">>[i], CheckJob(slot))]
    \o <<Send("ota")>>

ImageBurst(slot, t, u) ==
  <<Part("ota", "ca", ImageJob(slot)), Sink("ota", t, u, ImageJob(slot)),
    Part("ota", "url", ImageJob(slot)), Send("ota")>>

\* MsgTick1000ms when the interval is over: _send_http_start.
OtaTick ==
  /\ task = "free"
  /\ ota.state = "idle" /\ ota.phase = "idle"
  /\ checks < LastCheck /\ checks' = checks + 1
  /\ ota' = [ota EXCEPT !.state = "check", !.phase = "starting", !.slot = ota.next]
  /\ asks' = Append(asks, Start("ota", CheckJob(ota.next)))
  /\ UNCHANGED <<sessVars, http, timer, mail>>

-----------------------------------------------------------------------------
(* Answers of the HTTP module.                                             *)

Mailed(id) == task = "free" /\ mail["ota"] # <<>> /\ Head(mail["ota"]).id = id
Mail       == Head(mail["ota"])
MailTaken  == mail' = [mail EXCEPT !["ota"] = Tail(@)]

OpeningIgnored ==
  /\ Mailed("StartResponse")
  /\ ota.phase # "starting"
  /\ MailTaken
  /\ UNCHANGED <<sessVars, http, asks, timer, otaVars>>

CheckBusy ==
  /\ Mailed("StartResponse") /\ ~Mail.ok
  /\ ota.phase = "starting" /\ ota.state = "check"
  /\ MailTaken
  /\ ota' = Idle(ota)
  /\ UNCHANGED <<sessVars, http, asks, timer, checks>>

ImageBusy ==
  /\ Mailed("StartResponse") /\ ~Mail.ok
  /\ ota.phase = "starting" /\ ota.state = "download"
  /\ MailTaken
  /\ dev' \in Erased(ota.driver)
  /\ Post(Notify("ota", FALSE, ota.up))
  /\ ota' = Rotated(ota)
  /\ UNCHANGED <<sess, task, meant, http, asks, timer, checks>>

OpeningGranted ==
  /\ Mailed("StartResponse") /\ Mail.ok
  /\ ota.phase = "starting" /\ ota.state \in {"check", "download"}
  /\ MailTaken
  /\ asks' = asks \o IF ota.state = "check" THEN CheckBurst(ota.slot)
                     ELSE ImageBurst(ota.slot, ota.driver, ota.up)
  /\ ota' = [ota EXCEPT !.phase = "executing"]
  /\ UNCHANGED <<sessVars, http, timer, checks>>

\* MsgHttpResult in a state that waits for none.
ResultIgnored ==
  /\ Mailed("Result")
  /\ ota.state \notin {"check", "download"}
  /\ MailTaken
  /\ UNCHANGED <<sessVars, http, asks, timer, otaVars>>

\* No answer, no body, a body that does not parse, or the version is current.
CheckIsOver ==
  /\ Mailed("Result")
  /\ ota.state = "check"
  /\ MailTaken
  /\ ota' = Rotated(ota)
  /\ UNCHANGED <<sessVars, http, asks, timer, checks>>

\* Variant of HasBody: success is enough.
HasBodyAnyway == Mail.ok

HasBody == Mail.ok /\ Mail.body

\* There is an update: ask OtaModule for a session.
UpdateFound ==
  /\ Mailed("Result") /\ HasBody
  /\ ota.state = "check"
  /\ Len(meant) < LastUpload
  /\ MailTaken
  /\ meant' = Append(meant, Slots[ota.slot])
  /\ Post(StartRequest("ota", Slots[ota.slot], Len(meant) + 1))
  /\ ota' = [ota EXCEPT !.state = "session", !.phase = "idle",
                        !.up = Len(meant) + 1, !.found = Mail.job]
  /\ UNCHANGED <<sess, task, dev, http, asks, timer, checks>>

DownloadIsOver ==
  /\ Mailed("Result")
  /\ ota.state = "download"
  /\ MailTaken
  /\ Post(Notify("ota", Mail.ok, ota.up))
  /\ ota' = [Rotated(ota) EXCEPT !.driver = None]
  /\ UNCHANGED <<sess, task, dev, meant, http, asks, timer, checks>>

-----------------------------------------------------------------------------
(* Answers of OtaModule.                                                   *)

\* What the client, or another module of the task, does not wait for.
AnswerIgnored ==
  /\ task = "free" /\ inbox # <<>>
  /\ Message.id \in {"StartResponse", "DriverResponse", "Event"}
  /\ Message.id = "StartResponse" => ota.state # "session"
  /\ Message.id = "DriverResponse" => ota.state # "driver"
  /\ Answer(<<>>)
  /\ UNCHANGED <<sess, task, dev, meant, httpVars, otaVars>>

SessionAccepted ==
  /\ Receives("StartResponse") /\ Message.accepted
  /\ ota.state = "session"
  /\ Answer(<<RequestDriver("ota")>>)
  /\ ota' = [ota EXCEPT !.state = "driver"]
  /\ UNCHANGED <<sess, task, dev, meant, httpVars, checks>>

SessionRejected ==
  /\ Receives("StartResponse") /\ ~Message.accepted
  /\ ota.state = "session"
  /\ Answer(<<>>)
  /\ ota' = Rotated(ota)
  /\ UNCHANGED <<sess, task, dev, meant, httpVars, checks>>

DriverArrives ==
  /\ Receives("DriverResponse")
  /\ ota.state = "driver"
  /\ Answer(<<>>)
  /\ ota' = [ota EXCEPT !.state = "download", !.phase = "starting", !.driver = Message.target]
  /\ asks' = Append(asks, Start("ota", ImageJob(ota.slot)))
  /\ UNCHANGED <<sess, task, dev, meant, http, timer, mail, checks>>

-----------------------------------------------------------------------------
(* MsgInternetStatus: the client forgets what it was doing, and tells no one. *)

InternetLost ==
  /\ task = "free"
  /\ ota.state # "idle"
  /\ ota' = Idle(ota)
  /\ UNCHANGED <<sessVars, httpVars, checks>>

OtaHandles ==
  \/ OpeningIgnored \/ CheckBusy \/ ImageBusy \/ OpeningGranted
  \/ ResultIgnored \/ CheckIsOver \/ DownloadIsOver
  \/ AnswerIgnored \/ SessionAccepted \/ SessionRejected \/ DriverArrives
=============================================================================
