------------------------------ MODULE OtaUpdate ------------------------------
(***************************************************************************)
(* Firmware updates as a whole: OtaModule, the web server and the MQTT     *)
(* module as its sources, the drivers they write through, and what may go  *)
(* wrong around them.  Three threads interleave: the task shared by all    *)
(* message handlers, the HTTP thread and the thread of the MQTT client.    *)
(***************************************************************************)
EXTENDS OtaWebUpload, OtaMqtt, FiniteSets

CONSTANT Faults
  \* "write"  a driver call may fail, a checksum may differ
  \* "drop"   the connection to the broker may be lost
  \* "vanish" a client may go away for good in the middle of an upload
  \* "late"   an answer may take the shared task more than 5 s
  \* "silent" a client may pause for longer than the watchdog and go on
  \* "race"   the MQTT thread may reset the upload within a handler of the shared task

ASSUME FaultsAssumption ==
  Faults \subseteq {"write", "drop", "vanish", "late", "silent", "race"}

VARIABLE gone   \* the sources whose client has gone away

vars == <<sessVars, webVars, mqttVars, gone>>

Init == SessInit /\ WebInit /\ MqttInit /\ gone = {}

-----------------------------------------------------------------------------
\* The source of the session is still at the upload it was opened for.
Working == \/ web.busy /\ web.up = sess.up /\ "web" \notin gone
           \/ mqtt.up = sess.up /\ "mqtt" \notin gone

\* A request of this source, or an answer to it, is in the inbox.
Underway(s) ==
  \E i \in DOMAIN inbox :
    \/ inbox[i].id \in {"StartRequest", "RequestDriver"} /\ inbox[i].source = s
    \/ inbox[i].id \in {"StartResponse", "DriverResponse"} /\ inbox[i].to = s

\* A deadline, of 60 s or more, passes only when nobody works, unless clients may
\* pause, and when the shared task has got through what concerns the source.
TimesOut == /\ "silent" \in Faults \/ ~Working
            /\ "late" \in Faults \/ ~Underway(sess.source)
            /\ Overdue

\* Within 5 s the shared task gets through its inbox, unless it may be late.
GivesUpWaiting == /\ "late" \in Faults \/ ~Underway("web")
                  /\ WebTimeout

\* A client that reconnects, and a tool that starts again after it aborted, find
\* the answers to the upload before gone.
Caught == "late" \in Faults \/ (task = "free" /\ ~Underway("mqtt"))

Reconnects == Caught /\ MqttReconnect

\* No handler of the MQTT module is half way in the shared task, and no other
\* thread half way in a driver call.
Apart == "race" \in Faults \/ (task = "free" /\ ~At("append"))

Session == SessionStep \/ TimesOut

WebFails == /\ "write" \in Faults
            /\ \/ WebOpenFails \/ WebAppendFails
               \/ "web" \notin gone /\ WebCloseFails

MqttFails == \/ "write" \in Faults /\ (MqttOpenFails \/ MqttAppendFails)
             \/ "write" \in Faults /\ "mqtt" \notin gone /\ (MqttCorrupt \/ MqttCloseFails)
             \/ "drop" \in Faults /\ Apart /\ MqttDisconnected

Vanishes(s) == gone' = gone \cup {s} /\ UNCHANGED <<sessVars, webVars, mqttVars>>

Vanish ==
  /\ "vanish" \in Faults
  /\ \/ At("idle") /\ web.busy /\ "web" \notin gone /\ Vanishes("web")
     \/ ThreadIdle /\ mqtt.state # "idle" /\ "mqtt" \notin gone /\ Vanishes("mqtt")

\* A new tool begins by giving up what the one before left.
Abort == Apart /\ MqttAbort /\ gone' = gone \ {"mqtt"} /\ UNCHANGED webVars

Restart ==
  /\ RebootDue \/ NullDriver
  /\ Restarts
  /\ web' = NoUpload /\ mqtt' = MqttReset /\ gone' = {}

Inner == \/ Session /\ UNCHANGED <<webVars, mqttVars, gone>>
         \/ (WebAnswered \/ WebThread \/ GivesUpWaiting) /\ UNCHANGED <<mqttVars, gone>>
         \/ (MqttTask \/ MqttThread \/ Reconnects) /\ UNCHANGED <<webVars, gone>>

WebActs == "web" \notin gone /\ WebClient /\ UNCHANGED <<mqttVars, gone>>

MqttActs == /\ "mqtt" \notin gone \/ mqtt.state = "idle"
            /\ mqtt.state = "idle" => Caught
            /\ MqttTool
            /\ gone' = gone \ {"mqtt"}
            /\ UNCHANGED webVars

Outer == \/ WebFails /\ UNCHANGED <<mqttVars, gone>>
         \/ MqttFails /\ UNCHANGED webVars /\ gone' = gone \ {"mqtt"}
         \/ WebActs \/ MqttActs \/ Abort \/ Vanish

Next == Inner \/ Outer \/ Restart

Spec == Init /\ [][Next]_vars

\* The threads get time and the tick comes every second.  A client that does
\* nothing more is one that has gone away.
FairSpec ==
  /\ Spec
  /\ WF_vars((SessionStep \/ WebAnswered \/ MqttTask) /\ Next)
  /\ WF_vars((WebThread \/ GivesUpWaiting) /\ Next)
  /\ WF_vars(MqttThread /\ Next)
  /\ SF_vars(TimesOut /\ Next)
  /\ WF_vars(Restart)
  /\ WF_vars(WebActs \/ (Vanish /\ "web" \in gone'))
  /\ WF_vars(MqttActs \/ Abort \/ (Vanish /\ "mqtt" \in gone'))

-----------------------------------------------------------------------------
(* Properties                                                              *)

MessageType ==
  [id : {"StartRequest"}, source : Sources, target : Targets, up : Nat]
  \cup [id : {"RequestDriver"}, source : Sources]
  \cup [id : {"AbortRequest"}, source : Sources, up : Nat]
  \cup [id : {"CompleteNotify"}, source : Sources, success : BOOLEAN, up : Nat]
  \cup [id : {"StartResponse"}, to : Sources, accepted : BOOLEAN]
  \cup [id : {"DriverResponse"}, to : Sources, target : Targets]
  \cup [id : {"Event"}, event : {"started", "aborted", "timeout", "complete"}]

\* The types of the state.
TypeOK ==
  /\ \/ sess = NoSession
     \/ sess \in [state : {"pending", "active", "complete"}, source : Sources,
                  target : Targets, up : Nat \ {0}]
  /\ inbox \in Seq(MessageType)
  /\ task \in {"free", "granted", "asked", "open", "opened", "reset"}
  /\ dev \in [Targets -> [open : BOOLEAN, image : Seq(Nat \X (1..Chunks)), cut : BOOLEAN, left : BOOLEAN]]
  /\ web \in [pc : {"idle", "start", "result", "driver", "open", "append", "notify"},
              busy : BOOLEAN, driver : Targets \cup {None}, seq : 0..Chunks,
              granted : BOOLEAN, startSem : BOOLEAN, driverSem : BOOLEAN,
              closed : BOOLEAN, next : 0..Chunks, up : Nat]
  /\ mqtt \in [pc : {"idle", "append", "notify", "notified", "away"},
               state : {"idle", "session", "driver", "active", "completing"},
               driver : Targets \cup {None}, done : BOOLEAN, offset : 0..Chunks, up : Nat]
  /\ meant \in Seq(Targets) /\ Len(meant) <= LastUpload
  /\ gone \subseteq Sources

\* What is announced as "Binary written and committed" (OTA_EVENT_COMPLETE) is
\* one whole image, meant for that target, whoever else tried to update it; there is
\* nothing ahead of it in the file but what a delete that failed left there.
CompleteIsWhole ==
  sess.state = "complete" =>
    /\ ~dev[sess.target].open
    /\ \E u \in Uploads : /\ meant[u] = sess.target
                          /\ dev[sess.target].image = [i \in 1..Chunks |-> <<u, i>>]

\* ferase: "Remove partial file so a corrupt binary is never used".  A file that
\* nobody writes is absent or whole, after any abort, unless a restart cut it or a
\* delete failed that should have removed what it holds.
PartialRemoved ==
  \A t \in Targets :
    dev[t].open \/ dev[t].cut \/ dev[t].left \/ dev[t].image = <<>> \/ Whole(t)

\* The sources whose next chunk goes to this target.
Writers(t) ==
  {s \in Sources \ gone :
     /\ dev[t].open
     /\ \/ /\ s = "web" /\ web.busy /\ web.pc \in {"idle", "append"}
           /\ web.driver = t
        \/ /\ s = "mqtt" /\ mqtt.state = "active" /\ mqtt.pc \in {"idle", "append"}
           /\ mqtt.up # 0 /\ mqtt.driver = t}

\* "Only one OTA session may be active at a time": two sources never write one
\* target, although each keeps the driver it was given.
OneWriter == \A t \in Targets : Cardinality(Writers(t)) <= 1

\* OTA_START_ACCEPTED is "Session granted": an upload that goes on as accepted is
\* the one its source has the session for, not an earlier one of it.
AcceptedIsGranted ==
  At("driver") /\ sess.source = "web" => sess.up = web.up

\* The abort or the end of an upload never ends the session of a later one: what a
\* source sent before it gave up is handled before what it sends afterwards.
EndsItsOwn ==
  [][(AbortRequested \/ CompleteNotified) /\ sess' # sess
       => Message.up \notin 1..(sess.up - 1)]_vars

\* The device does not crash on a driver that was cleared by another thread.
NeverNull == ~NullDriver

\* A session ends, whatever its source does: the watchdog sees to it.
SessionsEnd == sess.state # "idle" ~> sess.state = "idle"

\* "ota already in progress": what keeps later uploads out of the web server ends,
\* whatever became of the client that began it.
UploadSlotFreed == web.busy ~> ~web.busy

\* "response will come via MsgOtaEvent": while the tool that completed its upload waits
\* for the answer, the answer is still to come.
CompletionAnswered ==
  mqtt.state = "completing" =>
    \/ task = "reset"
    \/ \E i \in DOMAIN inbox : \/ inbox[i] = Notify("mqtt", TRUE, mqtt.up)
                              \/ inbox[i].id = "Event"
=============================================================================
