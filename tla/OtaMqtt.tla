------------------------------- MODULE OtaMqtt -------------------------------
(***************************************************************************)
(* The MQTT module as a source of images (ModuleMqtt.cpp).  The commands   *)
(* (ota_start, the chunks, ota_complete, ota_abort) and a lost connection  *)
(* are handled in the thread of the MQTT client; the answers of OtaModule  *)
(* in the task it shares with OtaModule.  Both read and write _ota_state   *)
(* and _ota_driver without a lock, so the handlers are cut where the other *)
(* thread's accesses make a difference.                                    *)
(*                                                                         *)
(* The tool keeps to the protocol.  A command refused in its state changes *)
(* nothing and is left out, as are the texts sent back and the failure to  *)
(* allocate a message.                                                     *)
(***************************************************************************)
EXTENDS OtaSession

VARIABLE mqtt

mqttVars == <<mqtt>>

MqttReset ==
  [pc     |-> "idle",   \* the thread of the MQTT client
   state  |-> "idle",   \* _ota_state
   driver |-> None,     \* _ota_driver, _ota_ctx
   done   |-> FALSE,    \* _ota_fopen_done
   offset |-> 0,        \* _ota_expected_offset, in chunks
   up     |-> 0]        \* the upload the tool has in progress

MqttInit == mqtt = MqttReset

MqttFrame == UNCHANGED <<sess, task, meant>>

ThreadIdle == mqtt.pc = "idle"

-----------------------------------------------------------------------------
(* The thread of the MQTT client                                           *)

\* _handle_ota_ctrl, "ota_start"
MqttStart(t) ==
  /\ ThreadIdle /\ mqtt.state = "idle"
  /\ Len(meant) < LastUpload
  /\ meant' = Append(meant, t)
  /\ mqtt' = [mqtt EXCEPT !.state = "session", !.up = Len(meant) + 1]
  /\ Post(StartRequest("mqtt", t, Len(meant) + 1))
  /\ UNCHANGED <<sess, task, dev>>

\* ferase, when there is something to erase.
MqttErased == IF mqtt.done /\ mqtt.driver # None THEN Erased(mqtt.driver) ELSE {dev}

\* _handle_ota_ctrl, "ota_abort"
MqttAbort ==
  /\ ThreadIdle /\ mqtt.state # "idle"
  /\ dev' \in MqttErased
  /\ Post(AbortRequest("mqtt", mqtt.up))
  /\ mqtt' = MqttReset
  /\ MqttFrame

\* _on_pal_disconnected: before the driver is open, no one is told.
MqttDisconnected ==
  /\ ThreadIdle /\ mqtt.state # "idle"
  /\ IF mqtt.state \in {"active", "completing"}
     THEN dev' \in MqttErased /\ Post(AbortRequest("mqtt", mqtt.up))
     ELSE UNCHANGED <<dev, inbox>>
  /\ mqtt' = [MqttReset EXCEPT !.pc = "away"]
  /\ MqttFrame

\* The client of the platform reconnects after reconnect_timeout_ms, 5 s.
MqttReconnect ==
  /\ mqtt.pc = "away"
  /\ mqtt' = [mqtt EXCEPT !.pc = "idle"]
  /\ UNCHANGED <<inbox, dev>> /\ MqttFrame

\* The tool sends a chunk, or the broker delivers one twice.
Chunk(n) == ThreadIdle /\ mqtt.state = "active" /\ mqtt.up # 0 /\ n \in 0..mqtt.offset

Expected(n) == n = mqtt.offset

\* fwrite failed: ferase, AbortRequest.
MqttWriteFailed ==
  /\ dev' \in Erased(mqtt.driver)
  /\ Post(AbortRequest("mqtt", mqtt.up))
  /\ mqtt' = MqttReset

\* _handle_ota_data: fwrite finds the driver open.
MqttChunk(n) ==
  /\ Chunk(n) /\ n < Chunks /\ Expected(n)
  /\ mqtt.driver # None
  /\ dev[mqtt.driver].open
  /\ mqtt' = [mqtt EXCEPT !.pc = "append"]
  /\ UNCHANGED <<inbox, dev>> /\ MqttFrame

MqttChunkClosed(n) ==
  /\ Chunk(n) /\ n < Chunks /\ Expected(n)
  /\ mqtt.driver # None
  /\ ~dev[mqtt.driver].open
  /\ MqttWriteFailed /\ MqttFrame

MqttAppend ==
  /\ mqtt.pc = "append"
  /\ dev' = Written(mqtt.driver, mqtt.up, mqtt.offset + 1)
  /\ mqtt' = [mqtt EXCEPT !.pc = "idle", !.offset = @ + 1]
  /\ UNCHANGED inbox /\ MqttFrame

MqttAppendFails == mqtt.pc = "append" /\ MqttWriteFailed /\ MqttFrame

Completing == /\ ThreadIdle /\ mqtt.state = "active" /\ mqtt.up # 0
              /\ mqtt.offset = Chunks /\ mqtt.driver # None

\* The upload failed in the end: CompleteNotify(false), _ota_reset.
MqttGivesUp == /\ Post(Notify("mqtt", FALSE, mqtt.up))
               /\ mqtt' = MqttReset

\* "ota_complete" with a checksum that differs from what was received.
MqttCorrupt ==
  /\ Completing
  /\ dev' \in Erased(mqtt.driver)
  /\ MqttGivesUp /\ MqttFrame

\* "ota_complete": fclose commits.
MqttClose ==
  /\ Completing /\ dev[mqtt.driver].open
  /\ dev' = Closed(mqtt.driver)
  /\ mqtt' = [mqtt EXCEPT !.pc = "notify", !.done = FALSE]
  /\ UNCHANGED inbox /\ MqttFrame

\* fclose finds the driver closed.
MqttCloseClosed ==
  /\ Completing /\ ~dev[mqtt.driver].open
  /\ UNCHANGED dev
  /\ MqttGivesUp /\ MqttFrame

MqttCloseFails ==
  /\ Completing /\ dev[mqtt.driver].open /\ mqtt.driver \in NeedsReboot
  /\ dev' = Refused(mqtt.driver)
  /\ MqttGivesUp /\ MqttFrame

MqttNotify ==
  /\ mqtt.pc = "notify"
  /\ Post(Notify("mqtt", TRUE, mqtt.up))
  /\ mqtt' = [mqtt EXCEPT !.pc = "notified"]
  /\ UNCHANGED dev /\ MqttFrame

\* Only now is _ota_state set to what the answer is looked for in.
MqttCompleting ==
  /\ mqtt.pc = "notified"
  /\ mqtt' = [mqtt EXCEPT !.pc = "idle", !.state = "completing"]
  /\ UNCHANGED <<inbox, dev>> /\ MqttFrame

-----------------------------------------------------------------------------
(* The shared task                                                         *)

TaskGoes(where) == task' = where /\ UNCHANGED <<sess, meant>>

ForMqtt(id) == Receives(id) /\ Message.to = "mqtt"

\* MsgOtaStartResponse
SessionAnswered ==
  /\ ForMqtt("StartResponse")
  /\ Answer(<<>>)
  /\ TaskGoes(IF mqtt.state # "session" THEN "free"
              ELSE IF Message.accepted THEN "granted" ELSE "reset")
  /\ UNCHANGED <<dev, mqtt>>

MqttAsksDriver ==
  /\ task = "granted"
  /\ Post(RequestDriver("mqtt"))
  /\ TaskGoes("asked")
  /\ UNCHANGED <<dev, mqtt>>

MqttAsked ==
  /\ task = "asked"
  /\ mqtt' = [mqtt EXCEPT !.state = "driver"]
  /\ TaskGoes("free")
  /\ UNCHANGED <<inbox, dev>>

\* MsgOtaDriverResponse
DriverAnswered ==
  /\ ForMqtt("DriverResponse")
  /\ Answer(<<>>)
  /\ IF mqtt.state = "driver"
     THEN mqtt' = [mqtt EXCEPT !.driver = Message.target] /\ TaskGoes("open")
     ELSE UNCHANGED mqtt /\ TaskGoes("free")
  /\ UNCHANGED dev

MqttOpen ==
  /\ task = "open" /\ mqtt.driver # None
  /\ dev' \in Opened(mqtt.driver)
  /\ TaskGoes("opened")
  /\ UNCHANGED <<inbox, mqtt>>

MqttOpenFails ==
  /\ task = "open" /\ mqtt.driver # None
  /\ Post(AbortRequest("mqtt", mqtt.up))
  /\ TaskGoes("reset")
  /\ UNCHANGED <<dev, mqtt>>

MqttActive ==
  /\ task = "opened"
  /\ mqtt' = [mqtt EXCEPT !.state = "active", !.done = TRUE, !.offset = 0]
  /\ TaskGoes("free")
  /\ UNCHANGED <<inbox, dev>>

\* MsgOtaEvent: any event ends the wait for the completion.
EventArrives ==
  /\ Receives("Event")
  /\ Answer(<<>>)
  /\ TaskGoes(IF mqtt.state = "completing" THEN "reset" ELSE "free")
  /\ UNCHANGED <<dev, mqtt>>

\* _ota_reset in the shared task; the other thread stays where it is.
MqttResets ==
  /\ task = "reset"
  /\ mqtt' = [MqttReset EXCEPT !.pc = mqtt.pc]
  /\ TaskGoes("free")
  /\ UNCHANGED <<inbox, dev>>

\* A call through _ota_driver while the other thread has cleared it.
NullDriver ==
  /\ mqtt.driver = None
  /\ \/ task = "open"
     \/ mqtt.pc = "append"
     \/ /\ ThreadIdle /\ mqtt.state = "active" /\ mqtt.up # 0

MqttTask == \/ SessionAnswered \/ MqttAsksDriver \/ MqttAsked
            \/ DriverAnswered \/ MqttOpen \/ MqttActive
            \/ EventArrives \/ MqttResets

MqttThread == MqttAppend \/ MqttNotify \/ MqttCompleting

MqttTool == \/ \E t \in Targets : MqttStart(t)
            \/ \E n \in 0..Chunks : MqttChunk(n) \/ MqttChunkClosed(n)
            \/ MqttClose \/ MqttCloseClosed
=============================================================================
