----------------------------- MODULE CubeSphere -----------------------------
(***************************************************************************)
(* ModuleCubeSphere (module_cubesphere.cpp): it registers the device with  *)
(* the cloud in three requests and then posts its events one at a time:    *)
(* the ends of the sales from a queue of its own, the rest from flags.     *)
(* One session of the HTTP client module and one timer carry all of it on. *)
(* The module runs in one task.                                            *)
(*                                                                         *)
(* Abstracted: what the requests and events contain beyond kind and sale,  *)
(* the two nozzles of the pump-start flags, the reports of                 *)
(* MsgCubesphereStatus, the list on the SD card (a sequence; ListManager   *)
(* has its detail) and the countdown of _on_tick.                          *)
(***************************************************************************)
EXTENDS TimerModule

CONSTANTS
  QueueSize,     \* k_pump_q_size
  Unconfigured   \* the sales at a nozzle the cloud has not configured

VARIABLES
  cube,   \* _state, _reg_step, _http_phase, _cur_evt, _event_json, the pending flags, ...
  retx,   \* _retx_ready, the list, _retx_in_progress, _retx_last_send_failed
  link,   \* the HTTP session: how far it is, and what was posted in it
  lost    \* history: the sales the module has given up

cubeVars == <<cube, retx, link, lost>>

Event(kind, sale) == [kind |-> kind, sale |-> sale]
NoEvent == Event("none", 0)
NoLink  == [stage |-> "none", job |-> NoEvent]

\* arm: the handler has asked for the timer.
CubeInit ==
  /\ cube = [state |-> "wait", step |-> "1", phase |-> "idle", cur |-> NoEvent,
             json |-> NoEvent, want |-> {}, queue |-> <<>>, arm |-> FALSE,
             config |-> FALSE, ip |-> FALSE, joined |-> FALSE, hb |-> TRUE,
             idle |-> TRUE, internet |-> FALSE]
  /\ retx = [ready |-> FALSE, list |-> <<>>, busy |-> FALSE, failed |-> FALSE]
  /\ link = NoLink
  /\ lost = {}

-----------------------------------------------------------------------------
(* The helpers, as what they make of the module's state c.                 *)

\* _send_http_start
Starts(c) == [c EXCEPT !.phase = "starting"]

\* _start_registration, _start_reg_step_2, _start_reg_step_3
Registers(c, step) == Starts([c EXCEPT !.state = "registering", !.step = step])

\* _arm_timer
Arms(c) == [c EXCEPT !.arm = TRUE]

\* What _start_next_event posts first.
Urgent(c) ==
  LET pending(k) == k \in c.want
  IN IF pending("startup") THEN "startup"
     ELSE IF pending("reconnect") THEN "reconnect"
     ELSE IF pending("pump_start") THEN "pump_start"
     ELSE IF c.queue # <<>> THEN "queue"
     ELSE IF pending("print_ok") THEN "print_ok"
     ELSE IF pending("heartbeat") /\ c.hb THEN "heartbeat"
     ELSE "none"

Posts(c, e) == Starts([c EXCEPT !.cur = e, !.json = e])

\* _start_next_event
StartsNext(c) ==
  LET kind == Urgent(c)
  IN IF c.state # "running" \/ c.phase # "idle" THEN c
     ELSE IF kind = "none" THEN IF c.hb THEN Arms(c) ELSE c
     ELSE IF kind = "queue" THEN Posts([c EXCEPT !.queue = Tail(@)], Head(c.queue))
     ELSE Posts([c EXCEPT !.want = @ \ {kind}], Event(kind, 0))

\* _reg_failed; the first step again when the timer fires.
Fails(c) == Arms(c)

\* The guards of _retx_try_send_one, and a list with something in it.
MaySend(c, r) ==
  /\ r.ready /\ c.state = "running" /\ c.idle /\ c.internet
  /\ ~r.busy /\ ~r.failed /\ c.phase = "idle" /\ r.list # <<>>

\* What the handler sends: the timer's request and the session's.
Does(c, l) ==
  /\ cube' = [c EXCEPT !.arm = FALSE]
  /\ IF c.arm THEN Ask(TimerStart("cube", TRUE, FALSE)) ELSE UNCHANGED <<requests, missed>>
  /\ link' = IF c.phase = "starting" /\ l.stage = "none" THEN [NoLink EXCEPT !.stage = "asked"] ELSE l
  /\ UNCHANGED <<slots, tick>>

Quiet == UNCHANGED alarms

\* _retx_try_send_one, at the end of a handler: a record of a nozzle that is
\* not configured is discarded; without a post the module becomes "rest".
TrySend(c, r, l, rest) ==
  IF ~MaySend(c, r)
  THEN Does(rest, l) /\ retx' = r /\ UNCHANGED lost
  ELSE IF Head(r.list) \in Unconfigured
  THEN /\ Does(rest, l)
       /\ retx' = [r EXCEPT !.list = Tail(@)]
       /\ lost' = lost \cup {Head(r.list)}
  ELSE /\ Does(Posts(c, Event("retx", Head(r.list))), l)
       /\ retx' = [r EXCEPT !.busy = TRUE]
       /\ UNCHANGED lost

-----------------------------------------------------------------------------
(* The handlers of notifications.                                          *)

\* _on_config_cloud
CloudConfigured(hb) ==
  /\ LET c == [cube EXCEPT !.config = TRUE, !.hb = hb]
     IN Does(IF c.ip /\ c.state = "wait" THEN Registers(c, "1") ELSE c, link)
  /\ Quiet /\ UNCHANGED <<retx, lost>>

\* _on_wifi_event: GOT_IP
GotIp ==
  /\ LET again == cube.joined /\ cube.state = "running"
         c == [cube EXCEPT !.want = IF again THEN @ \cup {"reconnect"} ELSE @,
                           !.joined = TRUE, !.ip = TRUE]
     IN Does(IF c.config /\ c.state = "wait" THEN Registers(c, "1") ELSE c, link)
  /\ Quiet /\ UNCHANGED <<retx, lost>>

\* _retx_store_pumped
Store(sale) ==
  IF retx.ready
  THEN retx' = [retx EXCEPT !.list = Append(@, sale)] /\ UNCHANGED lost
  ELSE lost' = lost \cup {sale} /\ UNCHANGED retx

\* Variant of Room: room for the first of the two entries only.
RoomForOne == Len(cube.queue) + 1 <= QueueSize

\* "Reject both together if there is not enough room"
Room == Len(cube.queue) + 2 <= QueueSize

\* hsys_queue_send without waiting, into a full queue, does nothing.
Queued(q, e) == IF Len(q) < QueueSize THEN Append(q, e) ELSE q

\* _on_fuel_pumped
Pumped(sale) ==
  /\ IF cube.state = "running" /\ sale \notin Unconfigured /\ Room
     THEN /\ Does(StartsNext([cube EXCEPT !.queue =
                    Queued(Queued(@, Event("pumped", sale)), Event("totalized", sale))]), link)
          /\ UNCHANGED <<retx, lost>>
     ELSE Store(sale) /\ UNCHANGED <<cube, link, slots, requests, tick, missed>>
  /\ Quiet

\* _on_nozzle_state, _on_fuel_print_ok
Wanted(kind) ==
  /\ cube.state = "running"
  /\ Does(StartsNext([cube EXCEPT !.want = @ \cup {kind}]), link)
  /\ Quiet /\ UNCHANGED <<retx, lost>>

InternetChanges ==
  /\ cube' = [cube EXCEPT !.internet = ~@]
  /\ Quiet /\ UNCHANGED <<retx, link, lost, slots, requests, tick, missed>>

\* _on_system_status
StatusChanges ==
  /\ LET c == [cube EXCEPT !.idle = ~@]
     IN TrySend(c, retx, link, c)
  /\ Quiet

\* _on_sd_ready
SdReady ==
  /\ ~retx.ready
  /\ retx' = [retx EXCEPT !.ready = TRUE]
  /\ Quiet /\ UNCHANGED <<cube, link, lost, slots, requests, tick, missed>>

\* _on_tick, when a minute is over
MinuteTick ==
  /\ cube.state = "running" /\ retx.ready
  /\ TrySend(cube, [retx EXCEPT !.failed = FALSE], link, cube)
  /\ Quiet

\* _on_timer_alarm; _retx_process_one sends nothing.
OnAlarm ==
  /\ alarms["cube"] > 0
  /\ alarms' = [alarms EXCEPT !["cube"] = @ - 1]
  /\ Does(IF cube.state = "running"
          THEN StartsNext([cube EXCEPT !.want = @ \cup {"heartbeat"}])
          ELSE IF cube.phase = "idle"
          THEN Registers(cube, IF cube.step = "wait" THEN "2" ELSE "1")
          ELSE cube, link)
  /\ UNCHANGED <<retx, lost>>

-----------------------------------------------------------------------------
(* The handlers of the answers of the HTTP module.                         *)

\* Variant of Refused: only the phase is set back.
RefusedUnarmed(c) == [c EXCEPT !.phase = "idle"]

\* HTTP_SESSION_BUSY; the event in hand is forgotten.
Refused(c) == Arms([c EXCEPT !.phase = "idle"])

StartBusy ==
  /\ link.stage = "refused"
  /\ Does(Refused(cube), NoLink)
  /\ lost' = IF cube.cur.kind = "pumped" THEN lost \cup {cube.cur.sale} ELSE lost
  /\ Quiet /\ UNCHANGED retx

\* _burst_get, _burst_post
StartOpen ==
  /\ link.stage = "open"
  /\ Does([cube EXCEPT !.phase = "executing"],
          [stage |-> "sent", job |-> IF cube.state = "running" THEN cube.json ELSE NoEvent])
  /\ Quiet /\ UNCHANGED <<retx, lost>>

\* _on_reg_step1_result, _on_reg_step2_result, _on_reg_step3_result
Registered(c) ==
  CASE c.step = "1" -> Arms([c EXCEPT !.step = "wait"])
    [] c.step = "2" -> Registers(c, "3")
    [] c.step = "3" -> StartsNext([c EXCEPT !.state = "running", !.want = {"startup"}])

RegResult(ok) ==
  /\ cube.state = "registering"
  /\ LET c == [cube EXCEPT !.phase = "idle"]
     IN Does(IF ok THEN Registered(c) ELSE Fails(c), NoLink)
  /\ Quiet /\ UNCHANGED <<retx, lost>>

\* Variant of AfterRetx: the record is acknowledged whatever the answer.
AfterRetxAny(ok) == [retx EXCEPT !.busy = FALSE, !.failed = @ \/ ~ok, !.list = Tail(@)]

\* The record is acknowledged if the cloud has confirmed it.
AfterRetx(ok) == [retx EXCEPT !.busy = FALSE, !.failed = @ \/ ~ok,
                              !.list = IF ok THEN Tail(@) ELSE @]

\* _on_event_result
EventResult(ok) ==
  /\ cube.state = "running"
  /\ LET c == [cube EXCEPT !.phase = "idle", !.cur = NoEvent]
     IN IF cube.cur.kind = "retx" /\ ok
        THEN TrySend(c, AfterRetx(ok), NoLink, StartsNext(c))
        ELSE /\ Does(StartsNext(c), NoLink)
             /\ retx' = IF cube.cur.kind = "retx" THEN AfterRetx(ok) ELSE retx
             /\ lost' = IF cube.cur.kind = "pumped" /\ ~ok THEN lost \cup {cube.cur.sale} ELSE lost
  /\ Quiet

OnResult ==
  /\ link.stage \in {"ok", "failed"}
  /\ RegResult(link.stage = "ok") \/ EventResult(link.stage = "ok")

HttpAnswers == StartBusy \/ StartOpen \/ OnResult
=============================================================================
