------------------------------- MODULE WebApi -------------------------------
(***************************************************************************)
(* The bridge of ModuleWebServer (_hdl_post_message): POST /api/messages   *)
(* becomes a message on the bus, and the first message with the identifier *)
(* the route table expects becomes the answer.  The handler runs in the    *)
(* thread of the HTTP server, the capture in the task of the module; they  *)
(* share the expected identifier, a buffer and a binary semaphore.  POST   *)
(* /api/config (_hdl_post_config), in the same thread, merges values into  *)
(* the file of the settings and asks for a reload.                         *)
(*                                                                         *)
(* Abstracted: bodies, names and messages that are refused before they     *)
(* reach the bus; texts too long for the 4096 bytes of a handler; the lock *)
(* of the handlers, of which the thread of the server runs one at a time.  *)
(***************************************************************************)
EXTENDS DeviceInfo

VARIABLES
  web,    \* the handler: its step, its request, the status it answered with, what it writes
  api,    \* m_api_wait_id, m_api_resp_sem, m_api_resp_data
  held    \* the message the task has found to be the expected one

webVars == <<web, api, held>>

NoRequest == [id |-> None, key |-> None, req |-> 0]

Idle(r, status, answer) ==
  [step |-> "idle", request |-> r, status |-> status, answer |-> answer, text |-> NoText]

WebStopped == Idle(NoRequest, 0, None)
ApiStopped == [wait |-> None, given |-> FALSE, data |-> None]

WebInit == web = WebStopped /\ api = ApiStopped /\ held = None

\* response_id of k_api_routes
Response(id) == CASE id = "Get" -> "Value" [] id = "InfoRead" -> "InfoValue" [] OTHER -> None

-----------------------------------------------------------------------------
(* The handler: _hdl_post_message.                                         *)

Answers(r, status, answer) == web' = Idle(r, status, answer)

\* The capture is armed, and the request sent.
Sent(m) ==
  /\ web.step = "idle"
  /\ Queue(m)
  /\ IF Response(m.id) = None
     THEN Answers(m, 200, None) /\ UNCHANGED api
     ELSE /\ web' = [Idle(m, 0, None) EXCEPT !.step = "waiting"]
          /\ api' = [api EXCEPT !.wait = Response(m.id)]
  /\ UNCHANGED <<held, replies>>

\* The queue of storage_task is full.
SendFails(m) ==
  /\ web.step = "idle"
  /\ Len(inbox) = InboxDepth
  /\ Answers(m, 500, None)
  /\ api' = [api EXCEPT !.wait = None]
  /\ UNCHANGED <<held, inbox, replies>>

Wakes ==
  /\ web.step = "waiting" /\ api.given
  /\ api' = [api EXCEPT !.given = FALSE, !.wait = None]
  /\ web' = [web EXCEPT !.step = "building"]
  /\ UNCHANGED <<held, inbox, replies>>

\* The lock is released by now.
Builds ==
  /\ web.step = "building"
  /\ Answers(web.request, 200, api.data)
  /\ UNCHANGED <<api, held, inbox, replies>>

\* Five seconds are over.
TimesOut ==
  /\ web.step = "waiting" /\ ~api.given
  /\ Answers(web.request, 504, None)
  /\ api' = [api EXCEPT !.wait = None]
  /\ UNCHANGED <<held, inbox, replies>>

-----------------------------------------------------------------------------
(* The other writer of the settings: _hdl_post_config.                     *)

\* It has read the file and has still to write it.
Posting == web.step \in {"delete", "create", "fill"}

\* "Merge - new values overwrite matching keys"
Merged(text) ==
  [k \in Keys |-> IF text[k] # None \/ file.state # "whole" THEN text[k] ELSE file.values[k]]

Merges(m, text) ==
  /\ web.step = "idle"
  /\ web' = [Idle(m, 0, None) EXCEPT !.step = "delete", !.text = Merged(text)]
  /\ UNCHANGED <<file, inbox>>

PostDeletes ==
  /\ web.step = "delete"
  /\ file' = Deleted
  /\ web' = [web EXCEPT !.step = "create"]
  /\ UNCHANGED inbox

PostCreates ==
  /\ web.step = "create"
  /\ file' = Made("web")
  /\ web' = [web EXCEPT !.step = "fill"]
  /\ UNCHANGED inbox

PostFills ==
  /\ web.step = "fill"
  /\ file' \in Filled("web", web.text)
  /\ web' = [web EXCEPT !.step = "reload"]
  /\ UNCHANGED inbox

\* The result of the writing is not looked at.
PostFails ==
  /\ Posting
  /\ web' = [web EXCEPT !.step = "reload"]
  /\ UNCHANGED <<file, inbox>>

\* _trigger_config_reload, whose message may not exist or find no room.
Reloads ==
  /\ web.step = "reload"
  /\ Queue(SpiffsReady) \/ UNCHANGED inbox
  /\ Answers(web.request, 200, None)
  /\ UNCHANGED file

PostSteps == PostDeletes \/ PostCreates \/ PostFills \/ PostFails \/ Reloads

-----------------------------------------------------------------------------
(* The task: on_msg_received.                                              *)

Expected(m) == api.wait = m.id

Looks ==
  /\ held = None /\ replies # <<>>
  /\ replies' = Tail(replies)
  /\ held' = IF Expected(Head(replies)) THEN Head(replies) ELSE None
  /\ UNCHANGED <<web, api, inbox>>

Captures ==
  /\ held # None
  /\ api' = [api EXCEPT !.data = held, !.given = TRUE]
  /\ held' = None
  /\ UNCHANGED <<web, inbox, replies>>
=============================================================================
