---------------------------- MODULE OtaWebUpload ----------------------------
(***************************************************************************)
(* The web server as a source of images (ModuleWebServer.cpp): POST        *)
(* /api/ota/start, chunk and complete, or the stream of /api/ota/bin, which*)
(* takes the same steps within one request.  The HTTP thread waits up to   *)
(* 5 s on a binary semaphore for each answer; on_msg_received, in the task *)
(* of OtaModule, stores the answer and gives the semaphore.                *)
(*                                                                         *)
(* The client keeps to the protocol: it sends the chunks in order, sends a *)
(* chunk again when the answer was lost, and completes after the last one. *)
(* A request that changes nothing (busy, no active session, bad size) is   *)
(* left out, as is a failing allocation of the first message.              *)
(***************************************************************************)
EXTENDS OtaSession

VARIABLE web

webVars == <<web>>

NoUpload ==
  [pc      |-> "idle",   \* the HTTP thread
   busy    |-> FALSE,    \* m_ota_busy
   driver  |-> None,     \* m_ota_driver, m_ota_ctx
   seq     |-> 0,        \* m_ota_expected_seq
   granted |-> FALSE,    \* m_start_result
   startSem |-> FALSE,   \* m_start_resp_sem
   driverSem |-> FALSE,  \* m_driver_resp_sem
   closed  |-> FALSE,    \* what fclose returned
   next    |-> 0,        \* the client: the chunks answered so far
   up      |-> 0]        \* history: the upload in progress

WebInit == web = NoUpload

At(pc) == web.pc = pc

\* The request in progress fails: m_ota_busy = false, an error is sent.
GivesUp == [web EXCEPT !.pc = "idle", !.busy = FALSE]

WebFrame == UNCHANGED <<sess, task, meant>>

-----------------------------------------------------------------------------
(* /api/ota/start                                                          *)

WebStart(t) ==
  /\ At("idle") /\ ~web.busy
  /\ Len(meant) < LastUpload
  /\ meant' = Append(meant, t)
  /\ web' = [web EXCEPT !.pc = "start", !.busy = TRUE, !.seq = 0, !.driver = None,
                        !.next = 0, !.up = Len(meant) + 1]
  /\ Post(StartRequest("web", t, Len(meant) + 1))
  /\ UNCHANGED <<sess, task, dev>>

\* Variant of WebTakeStart: the semaphore stays given.
WebSeesStart ==
  /\ At("start") /\ web.startSem
  /\ web' = [web EXCEPT !.pc = "result"]
  /\ UNCHANGED <<inbox, dev>> /\ WebFrame

\* hsys_semaphore_take_timeout, then m_start_result is read under the lock.
WebTakeStart ==
  /\ At("start") /\ web.startSem
  /\ web' = [web EXCEPT !.pc = "result", !.startSem = FALSE]
  /\ UNCHANGED <<inbox, dev>> /\ WebFrame

WebGranted ==
  /\ At("result") /\ web.granted
  /\ web' = [web EXCEPT !.pc = "driver"]
  /\ Post(RequestDriver("web"))
  /\ UNCHANGED dev /\ WebFrame

WebRefused ==
  /\ At("result") /\ ~web.granted
  /\ web' = GivesUp
  /\ UNCHANGED <<inbox, dev>> /\ WebFrame

WebTakeDriver ==
  /\ At("driver") /\ web.driverSem
  /\ web' = [web EXCEPT !.pc = "open", !.driverSem = FALSE]
  /\ UNCHANGED <<inbox, dev>> /\ WebFrame

\* The 5 s are over without an answer.
WebTimeout ==
  /\ \/ At("start") /\ ~web.startSem
     \/ At("driver") /\ ~web.driverSem
  /\ web' = GivesUp
  /\ UNCHANGED <<inbox, dev>> /\ WebFrame

\* A null driver ends the request, otherwise fopen.
WebOpen ==
  /\ At("open")
  /\ IF web.driver = None
     THEN web' = GivesUp /\ UNCHANGED dev
     ELSE /\ dev' \in Opened(web.driver)
          /\ web' = [web EXCEPT !.pc = "idle"]
  /\ UNCHANGED inbox /\ WebFrame

WebOpenFails ==
  /\ At("open") /\ web.driver # None
  /\ web' = GivesUp
  /\ Post(Notify("web", FALSE, web.up))
  /\ UNCHANGED dev /\ WebFrame

-----------------------------------------------------------------------------
(* /api/ota/chunk                                                          *)

\* Variant of InOrder: every chunk the client sends is taken.
AnyOrder == TRUE

InOrder == web.next = web.seq

\* 409: the answer carries the number expected, from which the client goes on.
WebOutOfOrder ==
  /\ At("idle") /\ web.busy /\ web.next < Chunks
  /\ ~InOrder
  /\ web' = [web EXCEPT !.next = web.seq]
  /\ UNCHANGED <<inbox, dev>> /\ WebFrame

\* fwrite finds the driver open.
WebChunk ==
  /\ At("idle") /\ web.busy /\ web.next < Chunks
  /\ InOrder
  /\ dev[web.driver].open
  /\ web' = [web EXCEPT !.pc = "append"]
  /\ UNCHANGED <<inbox, dev>> /\ WebFrame

\* fwrite failed: ferase, CompleteNotify(false).
WriteFailed ==
  /\ dev' \in Erased(web.driver)
  /\ web' = [GivesUp EXCEPT !.seq = 0]
  /\ Post(Notify("web", FALSE, web.up))

WebChunkClosed ==
  /\ At("idle") /\ web.busy /\ web.next < Chunks
  /\ InOrder
  /\ ~dev[web.driver].open
  /\ WriteFailed /\ WebFrame

\* The data is in the file; the answer reaches the client or is lost.
WebAppend ==
  /\ At("append")
  /\ dev' = Written(web.driver, web.up, web.next + 1)
  /\ \E got \in {web.next, web.next + 1} :
       web' = [web EXCEPT !.pc = "idle", !.seq = web.next + 1, !.next = got]
  /\ UNCHANGED inbox /\ WebFrame

WebAppendFails == At("append") /\ WriteFailed /\ WebFrame

-----------------------------------------------------------------------------
(* /api/ota/complete                                                       *)

\* fclose, and ferase when it failed (which finds the driver closed).
Closing == At("idle") /\ web.busy /\ web.next = Chunks

WebClose ==
  /\ Closing
  /\ dev' = Closed(web.driver)
  /\ web' = [web EXCEPT !.pc = "notify", !.closed = dev[web.driver].open]
  /\ UNCHANGED inbox /\ WebFrame

\* Of the drivers, only that of the slots looks at the image when it closes.
WebCloseFails ==
  /\ Closing /\ dev[web.driver].open /\ web.driver \in NeedsReboot
  /\ dev' = Refused(web.driver)
  /\ web' = [web EXCEPT !.pc = "notify", !.closed = FALSE]
  /\ UNCHANGED inbox /\ WebFrame

WebNotify ==
  /\ At("notify")
  /\ Post(Notify("web", web.closed, web.up))
  /\ web' = [GivesUp EXCEPT !.seq = 0]
  /\ UNCHANGED dev /\ WebFrame

-----------------------------------------------------------------------------
(* on_msg_received                                                         *)

WebAnswered ==
  /\ inbox # <<>> /\ Message.id \in {"StartResponse", "DriverResponse"}
  /\ task = "free" /\ Message.to = "web"
  /\ web' = IF Message.id = "StartResponse"
            THEN [web EXCEPT !.granted = Message.accepted, !.startSem = TRUE]
            ELSE [web EXCEPT !.driver = Message.target, !.driverSem = TRUE]
  /\ Answer(<<>>)
  /\ UNCHANGED dev /\ WebFrame

\* What the HTTP thread does by itself, within a request.
WebThread == \/ WebTakeStart \/ WebGranted \/ WebRefused \/ WebTakeDriver
             \/ WebOpen \/ WebAppend \/ WebNotify

\* What a client asks for.
WebClient == \/ \E t \in Targets : WebStart(t)
             \/ WebOutOfOrder \/ WebChunk \/ WebChunkClosed \/ WebClose
=============================================================================
