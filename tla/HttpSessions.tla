---------------------------- MODULE HttpSessions ----------------------------
(***************************************************************************)
(* The HTTP module with two of its clients, the printing module and the    *)
(* web OTA client, and behind the latter OtaModule and the target drivers. *)
(* Four tasks interleave: http_task, btn_task (printing), network_task     *)
(* (the web OTA client and OtaModule) and the task of the system's timers. *)
(***************************************************************************)
EXTENDS WebOtaClient, Printing

CONSTANT Faults
  \* "net"     requests fail, connections break, images do not verify
  \* "offline" the connection to the internet is reported lost
  \* "slow"    a task may fall behind the timers of several seconds

ASSUME SessionsAssumption ==
  /\ Faults \subseteq {"net", "offline", "slow"}
  /\ Clients = {"ota", "print"} /\ None \notin Clients

vars == <<sessVars, httpVars, otaVars, printVars>>

Init == SessInit /\ HttpInit /\ OtaInit /\ PrintInit

-----------------------------------------------------------------------------
(* What the clocks of the program allow.                                   *)

\* The client has something under way at the HTTP module.
Underway(c) == \/ \E i \in DOMAIN asks : asks[i].from = c
               \/ mail[c] # <<>>
               \/ c = "print" /\ sending

\* The session has been left alone for three seconds.
SessionIdles == /\ timer.armed
                /\ "slow" \in Faults \/ ~Underway(http.owner)
                /\ IdleTimerFires

\* An interval is at least 30 s: an open session and a check are over by then, and the
\* task, whose inbox the tick comes through, has handled what it was sent before; but
\* a download, which may take 120 s, need not be over.
IntervalPasses ==
  /\ \/ "slow" \in Faults
     \/ ~Underway("ota") /\ inbox = <<>> /\ (http.owner # "ota" \/ Streaming)
  /\ OtaTick

\* The watchdog of 120 s finds a session whose client is not at it any more.
Watchdog ==
  /\ "slow" \in Faults \/ ota.state \notin {"session", "driver", "download"} \/ ota.up # sess.up
  /\ inbox = <<>>
  /\ Overdue

-----------------------------------------------------------------------------
Session == (StartAccepted \/ StartRejected \/ DriverRequested \/ CompleteNotified \/ Settle \/ Watchdog)
           /\ UNCHANGED <<httpVars, otaVars, printVars>>

HttpTask == (Handles \/ Executes) /\ UNCHANGED <<otaVars, printVars>>

HttpFails == /\ "net" \in Faults
             /\ Failed \/ StreamCloseFails \/ StreamFails
             /\ UNCHANGED <<otaVars, printVars>>

Timer == SessionIdles /\ UNCHANGED <<otaVars, printVars>>

OtaTask == OtaHandles /\ UNCHANGED printVars

Finds == UpdateFound /\ UNCHANGED printVars

Internet == "offline" \in Faults /\ InternetLost /\ UNCHANGED printVars

Interval == IntervalPasses /\ UNCHANGED printVars

PrintTask == PrintHandles /\ UNCHANGED otaVars

PrintTimer == (Rings \/ \E n \in Nozzles : DelayOver(n)) /\ UNCHANGED otaVars

Station == \E n \in Nozzles : (FuelPumped(n) \/ \E b \in Buttons : PrinterBtn(n, b))
                              /\ UNCHANGED otaVars

Next == \/ Session \/ HttpTask \/ HttpFails \/ Timer \/ OtaTask \/ Finds \/ Internet
        \/ Interval \/ PrintTask \/ PrintTimer \/ Station

Spec == Init /\ [][Next]_vars

-----------------------------------------------------------------------------
(* Properties                                                              *)

Jobs == {CheckJob(s) : s \in DOMAIN Slots} \cup {ImageJob(s) : s \in DOMAIN Slots}
        \cup [kind : Buttons, nozzle : Nozzles, sale : 0..LastSale]

TypeOK ==
  /\ http.state \in {"idle", "open", "executing"}
  /\ http.owner \in Clients \cup {None} /\ (http.state = "idle" <=> http.owner = None)
  /\ http.job \in Jobs \cup {None}
  /\ http.sink.next \in 0..Chunks
  /\ timer \in [armed : BOOLEAN, expired : BOOLEAN]
  /\ timer.armed => http.state = "open"
  /\ ota.state \in {"idle", "check", "session", "driver", "download"}
  /\ ota.phase \in {"idle", "starting", "executing"}
  /\ ota.slot \in DOMAIN Slots /\ ota.next \in DOMAIN Slots
  /\ \A n \in Nozzles : pending[n] # None => pending[n].job \in Jobs
  /\ active \in Jobs \cup {None}
  /\ nozzle \in [Nozzles -> 0..LastSale]

\* The parts a request of a job is made of.
Needs(job) == CASE job.kind = "check" -> {"ca", "url", "header", "body"}
                [] job.kind = "image" -> {"ca", "sink", "url"}
                [] OTHER -> {"url", "header", "body"}

\* What is executed is one job of the client that opened the session, whole: no
\* part is missing, none is left from an earlier session or another client's,
\* although clients send their parts without waiting for the session.
RequestIsWhole ==
  http.state = "executing" =>
    http.parts = {[part |-> p, job |-> http.job] : p \in Needs(http.job)}

\* The update a session is asked for was found in the answer to a check of that
\* target, although the client takes for it whatever result comes first, such as
\* that of a download it gave up when the connection was lost.
CheckIsOfSlot ==
  ota.state \in {"session", "driver", "download"} => ota.found = CheckJob(ota.slot)

\* What is announced as complete is one whole image, meant for that target; ahead of
\* it in the file there is at most what a delete that failed left.
CompleteIsWhole ==
  sess.state = "complete" =>
    /\ ~dev[sess.target].open
    /\ \E u \in Uploads : /\ meant[u] = sess.target
                          /\ dev[sess.target].image = [i \in 1..Chunks |-> <<u, i>>]

InInbox(ids) == \E i \in DOMAIN inbox : inbox[i].id \in ids

\* The web OTA client never waits for an answer that will not come, whichever of
\* its answers were lost on it or taken for later ones; and a session of the HTTP
\* module that it forgot has its timer running.
OtaGoesOn ==
  /\ ota.state \in {"check", "download"} =>
       ota.phase # "idle" /\ (Underway("ota") \/ http.owner = "ota")
  /\ ota.state = "session" => InInbox({"StartRequest", "StartResponse"})
  /\ ota.state = "driver"  => InInbox({"RequestDriver", "DriverResponse"})
  /\ ota.state = "idle"    => ota.phase = "idle"
  /\ http.state = "open"   => timer.armed \/ \E i \in DOMAIN asks : asks[i].id = "Wake"
=============================================================================
