---------------------------- MODULE CubeStation ----------------------------
(***************************************************************************)
(* ModuleCubeSphere among its neighbours: the fuel module reports sales,   *)
(* the HTTP module opens a session or is busy and brings back an answer,   *)
(* the timer service sends alarms, wifi, internet, printer, SD card and    *)
(* the idleness of the system come and go.                                 *)
(***************************************************************************)
EXTENDS CubeSphere

CONSTANTS
  LastSale,  \* bound: sales
  MaxOther   \* bound: reconnections, lifted nozzles and printed receipts

ASSUME CubeAssumption ==
  /\ Requesters = {"cube"}
  /\ LastSale \in Nat /\ MaxOther \in Nat
  /\ Unconfigured \subseteq 1..LastSale /\ QueueSize \in Nat \ {0}

VARIABLES
  sales,      \* the sales so far are 1 .. sales
  others,     \* the other events so far
  confirmed   \* history: the sales whose post the cloud has confirmed

worldVars == <<sales, others, confirmed>>
vars == <<timerVars, cubeVars, worldVars>>

Init ==
  /\ TimerInit /\ CubeInit
  /\ sales = 0 /\ others = 0 /\ confirmed = {}

-----------------------------------------------------------------------------
Sells ==
  /\ sales < LastSale
  /\ sales' = sales + 1
  /\ Pumped(sales + 1)
  /\ UNCHANGED <<others, confirmed>>

Other ==
  /\ others < MaxOther
  /\ others' = others + 1
  /\ Wanted("pump_start") \/ Wanted("print_ok") \/ (cube.ip /\ GotIp)
  /\ UNCHANGED <<sales, confirmed>>

Configured ==
  /\ ~cube.config
  /\ \E hb \in BOOLEAN : CloudConfigured(hb)
  /\ UNCHANGED worldVars

Joins == ~cube.ip /\ GotIp /\ UNCHANGED worldVars

Surroundings ==
  /\ InternetChanges \/ StatusChanges \/ SdReady
  /\ UNCHANGED worldVars

Clock == (MinuteTick \/ OnAlarm) /\ UNCHANGED worldVars

-----------------------------------------------------------------------------
(* The HTTP module, as HttpClient has it in detail.                        *)

Reaches(stage) ==
  /\ link' = [link EXCEPT !.stage = stage]
  /\ UNCHANGED <<timerVars, cube, retx, lost>>

\* StartGranted, StartRefused
Opens ==
  /\ link.stage = "asked"
  /\ Reaches("open") \/ Reaches("refused")
  /\ UNCHANGED worldVars

\* The cloud confirms the request; or refuses it, or one of the two is lost on the way.
Executes ==
  /\ link.stage = "sent"
  /\ Reaches("ok") \/ Reaches("failed")
  /\ UNCHANGED worldVars

Answers ==
  /\ HttpAnswers
  /\ confirmed' = IF link.stage = "ok" /\ link.job.kind \in {"pumped", "retx"}
                  THEN confirmed \cup {link.job.sale} ELSE confirmed
  /\ UNCHANGED <<sales, others>>

-----------------------------------------------------------------------------
Timer ==
  /\ TimerTicks \/ TickCannotSend \/ StartHandled
  /\ UNCHANGED <<cubeVars, worldVars>>

Next == \/ Sells \/ Other \/ Configured \/ Joins \/ Surroundings \/ Clock
        \/ Opens \/ Executes \/ Answers \/ Timer

Spec == Init /\ [][Next]_vars

-----------------------------------------------------------------------------
(* Properties                                                              *)

\* An event the module knows of and can post.
HasWork == cube.queue # <<>> \/ cube.want \ {"reconnect", "heartbeat"} # {}

Busy == \/ cube.state = "registering"
        \/ cube.state = "running" /\ (cube.hb \/ HasWork)

\* Registration and reports never come to a standstill: the module waits for an answer
\* of the HTTP module exactly when one is due, what it waits for is what was posted, and
\* when it waits for none while it registers, reports heartbeats or has an event to post,
\* a timer runs, is asked for or has rung; unless the last request for one was dropped, or
\* the timer released by a callback that took it for the one whose alarm it had just sent.
CubeGoesOn ==
  /\ CASE cube.phase = "idle"      -> link.stage = "none"
       [] cube.phase = "starting"  -> link.stage \in {"asked", "open", "refused"}
       [] cube.phase = "executing" -> link.stage \in {"sent", "ok", "failed"} /\ link.job = cube.cur
  /\ cube.phase = "idle" /\ Busy =>
       \/ alarms["cube"] > 0 \/ SlotsOf("cube") # {}
       \/ \E i \in DOMAIN requests : requests[i].id = "Start"
       \/ "cube" \in missed

\* Where a sale is.
Places(s) ==
  {p \in {"queued", "posted", "stored", "confirmed", "lost"} :
     CASE p = "queued"    -> Event("pumped", s) \in {cube.queue[i] : i \in DOMAIN cube.queue}
       [] p = "posted"    -> cube.phase # "idle" /\ cube.cur = Event("pumped", s)
       [] p = "stored"    -> s \in {retx.list[i] : i \in DOMAIN retx.list}
       [] p = "confirmed" -> s \in confirmed
       [] p = "lost"      -> s \in lost}

\* "Acknowledge only after the HTTP response confirms success. The item stays in the list
\* if we fail": every sale is in exactly one place, whatever is refused, lost or repeated.
SaleConserved == \A s \in 1..sales : Cardinality(Places(s)) = 1

\* "Reject both together ... to avoid orphaned entries": behind the end of a sale in the
\* queue comes its totalizer, and a totalizer whose sale is not before it comes next.
NoOrphans ==
  \A i \in DOMAIN cube.queue :
    LET e == cube.queue[i]
    IN IF e.kind = "pumped"
       THEN i < Len(cube.queue) /\ cube.queue[i + 1] = Event("totalized", e.sale)
       ELSE i = 1 \/ cube.queue[i - 1] = Event("pumped", e.sale)
=============================================================================
