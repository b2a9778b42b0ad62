------------------------------ MODULE Printing ------------------------------
(***************************************************************************)
(* The printing module (module_printing.cpp): a press of a nozzle's button *)
(* takes a copy of what the nozzle last delivered into the nozzle's        *)
(* pending slot; when the delay is over the copy becomes the active job    *)
(* and is posted to the printer through the HTTP module.  It runs in a     *)
(* task of its own and does not wait for the HTTP module to grant a        *)
(* session: it sends the whole request at once.                            *)
(*                                                                         *)
(* Its init() subscribes to no message of the HTTP module, and a module is *)
(* given only what it subscribed to (hsys_module.cpp:180): the answers are *)
(* dropped, _on_http_start_response and _on_http_result never run, and the *)
(* first job stays the active one.  Hence no retry, no requeueing and no   *)
(* counting of copies here: print_count is always zero.                    *)
(*                                                                         *)
(* Abstracted: time (a delay may be over at any moment, the timer rings at *)
(* any moment after it was set), the configuration, which is there from    *)
(* the start, and the text of the receipt.                                 *)
(***************************************************************************)
EXTENDS HttpClient

CONSTANTS
  Nozzles,     \* 0..FUEL_MAX_NOZZLES-1
  Delayed,     \* print_delay_ms # 0
  Buttons,     \* the presses that occur: "receipt" (short), "totalizer" (long)
  LastSale,    \* bound: transactions of each nozzle
  LastPress    \* bound: presses accepted

ASSUME PrintingAssumption ==
  /\ Nozzles \subseteq Nat /\ Delayed \in BOOLEAN
  /\ Buttons \subseteq {"receipt", "totalizer"}
  /\ LastSale \in Nat /\ LastPress \in Nat
  /\ LET jobs == [kind : Buttons, nozzle : Nozzles, sale : Nat]
     IN None \notin [job : jobs, due : BOOLEAN] \cup jobs

VARIABLES
  nozzle,   \* _nozzle_rec: the transaction, 0 before the first
  pending,  \* _pending: the job that waits for the delay, and whether it is over
  active,   \* _active: the job that is posted; None when _state = IDLE
  sending,  \* whether the running handler has the rest of a request still to send
  alarm,    \* whether the module's one-shot timer is running
  presses   \* presses accepted so far

printVars == <<nozzle, pending, active, sending, alarm, presses>>

PrintInit ==
  /\ nozzle = [n \in Nozzles |-> 0]
  /\ pending = [n \in Nozzles |-> None]
  /\ active = None
  /\ sending = FALSE
  /\ alarm = FALSE
  /\ presses = 0

Job(k, n, sale) == [kind |-> k, nozzle |-> n, sale |-> sale]

PrintFree == ~sending

-----------------------------------------------------------------------------
(* The request.                                                            *)

\* _send_http_request: the session is asked for, and
Asks(job) == asks' = Append(asks, Start("print", job)) /\ sending' = TRUE

\* everything else is sent without waiting for it, here in one step: what another
\* client puts between these messages is answered like what it puts before them.
PrintSends ==
  /\ sending /\ sending' = FALSE
  /\ asks' = asks \o [i \in 1..3 |-> Part("print", <<"url", "header", "body">>[i], active)]
                  \o <<Send("print")>>
  /\ UNCHANGED <<sessVars, http, timer, mail, nozzle, pending, active, alarm, presses>>

-----------------------------------------------------------------------------
(* Scheduling.  A handler that found no job active ends with Schedule(p,   *)
(* rings) when it leaves the slots as p and the timer running or not.      *)

\* _start_http_print
Begin(n, p) ==
  /\ active' = p[n].job
  /\ pending' = [p EXCEPT ![n] = None]
  /\ Asks(p[n].job)

\* A job waits for its delay, and the timer is asked for.
Waits(p) == Delayed /\ \E n \in Nozzles : p[n] # None

Due(p) == {n \in Nozzles : p[n] # None /\ p[n].due}

\* _try_schedule: the first slot whose delay is over, or the timer for the next,
\* unless its request finds no room.
Schedule(p, rings) ==
  IF Due(p) # {}
  THEN Begin(CHOOSE n \in Due(p) : \A m \in Due(p) : n <= m, p) /\ alarm' = rings
  ELSE /\ pending' = p /\ active' = None /\ UNCHANGED <<asks, sending>>
       /\ alarm' \in {rings, rings \/ Waits(p)}

DelayOver(n) ==
  /\ pending[n] # None /\ ~pending[n].due
  /\ pending' = [pending EXCEPT ![n].due = TRUE]
  /\ UNCHANGED <<sessVars, httpVars, nozzle, active, sending, alarm, presses>>

Rings ==
  /\ alarm /\ PrintFree
  /\ IF active = None THEN Schedule(pending, FALSE)
     ELSE alarm' = FALSE /\ UNCHANGED <<asks, pending, active, sending>>
  /\ UNCHANGED <<sessVars, http, timer, mail, nozzle, presses>>

-----------------------------------------------------------------------------
(* Events.                                                                 *)

\* A new transaction cancels what waits to be printed of the one before.
FuelPumped(n) ==
  /\ PrintFree
  /\ nozzle[n] < LastSale
  /\ nozzle' = [nozzle EXCEPT ![n] = @ + 1]
  /\ pending' = [pending EXCEPT ![n] = None]
  /\ UNCHANGED <<sessVars, httpVars, active, sending, alarm, presses>>

PrinterBtn(n, b) ==
  /\ PrintFree
  /\ presses < LastPress /\ presses' = presses + 1
  /\ pending[n] = None
  /\ b = "receipt" => nozzle[n] > 0
  /\ LET job == Job(b, n, IF b = "receipt" THEN nozzle[n] ELSE 0)
         p == [pending EXCEPT ![n] = [job |-> job, due |-> ~Delayed]]
     IN IF active = None THEN Schedule(p, alarm)
        ELSE pending' = p /\ UNCHANGED <<asks, active, sending, alarm>>
  /\ UNCHANGED <<sessVars, http, timer, mail, nozzle>>

\* An answer of the HTTP module, which the dispatch loop gives to nobody.
AnswerDropped ==
  /\ PrintFree /\ mail["print"] # <<>>
  /\ mail' = [mail EXCEPT !["print"] = Tail(@)]
  /\ UNCHANGED <<sessVars, http, asks, timer, printVars>>

PrintHandles == PrintSends \/ AnswerDropped
=============================================================================
