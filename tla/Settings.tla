------------------------------ MODULE Settings ------------------------------
(***************************************************************************)
(* The settings of the device and those who set and read them: a browser,  *)
(* over the web server, and a tool, over the broker, while the cloud       *)
(* module writes to the device's information and the power may fail.       *)
(***************************************************************************)
EXTENDS WebApi

CONSTANTS
  LastRequest,  \* bound: requests of the browser
  LastOther,    \* bound: messages of the others
  MaxCuts       \* bound: power cuts

\* What is queued for storage_task, and what it answers; req 0 is not the browser's.
Asks == {SpiffsReady} \cup
        [id : {"Get"}, key : Keys, req : Nat] \cup
        [id : {"Set"}, key : Keys, value : Values, req : Nat] \cup
        [id : {"InfoRead"}, key : Items, from : {"web", "mqtt"}, req : Nat] \cup
        [id : {"InfoWrite"}, key : Items, from : {"cloud", "web"}, value : Values]

Replies == [id : {"Value"}, key : Keys, value : Values, req : Nat] \cup
           [id : {"InfoValue"}, key : Items, value : Values, valid : BOOLEAN,
            req : Nat \cup {None}]

ASSUME SettingsAssumption ==
  /\ None \notin Values
  /\ None \notin {"Get", "InfoRead", "Value", "InfoValue"}
  /\ LastRequest \in Nat /\ LastOther \in Nat /\ MaxCuts \in Nat

VARIABLES
  others,    \* messages the others have sent
  cuts,
  apart,     \* history: what is in memory may be different from what is in the file
  promised   \* history: of each key, what ModuleConfig has answered since it was last set

vars == <<configVars, inbox, replies, info, webVars, others, cuts, apart, promised>>

NoPromise == [k \in Keys |-> None]

Init ==
  /\ ConfigInit /\ InfoInit /\ WebInit
  /\ others = 0 /\ cuts = 0
  /\ apart = TRUE
  /\ promised = NoPromise

-----------------------------------------------------------------------------
(* The browser.                                                            *)

Requests ==
  LET req == web.request.req + 1
  IN [id : {"Get"}, key : Keys, req : {req}] \cup
     [id : {"Set"}, key : Keys, value : Values, req : {req}] \cup
     [id : {"InfoRead"}, key : Items, from : {"web"}, req : {req}]

Bridge ==
  /\ \/ /\ web.request.req < LastRequest
        /\ \E m \in Requests : Sent(m) \/ SendFails(m)
     \/ Wakes \/ Builds \/ TimesOut
     \/ Looks \/ Captures
  /\ UNCHANGED <<configVars, info, others, cuts, apart, promised>>

\* A key that is posted is promised no more, and none is when the file is not whole.
PostConfig(text) ==
  /\ web.request.req < LastRequest
  /\ Merges([id |-> "Post", key |-> None, req |-> web.request.req + 1], text)
  /\ apart' = TRUE
  /\ promised' = IF file.state = "whole"
                 THEN [k \in Keys |-> IF text[k] = None THEN promised[k] ELSE None]
                 ELSE NoPromise
  /\ UNCHANGED <<live, buffer, saving, replies, info, api, held, others, cuts>>

PostWrites ==
  /\ PostSteps
  /\ UNCHANGED <<live, buffer, saving, replies, info, api, held, others, cuts, apart, promised>>

-----------------------------------------------------------------------------
(* The device.                                                             *)

\* The tool reads and sets; the cloud module writes after a registration, the web server
\* at the start of the display tap.
OtherAsks ==
  [id : {"Get"}, key : Keys, req : {0}] \cup
  [id : {"Set"}, key : Keys, value : Values, req : {0}] \cup
  [id : {"InfoRead"}, key : Items, from : {"mqtt"}, req : {0}] \cup
  [id : {"InfoWrite"}, key : Items, from : {"cloud", "web"}, value : Values]

Others ==
  /\ others < LastOther
  /\ \E m \in OtherAsks : Queue(m)
  /\ others' = others + 1
  /\ UNCHANGED <<configVars, replies, info, webVars, cuts, apart, promised>>

\* An answer is a promise if what it says is in the file.
Gets ==
  /\ GetHandled
  /\ promised' = IF apart THEN promised
                 ELSE [promised EXCEPT ![Head(inbox).key] = live[Head(inbox).key]]
  /\ UNCHANGED apart

Sets ==
  /\ SetHandled \/ SetNotSaved
  /\ apart' = TRUE
  /\ promised' = [promised EXCEPT ![Head(inbox).key] = None]

Loads ==
  /\ LoadHandled \/ LoadFails
  /\ apart' = TRUE
  /\ promised' = IF file.state # "whole" \/ live' # Parsed
                 THEN NoPromise ELSE promised

SaveSteps ==
  /\ \/ Deletes \/ Creates \/ SaveFails
     \/ LoadSkipped \/ GetUnanswered
  /\ UNCHANGED <<apart, promised>>

Saved ==
  /\ Fills
  /\ apart' = (Posting \/ file'.state # "whole" \/ file'.values # saving.text)
  /\ UNCHANGED promised

Storage ==
  /\ \/ (Gets \/ Sets \/ Loads \/ SaveSteps \/ Saved) /\ UNCHANGED info
     \/ (InfoWritten \/ InfoRead \/ InfoUnheard) /\ UNCHANGED <<apart, promised>>
  /\ UNCHANGED <<webVars, others, cuts>>

\* A cut that finds the file incomplete loses the settings.
PowerCut ==
  /\ cuts < MaxCuts
  /\ cuts' = cuts + 1
  /\ ConfigStarts
  /\ info' = InfoDefaults
  /\ web' = [WebStopped EXCEPT !.request.req = web.request.req]
  /\ api' = ApiStopped /\ held' = None
  /\ apart' = TRUE
  /\ promised' = IF file.state = "whole" THEN promised ELSE NoPromise
  /\ UNCHANGED others

Next == \/ Bridge \/ (\E text \in [Keys -> Values \cup {None}] : PostConfig(text)) \/ PostWrites
        \/ Others \/ Storage \/ PowerCut

Spec == Init /\ [][Next]_vars

-----------------------------------------------------------------------------
(* Properties                                                              *)

\* "update RAM + file": a value ModuleConfig has answered with, when it was saved, stays
\* until it is set or posted again, over power cuts, over what else is set and posted and
\* over steps of the file system that fail; except that a cut, a
\* load or a post that finds the file incomplete loses everything.
ReadBackSurvives ==
  ~buffer => \A k \in Keys : promised[k] # None => live[k] = promised[k]

\* "so the web server can wait for the response and then send the response back to the
\* client": what the browser is answered is the answer to its own request.
AnswerIsOwn ==
  web.step = "idle" /\ web.answer # None => web.answer.req = web.request.req
=============================================================================
