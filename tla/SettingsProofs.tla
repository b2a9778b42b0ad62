--------------------------- MODULE SettingsProofs ---------------------------
(***************************************************************************)
(* Proofs about the settings: what ModuleConfig has answered with after it *)
(* was saved stays, for every set of keys, values and items and every      *)
(* number of requests and power cuts, whoever sets, reads and posts, and   *)
(* whichever step of the file system fails.  No fault is excluded.         *)
(*                                                                         *)
(* The invariant relates five copies of a setting: the one in memory, the  *)
(* one in the file, the texts that ModuleConfig and the web server are     *)
(* about to write, and what was promised.                                  *)
(***************************************************************************)
EXTENDS Settings, TLAPS

-----------------------------------------------------------------------------
(* The inductive invariant.                                                *)

Texts == [Keys -> Values \cup {None}]

File == [state : {"absent", "partial", "whole"}, values : Texts, by : {"config", "web"}]

Saving == [step : {"none", "delete", "create", "fill"}, text : Texts]

SavedTypes ==
  /\ live \in [Keys -> Values] /\ buffer \in BOOLEAN
  /\ file \in File /\ saving \in Saving
  /\ inbox \in Seq(Asks)
  /\ promised \in Texts

\* The record of the handler has its fields.
WebShape ==
  web = [step |-> web.step, request |-> web.request, status |-> web.status,
         answer |-> web.answer, text |-> web.text]

WebTypes == WebShape /\ web.request.req \in Nat /\ (Posting => web.text \in Texts)

TypeInv == SavedTypes /\ WebTypes

\* The first message after a start is the one that loads the file.
BootInv ==
  buffer => inbox # <<>> /\ Head(inbox).id = "SpiffsReady" /\ saving = NotSaving /\ apart = TRUE

Kept(values) == \A k \in Keys : promised[k] # None => values[k] = promised[k]

\* Every copy holds what is promised; and memory is what is saved, and what the file holds
\* unless they are known to be apart.
SavedInv ==
  /\ buffer = FALSE => Kept(live)
  /\ saving # NotSaving => saving.text = live /\ apart = TRUE
  /\ file.state = "whole" => Kept(file.values)
  /\ Posting => Kept(web.text) /\ apart = TRUE
  /\ apart # TRUE => file.state = "whole" /\ file.values = live

IInv == TypeInv /\ BootInv /\ SavedInv

-----------------------------------------------------------------------------
(* Helpers.                                                                *)

LEMMA NoneIsNoValue == None \notin Values
BY SettingsAssumption

LEMMA NoTextIs == NoText \in Texts /\ NoPromise \in Texts /\ NotSaving \in Saving
<1>1. NoText \in Texts  BY DEF NoText, Texts
<1>2. NoPromise \in Texts  BY DEF NoPromise, Texts
<1> QED  BY <1>1, <1>2 DEF NotSaving, Saving

LEMMA DefaultsAre == Defaults \in [Keys -> Values]
BY ConfigAssumption DEF Defaults

\* Without promises every copy is as good as another.
LEMMA NothingKept == ASSUME promised = NoPromise, NEW v  PROVE Kept(v)
BY DEF Kept, NoPromise

\* A message that is handled, and what is left in the queue.
LEMMA Handled ==
  ASSUME inbox \in Seq(Asks), NEW id, Asked(id), inbox' = Tail(inbox)
  PROVE  /\ inbox' \in Seq(Asks) /\ Head(inbox) \in Asks /\ Head(inbox).id = id
         /\ saving = NotSaving
BY DEF Asked

\* A message that is queued leaves the first where it is.
LEMMA Queued ==
  ASSUME inbox \in Seq(Asks), NEW m \in Asks, Queue(m)
  PROVE  inbox' \in Seq(Asks) /\ (inbox # <<>> => inbox' # <<>> /\ Head(inbox') = Head(inbox))
<1>1. inbox' = Append(inbox, m)  BY DEF Queue
<1>2. inbox' \in Seq(Asks)  BY <1>1
<1>3. ASSUME inbox # <<>>  PROVE inbox' # <<>> /\ Head(inbox') = Head(inbox)
  BY <1>1, <1>3
<1> QED  BY <1>2, <1>3

LEMMA GetIs == ASSUME NEW m \in Asks, m.id = "Get"  PROVE m.key \in Keys
BY DEF Asks, SpiffsReady

LEMMA SetIs == ASSUME NEW m \in Asks, m.id = "Set"  PROVE m.key \in Keys /\ m.value \in Values
BY DEF Asks, SpiffsReady

LEMMA ReadyIs == SpiffsReady \in Asks /\ SpiffsReady.id = "SpiffsReady"
BY DEF Asks, SpiffsReady

LEMMA ParsedIs ==
  ASSUME TypeInv
  PROVE  /\ Parsed \in [Keys -> Values]
         /\ file.state = "whole" /\ Kept(file.values) => Kept(Parsed)
<1>1. live \in [Keys -> Values] /\ file.values \in Texts  BY DEF TypeInv, SavedTypes, File
<1>2. CASE file.state # "whole"  BY <1>1, <1>2 DEF Parsed
<1>3. CASE file.state = "whole"
  <2>1. Parsed = [k \in Keys |-> IF file.values[k] = None THEN live[k] ELSE file.values[k]]
    BY <1>3 DEF Parsed
  <2>2. Parsed \in [Keys -> Values]  BY <1>1, <2>1 DEF Texts
  <2>3. ASSUME Kept(file.values)  PROVE Kept(Parsed)
    BY <2>1, <2>3 DEF Kept
  <2> QED  BY <2>2, <2>3
<1> QED  BY <1>2, <1>3

\* What a write makes of the file.
LEMMA FilledIs ==
  ASSUME file \in File, NEW w \in {"config", "web"}, NEW text \in Texts, NEW f \in Filled(w, text)
  PROVE  /\ f \in File
         /\ \/ f.state = "whole" /\ f.values = text
            \/ f = file
            \/ f.state = "partial" /\ f.values = file.values
<1>1. CASE f = [state |-> "whole", values |-> text, by |-> w]  BY <1>1 DEF File
<1>2. CASE f = file  BY <1>2
<1>3. CASE f = Made(w)  BY <1>3 DEF Made, File
<1> QED  BY <1>1, <1>2, <1>3 DEF Filled

\* Whoever deletes the file or makes it anew leaves it incomplete.
LEMMA Incomplete ==
  ASSUME file \in File, NEW w \in {"config", "web"}, NEW f, f = Deleted \/ f = Made(w)
  PROVE  f \in File /\ f.state # "whole"
BY DEF Deleted, Made, File

-----------------------------------------------------------------------------
(* What a step leaves alone.                                               *)

\* Steps that keep what the invariant is about, but for the queue and the handler.
LEMMA Stands ==
  ASSUME IInv, UNCHANGED <<configVars, apart, promised>>,
         inbox' \in Seq(Asks),
         inbox # <<>> => inbox' # <<>> /\ Head(inbox') = Head(inbox),
         WebShape', web'.request.req \in Nat,
         Posting' => Posting /\ web'.text = web.text
  PROVE  IInv'
<1>1. SavedTypes'  BY DEF IInv, TypeInv, SavedTypes, configVars
<1>2. WebTypes'  BY DEF IInv, TypeInv, WebTypes
<1>3. BootInv'  BY DEF IInv, BootInv, configVars, NotSaving
<1>4. SavedInv'  BY DEF IInv, SavedInv, configVars, Kept, NotSaving
<1> QED  BY <1>1, <1>2, <1>3, <1>4 DEF IInv, TypeInv

LEMMA RequestIs ==
  ASSUME IInv, NEW m \in Requests
  PROVE  m \in Asks /\ m.req \in Nat
<1>1. web.request.req + 1 \in Nat  BY DEF IInv, TypeInv, WebTypes
<1> QED  BY <1>1 DEF Requests, Asks

LEMMA IdleIs ==
  ASSUME NEW m, NEW st, NEW an, m.req \in Nat,
         web' = Idle(m, st, an) \/ web' = [Idle(m, st, an) EXCEPT !.step = "waiting"]
  PROVE  WebShape' /\ web'.request.req \in Nat /\ ~Posting'
<1>1. web'.step \in {"idle", "waiting"} /\ web'.request = m  BY DEF Idle
<1>2. WebShape'  BY DEF Idle, WebShape
<1> QED  BY <1>1, <1>2 DEF Posting

\* The bridge and the capture do not touch what is saved.
LEMMA BridgeKeeps == ASSUME IInv, Bridge  PROVE IInv'
<1>1. inbox \in Seq(Asks) /\ WebShape /\ web.request.req \in Nat
  BY DEF IInv, TypeInv, SavedTypes, WebTypes
<1>2. UNCHANGED <<configVars, apart, promised>>  BY DEF Bridge
<1>3. CASE \E m \in Requests : Sent(m) \/ SendFails(m)
  <2>1. PICK m \in Requests : Sent(m) \/ SendFails(m)  BY <1>3
  <2>2. m \in Asks /\ m.req \in Nat  BY RequestIs
  <2>3. \E st \in {0, 200, 500} : \/ web' = Idle(m, st, None)
                                 \/ web' = [Idle(m, st, None) EXCEPT !.step = "waiting"]
    BY <2>1 DEF Sent, SendFails, Answers
  <2>4. WebShape' /\ web'.request.req \in Nat /\ ~Posting'
    BY <2>2, <2>3, IdleIs
  <2>5. Queue(m) \/ UNCHANGED inbox  BY <2>1 DEF Sent, SendFails
  <2>6. inbox' \in Seq(Asks) /\ (inbox # <<>> => inbox' # <<>> /\ Head(inbox') = Head(inbox))
    BY <1>1, <2>2, <2>5, Queued
  <2> QED  BY <1>2, <2>4, <2>6, Stands
<1>4. CASE Wakes \/ Builds \/ TimesOut \/ Looks \/ Captures
  <2>1. UNCHANGED inbox  BY <1>4 DEF Wakes, Builds, TimesOut, Looks, Captures
  <2>2. \/ UNCHANGED web
        \/ web' = [web EXCEPT !.step = "building"]
        \/ \E st, an : web' = Idle(web.request, st, an)
    BY <1>4 DEF Wakes, Builds, TimesOut, Looks, Captures, Answers
  <2>3. CASE UNCHANGED web
    BY <1>1, <1>2, <2>1, <2>3, Stands DEF WebShape, Posting
  <2>4. CASE web' = [web EXCEPT !.step = "building"]
    <3>1. web'.step = "building" /\ web'.request = web.request /\ WebShape'
      BY <1>1, <2>4 DEF WebShape
    <3> QED  BY <1>1, <1>2, <2>1, <3>1, Stands DEF Posting
  <2>5. CASE \E st, an : web' = Idle(web.request, st, an)
    <3>1. WebShape' /\ web'.request.req \in Nat /\ ~Posting'
      BY <1>1, <2>5, IdleIs
    <3> QED  BY <1>1, <1>2, <2>1, <3>1, Stands
  <2> QED  BY <2>2, <2>3, <2>4, <2>5
<1> QED  BY <1>3, <1>4 DEF Bridge

LEMMA OthersKeep == ASSUME IInv, Others  PROVE IInv'
<1>1. inbox \in Seq(Asks) /\ WebShape /\ web.request.req \in Nat
  BY DEF IInv, TypeInv, SavedTypes, WebTypes
<1>2. PICK m \in OtherAsks : Queue(m)  BY DEF Others
<1>3. m \in Asks  BY DEF OtherAsks, Asks
<1>4. inbox' \in Seq(Asks) /\ (inbox # <<>> => inbox' # <<>> /\ Head(inbox') = Head(inbox))
  BY <1>1, <1>2, <1>3, Queued
<1>5. UNCHANGED <<configVars, apart, promised, web>>  BY DEF Others, webVars
<1> QED  BY <1>1, <1>4, <1>5, Stands DEF WebShape, Posting

-----------------------------------------------------------------------------
(* The web server writes the file.                                         *)

\* What is merged holds what was promised and is not posted.
LEMMA PostConfigKeeps ==
  ASSUME IInv, NEW text \in [Keys -> Values \cup {None}], PostConfig(text)
  PROVE  IInv'
<1> DEFINE m == [id |-> "Post", key |-> None, req |-> web.request.req + 1]
<1>1. web' = [Idle(m, 0, None) EXCEPT !.step = "delete", !.text = Merged(text)]
  BY DEF PostConfig, Merges
<1>2. /\ web'.step = "delete" /\ web'.text = Merged(text) /\ web'.request = m /\ WebShape'
  BY <1>1 DEF Idle, WebShape
<1>3. UNCHANGED <<configVars, inbox>> /\ apart' = TRUE
  BY DEF PostConfig, Merges, configVars
<1>4. promised' = IF file.state = "whole"
                  THEN [k \in Keys |-> IF text[k] = None THEN promised[k] ELSE None]
                  ELSE NoPromise
  BY DEF PostConfig
<1>5. Merged(text) \in Texts  BY DEF Merged, Texts, IInv, TypeInv, SavedTypes, File
<1>6. promised' \in Texts  BY <1>4, NoTextIs DEF Texts, IInv, TypeInv, SavedTypes
<1>7. \A v : Kept(v) => Kept(v)'
  <2> SUFFICES ASSUME NEW v, Kept(v), NEW k \in Keys, promised'[k] # None
               PROVE  v[k] = promised'[k]
    BY DEF Kept
  <2>1. promised'[k] = promised[k]  BY <1>4 DEF NoPromise
  <2> QED  BY <2>1 DEF Kept
<1>8. Kept(live)' \/ buffer' # FALSE  BY <1>3, <1>7 DEF IInv, SavedInv, configVars, Kept
<1>9. Kept(file.values)' \/ file'.state # "whole"
  BY <1>3, <1>7 DEF IInv, SavedInv, configVars, Kept
<1>10. Kept(web.text)'
  <2> SUFFICES ASSUME NEW k \in Keys, promised'[k] # None
               PROVE  web'.text[k] = promised'[k]
    BY DEF Kept
  <2>1. file.state = "whole" /\ text[k] = None /\ promised'[k] = promised[k]
    BY <1>4 DEF NoPromise
  <2>2. Kept(file.values)  BY <2>1 DEF IInv, SavedInv
  <2>3. Merged(text)[k] = file.values[k]  BY <2>1 DEF Merged
  <2> QED  BY <1>2, <2>1, <2>2, <2>3 DEF Kept
<1>11. SavedTypes'  BY <1>3, <1>6 DEF IInv, TypeInv, SavedTypes, configVars
<1>12. WebTypes'
  <2>1. web'.request.req \in Nat  BY <1>2 DEF IInv, TypeInv, WebTypes
  <2> QED  BY <1>2, <1>5, <2>1 DEF WebTypes
<1>13. BootInv'  BY <1>3 DEF IInv, BootInv, configVars, NotSaving
<1>14. SavedInv'
  BY <1>3, <1>8, <1>9, <1>10 DEF IInv, SavedInv, configVars, NotSaving
<1> QED  BY <1>11, <1>12, <1>13, <1>14 DEF IInv, TypeInv

\* A step that changes the file and the handler's place only.
LEMMA FileStands ==
  ASSUME IInv, UNCHANGED <<live, buffer, saving, inbox, apart, promised>>, Posting,
         file' \in File, file'.state = "whole" => Kept(file'.values),
         WebShape', web'.request = web.request, web'.text = web.text
  PROVE  IInv'
<1>1. apart = TRUE /\ Kept(web.text) /\ web.text \in Texts
  BY DEF IInv, SavedInv, TypeInv, WebTypes
<1>2. SavedTypes'  BY DEF IInv, TypeInv, SavedTypes
<1>3. WebTypes'  BY <1>1 DEF IInv, TypeInv, WebTypes
<1>4. BootInv'  BY DEF IInv, BootInv, NotSaving
<1>5. SavedInv'  BY <1>1 DEF IInv, SavedInv, Kept, NotSaving
<1> QED  BY <1>2, <1>3, <1>4, <1>5 DEF IInv, TypeInv

LEMMA PostWritesKeep == ASSUME IInv, PostWrites  PROVE IInv'
<1>1. /\ file \in File /\ inbox \in Seq(Asks) /\ WebShape /\ web.request.req \in Nat
      /\ file.state = "whole" => Kept(file.values)
  BY DEF IInv, TypeInv, SavedTypes, WebTypes, SavedInv
<1>2. UNCHANGED <<live, buffer, saving, apart, promised>>  BY DEF PostWrites
<1>3. ASSUME NEW st, web' = [web EXCEPT !.step = st]
      PROVE  WebShape' /\ web'.request = web.request /\ web'.text = web.text
  BY <1>1, <1>3 DEF WebShape
<1>4. CASE PostDeletes \/ PostCreates
  <2>1. file' \in File /\ file'.state # "whole"
    BY <1>1, <1>4, Incomplete DEF PostDeletes, PostCreates
  <2>2. Posting /\ UNCHANGED inbox /\ \E st : web' = [web EXCEPT !.step = st]
    BY <1>4 DEF PostDeletes, PostCreates, Posting
  <2> QED  BY <1>2, <1>3, <2>1, <2>2, FileStands
<1>5. CASE PostFills
  <2>1. Posting /\ UNCHANGED inbox /\ file' \in Filled("web", web.text)
        /\ \E st : web' = [web EXCEPT !.step = st]
    BY <1>5 DEF PostFills, Posting
  <2>2. web.text \in Texts /\ Kept(web.text)
    BY <2>1 DEF IInv, TypeInv, WebTypes, SavedInv
  <2>3. /\ file' \in File
        /\ \/ file'.state = "whole" /\ file'.values = web.text
           \/ file' = file
           \/ file'.state = "partial" /\ file'.values = file.values
    BY <1>1, <2>1, <2>2, FilledIs
  <2>4. file'.state = "whole" => Kept(file'.values)  BY <1>1, <2>2, <2>3
  <2> QED  BY <1>2, <1>3, <2>1, <2>3, <2>4, FileStands
<1>6. CASE PostFails
  <2>1. Posting /\ UNCHANGED <<file, inbox>> /\ web' = [web EXCEPT !.step = "reload"]
    BY <1>6 DEF PostFails
  <2> QED  BY <1>1, <1>2, <1>3, <2>1, FileStands
<1>7. CASE Reloads
  <2>1. UNCHANGED configVars  BY <1>2, <1>7 DEF Reloads, configVars
  <2>2. web' = Idle(web.request, 200, None)  BY <1>7 DEF Reloads, Answers
  <2>3. WebShape' /\ web'.request.req \in Nat /\ ~Posting'  BY <1>1, <2>2, IdleIs
  <2>4. Queue(SpiffsReady) \/ UNCHANGED inbox  BY <1>7 DEF Reloads
  <2>5. inbox' \in Seq(Asks) /\ (inbox # <<>> => inbox' # <<>> /\ Head(inbox') = Head(inbox))
    BY <1>1, <2>4, ReadyIs, Queued
  <2> QED  BY <1>2, <2>1, <2>3, <2>5, Stands
<1> QED  BY <1>4, <1>5, <1>6, <1>7 DEF PostWrites, PostSteps

-----------------------------------------------------------------------------
(* ModuleConfig and what shares its task.                                  *)

\* The first message after a start is none of these.
LEMMA NotFirst ==
  ASSUME IInv, NEW id, id # "SpiffsReady", Asked(id)  PROVE buffer = FALSE
BY DEF IInv, BootInv, Asked, TypeInv, SavedTypes

\* A step that takes a message, and changes neither memory nor file.
LEMMA TakenStands ==
  ASSUME IInv, NEW id, id # "SpiffsReady" \/ buffer = FALSE, Asked(id), inbox' = Tail(inbox),
         UNCHANGED <<configVars, apart, promised, web>>
  PROVE  IInv'
<1>1. inbox' \in Seq(Asks)  BY Handled DEF IInv, TypeInv, SavedTypes
<1>2. buffer = FALSE  BY NotFirst
<1>3. SavedTypes'  BY <1>1 DEF IInv, TypeInv, SavedTypes, configVars
<1>4. WebTypes'  BY DEF IInv, TypeInv, WebTypes, WebShape, Posting
<1>5. BootInv'  BY <1>2 DEF BootInv, configVars
<1>6. SavedInv'  BY DEF IInv, SavedInv, configVars, Kept, NotSaving, Posting
<1> QED  BY <1>3, <1>4, <1>5, <1>6 DEF IInv, TypeInv

LEMMA GetsKeep == ASSUME IInv, Gets, UNCHANGED webVars  PROVE IInv'
<1>1. /\ Asked("Get") /\ inbox' = Tail(inbox) /\ UNCHANGED <<configVars, apart, web>>
  BY DEF Gets, GetHandled, webVars
<1>2. CASE apart = TRUE
  <2>1. UNCHANGED promised  BY <1>2 DEF Gets
  <2> QED  BY <1>1, <2>1, TakenStands
<1>3. CASE apart # TRUE
  <2>1. /\ inbox' \in Seq(Asks) /\ Head(inbox) \in Asks /\ Head(inbox).id = "Get"
        /\ saving = NotSaving
    BY <1>1, Handled DEF IInv, TypeInv, SavedTypes
  <2>2. PICK k \in Keys : k = Head(inbox).key  BY <2>1, GetIs
  <2>3. promised' = promised \/ promised' = [promised EXCEPT ![k] = live[k]]
    BY <2>2 DEF Gets
  <2>4. buffer = FALSE /\ Kept(live) /\ file.state = "whole" /\ file.values = live /\ ~Posting
    BY <1>1, <1>3, <2>1, NotFirst DEF IInv, SavedInv
  <2>5. promised \in Texts /\ live \in [Keys -> Values]  BY DEF IInv, TypeInv, SavedTypes
  <2>6. promised' \in Texts  BY <2>3, <2>5 DEF Texts
  <2>7. \A j \in Keys : promised'[j] # None => live[j] = promised'[j]
    BY <2>3, <2>4, <2>5 DEF Kept, Texts
  <2>8. SavedTypes'  BY <1>1, <2>1, <2>6 DEF IInv, TypeInv, SavedTypes, configVars
  <2>9. WebTypes'  BY <1>1 DEF IInv, TypeInv, WebTypes, WebShape, Posting
  <2>10. BootInv'  BY <1>1, <2>4 DEF BootInv, configVars
  <2>11. SavedInv'
    BY <1>1, <1>3, <2>1, <2>4, <2>7 DEF SavedInv, configVars, Kept, NotSaving, Posting
  <2> QED  BY <2>8, <2>9, <2>10, <2>11 DEF IInv, TypeInv
<1> QED  BY <1>2, <1>3

\* The key that is set is promised no more; what is saved is what is in memory.
LEMMA SetsKeep == ASSUME IInv, Sets, UNCHANGED webVars  PROVE IInv'
<1>1. /\ Asked("Set") /\ inbox' = Tail(inbox) /\ live' = Applied(Head(inbox))
      /\ UNCHANGED <<buffer, file, web>> /\ apart' = TRUE
      /\ promised' = [promised EXCEPT ![Head(inbox).key] = None]
      /\ saving' = saving \/ saving' = [step |-> "delete", text |-> live']
  BY DEF Sets, SetHandled, SetNotSaved, Saves, Text, webVars
<1>2. /\ inbox' \in Seq(Asks) /\ Head(inbox) \in Asks /\ Head(inbox).id = "Set"
      /\ saving = NotSaving
  BY <1>1, Handled DEF IInv, TypeInv, SavedTypes
<1>3. PICK k \in Keys, v \in Values : k = Head(inbox).key /\ v = Head(inbox).value
  BY <1>2, SetIs
<1>4. live \in [Keys -> Values] /\ promised \in Texts /\ saving \in Saving
  BY DEF IInv, TypeInv, SavedTypes
<1>5. live' = [live EXCEPT ![k] = v]  BY <1>1, <1>3 DEF Applied
<1>6. live' \in [Keys -> Values] /\ promised' \in Texts
  BY <1>1, <1>3, <1>4, <1>5 DEF Texts
<1>7. \A j \in Keys : promised'[j] # None => promised[j] = promised'[j] /\ live'[j] = live[j]
  BY <1>1, <1>3, <1>4, <1>5 DEF Texts
<1>8. buffer = FALSE /\ Kept(live)  BY <1>1, NotFirst DEF IInv, SavedInv
<1>9. live' \in Texts  BY <1>6 DEF Texts
<1>10. saving' \in Saving  BY <1>1, <1>4, <1>9 DEF Saving
<1>11. SavedTypes'  BY <1>1, <1>2, <1>6, <1>10 DEF IInv, TypeInv, SavedTypes
<1>12. WebTypes'  BY <1>1 DEF IInv, TypeInv, WebTypes, WebShape, Posting
<1>13. BootInv'  BY <1>1, <1>8 DEF BootInv
<1>14. SavedInv'
  <2>1. Kept(live)'  BY <1>7, <1>8 DEF Kept
  <2>2. file'.state = "whole" => Kept(file.values)'  BY <1>1, <1>7 DEF IInv, SavedInv, Kept
  <2>3. Posting' => Kept(web.text)' /\ apart' = TRUE
    BY <1>1, <1>7 DEF IInv, SavedInv, Kept, Posting
  <2>4. saving' # NotSaving' => saving'.text = live' /\ apart' = TRUE  BY <1>1, <1>2 DEF NotSaving
  <2> QED  BY <1>1, <2>1, <2>2, <2>3, <2>4 DEF SavedInv
<1> QED  BY <1>11, <1>12, <1>13, <1>14 DEF IInv, TypeInv

LEMMA LoadsKeep == ASSUME IInv, Loads, UNCHANGED webVars  PROVE IInv'
<1>1. /\ Asked("SpiffsReady") /\ inbox' = Tail(inbox) /\ buffer' = FALSE
      /\ live' = Parsed \/ live' = live
      /\ saving' = [step |-> "delete", text |-> live']
      /\ UNCHANGED <<file, web>> /\ apart' = TRUE
      /\ promised' = IF file.state # "whole" \/ live' # Parsed THEN NoPromise ELSE promised
  BY DEF Loads, LoadHandled, LoadFails, Saves, Text, webVars
<1>2. inbox' \in Seq(Asks)  BY <1>1, Handled DEF IInv, TypeInv, SavedTypes
<1>3. live \in [Keys -> Values] /\ promised \in Texts  BY DEF IInv, TypeInv, SavedTypes
<1>4. live' \in [Keys -> Values] /\ live' \in Texts
  <2>1. live' \in [Keys -> Values]  BY <1>1, <1>3, ParsedIs DEF IInv
  <2> QED  BY <2>1 DEF Texts
<1>5. saving' \in Saving /\ promised' \in Texts
  BY <1>1, <1>3, <1>4, NoTextIs DEF Saving
<1>6. SavedTypes'  BY <1>1, <1>2, <1>4, <1>5 DEF IInv, TypeInv, SavedTypes
<1>7. WebTypes'  BY <1>1 DEF IInv, TypeInv, WebTypes, WebShape, Posting
<1>8. BootInv'  BY <1>1 DEF BootInv
<1>9. SavedInv'
  <2>1. CASE promised' = NoPromise
    <3>1. \A v : \A k \in Keys : promised'[k] # None => v[k] = promised'[k]
      BY <2>1 DEF NoPromise
    <3>2. apart' = TRUE /\ saving'.text = live'  BY <1>1
    <3> QED  BY <3>1, <3>2 DEF SavedInv, Kept
  <2>2. CASE file.state = "whole" /\ live' = Parsed /\ promised' = promised
    <3>1. Kept(Parsed) /\ Kept(file.values)  BY <2>2, ParsedIs DEF IInv, SavedInv
    <3>2. Kept(live)' /\ Kept(file.values)'  BY <1>1, <2>2, <3>1 DEF Kept
    <3>3. Posting' => Kept(web.text)' /\ apart' = TRUE
      BY <1>1, <2>2 DEF IInv, SavedInv, Kept, Posting
    <3> QED  BY <1>1, <3>2, <3>3 DEF SavedInv
  <2> QED  BY <1>1, <2>1, <2>2
<1> QED  BY <1>6, <1>7, <1>8, <1>9 DEF IInv, TypeInv

\* A step of a save.
LEMMA SavingStands ==
  ASSUME IInv, saving # NotSaving, UNCHANGED <<live, buffer, inbox, promised, web>>,
         file' \in File, saving' \in Saving,
         saving' # NotSaving => saving'.text = saving.text /\ apart' = TRUE,
         file'.state = "whole" => Kept(file'.values),
         Posting => apart' = TRUE,
         apart' # TRUE => file'.state = "whole" /\ file'.values = saving.text
  PROVE  IInv'
<1>1. buffer = FALSE /\ saving.text = live
  BY DEF IInv, BootInv, SavedInv, TypeInv, SavedTypes
<1>2. SavedTypes'  BY DEF IInv, TypeInv, SavedTypes
<1>3. WebTypes'  BY DEF IInv, TypeInv, WebTypes, WebShape, Posting
<1>4. BootInv'  BY <1>1 DEF BootInv
<1>5. SavedInv'  BY <1>1 DEF IInv, SavedInv, Kept, NotSaving, Posting
<1> QED  BY <1>2, <1>3, <1>4, <1>5 DEF IInv, TypeInv

LEMMA SaveStepsKeep == ASSUME IInv, SaveSteps \/ Saved, UNCHANGED webVars  PROVE IInv'
<1>1. /\ file \in File /\ saving \in Saving /\ (Posting => apart = TRUE)
      /\ file.state = "whole" => Kept(file.values)
      /\ saving # NotSaving => saving.text = live /\ apart = TRUE
  BY DEF IInv, TypeInv, SavedTypes, SavedInv
<1>2. UNCHANGED <<promised, web>>  BY DEF SaveSteps, Saved, webVars
<1>3. CASE SaveSteps /\ (Deletes \/ Creates)
  <2>1. file' \in File /\ file'.state # "whole"
    BY <1>1, <1>3, Incomplete DEF Deletes, Creates
  <2>2. /\ saving # NotSaving /\ UNCHANGED <<live, buffer, inbox, apart>>
        /\ \E st \in {"create", "fill"} : saving' = [saving EXCEPT !.step = st]
    BY <1>3 DEF SaveSteps, Deletes, Creates, NotSaving
  <2>3. saving' \in Saving /\ saving'.step # "none" /\ saving'.text = saving.text
    BY <1>1, <2>2 DEF Saving
  <2>4. saving' # NotSaving  BY <2>3 DEF NotSaving
  <2> QED  BY <1>1, <1>2, <2>1, <2>2, <2>3, <2>4, SavingStands
<1>4. CASE SaveSteps /\ SaveFails
  <2>1. /\ saving # NotSaving /\ saving' = NotSaving
        /\ UNCHANGED <<live, buffer, file, inbox, apart>>
    BY <1>4 DEF SaveSteps, SaveFails
  <2> QED  BY <1>1, <1>2, <2>1, NoTextIs, SavingStands
<1>5. CASE SaveSteps /\ LoadSkipped
  BY <1>2, <1>5, TakenStands DEF SaveSteps, LoadSkipped, IInv, TypeInv, SavedTypes
<1>6. CASE SaveSteps /\ GetUnanswered
  BY <1>2, <1>6, TakenStands DEF SaveSteps, GetUnanswered
<1>7. CASE Saved
  <2>1. /\ saving.step = "fill" /\ file' \in Filled("config", saving.text)
        /\ saving' = NotSaving /\ UNCHANGED <<live, buffer, inbox>>
        /\ apart' = (Posting \/ file'.state # "whole" \/ file'.values # saving.text)
    BY <1>7 DEF Saved, Fills
  <2>2. saving # NotSaving /\ saving.text \in Texts  BY <1>1, <2>1 DEF NotSaving, Saving
  <2>3. Kept(saving.text)
    BY <1>1, <2>2 DEF IInv, BootInv, SavedInv, TypeInv, SavedTypes
  <2>4. /\ file' \in File
        /\ \/ file'.state = "whole" /\ file'.values = saving.text
           \/ file' = file
           \/ file'.state = "partial" /\ file'.values = file.values
    BY <1>1, <2>1, <2>2, FilledIs
  <2>5. file'.state = "whole" => Kept(file'.values)  BY <1>1, <2>3, <2>4
  <2> QED  BY <1>1, <1>2, <2>1, <2>2, <2>4, <2>5, NoTextIs, SavingStands
<1> QED  BY <1>3, <1>4, <1>5, <1>6, <1>7 DEF SaveSteps

LEMMA StorageKeeps == ASSUME IInv, Storage  PROVE IInv'
<1>1. UNCHANGED webVars  BY DEF Storage
<1>2. CASE Gets \/ Sets \/ Loads \/ SaveSteps \/ Saved
  BY <1>1, <1>2, GetsKeep, SetsKeep, LoadsKeep, SaveStepsKeep
<1>3. CASE (InfoWritten \/ InfoRead \/ InfoUnheard) /\ UNCHANGED <<apart, promised>>
  <2>1. \E id \in {"InfoWrite", "InfoRead"} : Asked(id)
    BY <1>3 DEF InfoWritten, InfoRead, InfoUnheard
  <2>2. inbox' = Tail(inbox) /\ UNCHANGED <<configVars, web>>
    BY <1>1, <1>3 DEF InfoWritten, InfoRead, InfoUnheard, webVars
  <2> QED  BY <1>3, <2>1, <2>2, TakenStands
<1> QED  BY <1>2, <1>3 DEF Storage

-----------------------------------------------------------------------------
(* A start, with an empty file system or after a cut.                      *)

LEMMA Started == <<SpiffsReady>> \in Seq(Asks) /\ Head(<<SpiffsReady>>).id = "SpiffsReady"
BY ReadyIs

LEMMA StoppedIs ==
  ASSUME NEW n \in Nat, NEW w, w = [WebStopped EXCEPT !.request.req = n]
  PROVE  /\ w = [step |-> w.step, request |-> w.request, status |-> w.status,
                 answer |-> w.answer, text |-> w.text]
         /\ w.step = "idle" /\ w.request.req = n
BY DEF WebStopped, Idle, NoRequest

LEMMA PowerCutKeeps == ASSUME IInv, PowerCut  PROVE IInv'
<1>1. /\ live' = Defaults /\ buffer' = TRUE /\ saving' = NotSaving /\ inbox' = <<SpiffsReady>>
      /\ UNCHANGED file /\ apart' = TRUE
      /\ web' = [WebStopped EXCEPT !.request.req = web.request.req]
      /\ promised' = IF file.state = "whole" THEN promised ELSE NoPromise
  BY DEF PowerCut, ConfigStarts
<1>2. SavedTypes'
  BY <1>1, DefaultsAre, NoTextIs, Started DEF IInv, TypeInv, SavedTypes
<1>3. web.request.req \in Nat  BY DEF IInv, TypeInv, WebTypes
<1>4. WebTypes' /\ ~Posting'
  <2>1. PICK w : w = web'  OBVIOUS
  <2>2. /\ w = [step |-> w.step, request |-> w.request, status |-> w.status,
                answer |-> w.answer, text |-> w.text]
        /\ w.step = "idle" /\ w.request.req \in Nat
    BY <1>1, <1>3, <2>1, StoppedIs
  <2> QED  BY <2>1, <2>2 DEF WebTypes, WebShape, Posting
<1>5. BootInv'  BY <1>1, Started DEF BootInv, NotSaving
<1>6. SavedInv'
  BY <1>1, <1>4 DEF IInv, SavedInv, Kept, NotSaving
<1> QED  BY <1>2, <1>4, <1>5, <1>6 DEF IInv, TypeInv

LEMMA InitHolds == ASSUME Init  PROVE IInv
<1>1. /\ live = Defaults /\ buffer = TRUE /\ saving = NotSaving /\ inbox = <<SpiffsReady>>
      /\ file = [state |-> "absent", values |-> NoText, by |-> "config"]
      /\ web = WebStopped /\ apart = TRUE /\ promised = NoPromise
  BY DEF Init, ConfigInit, WebInit
<1>2. file \in File  BY <1>1, NoTextIs DEF File
<1>3. SavedTypes  BY <1>1, <1>2, DefaultsAre, NoTextIs, Started DEF SavedTypes
<1>4. WebTypes /\ ~Posting
  BY <1>1 DEF WebTypes, WebShape, Posting, WebStopped, Idle, NoRequest
<1>5. BootInv  BY <1>1, Started DEF BootInv
<1>6. SavedInv  BY <1>1, <1>4 DEF SavedInv
<1> QED  BY <1>3, <1>4, <1>5, <1>6 DEF IInv, TypeInv

LEMMA IInvKept == ASSUME IInv, [Next]_vars  PROVE IInv'
<1>1. CASE Bridge  BY <1>1, BridgeKeeps
<1>2. CASE \E text \in [Keys -> Values \cup {None}] : PostConfig(text)
  BY <1>2, PostConfigKeeps
<1>3. CASE PostWrites  BY <1>3, PostWritesKeep
<1>4. CASE Others  BY <1>4, OthersKeep
<1>5. CASE Storage  BY <1>5, StorageKeeps
<1>6. CASE PowerCut  BY <1>6, PowerCutKeeps
<1>7. CASE UNCHANGED vars
  <2>1. UNCHANGED <<configVars, apart, promised, inbox, web>>  BY <1>7 DEF vars, webVars
  <2> QED  BY <2>1, Stands DEF IInv, TypeInv, SavedTypes, WebTypes, WebShape, Posting
<1> QED  BY <1>1, <1>2, <1>3, <1>4, <1>5, <1>6, <1>7 DEF Next

-----------------------------------------------------------------------------
(* The theorem.                                                            *)

\* "update RAM + file": what ModuleConfig has answered with, once it was saved, is what it
\* works with until the key is set or posted again, although two writers meet at the file,
\* steps of the file system fail and the power is cut; only a cut, a load or a post that
\* finds the file incomplete may lose it.
THEOREM ReadBackStays == Spec => []ReadBackSurvives
<1>1. Init => IInv  BY InitHolds
<1>2. IInv /\ [Next]_vars => IInv'  BY IInvKept
<1>3. IInv => ReadBackSurvives
  BY DEF IInv, TypeInv, SavedTypes, SavedInv, Kept, ReadBackSurvives
<1> QED  BY <1>1, <1>2, <1>3, PTL DEF Spec
=============================================================================
