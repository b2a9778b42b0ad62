------------------------------- MODULE Config -------------------------------
(***************************************************************************)
(* ModuleConfig (module_config.cpp) with hsys_config.cpp and the file      *)
(* below it (app_spiffs.cpp, pal_esp_idf_spiffs.cpp): the settings of the  *)
(* device, which live in memory and are saved as one file whenever one is  *)
(* set.  SPIFFS cannot truncate: the file is deleted, made anew and        *)
(* filled, and a power cut may come between.  The web server writes the    *)
(* same file (WebApi), and no lock is common to the two.                   *)
(*                                                                         *)
(* Abstracted: types and lengths of values, the five typed requests (each  *)
(* is answered as MsgConfigGetKey is), keys that do not exist, and what    *)
(* subscribers do on MsgConfigReady and MsgConfigUpdated.                  *)
(***************************************************************************)
EXTENDS Naturals, Sequences

CONSTANTS
  Keys,
  Values,
  Default,      \* the value every key is compiled with
  InboxDepth,   \* the length of the queue of storage_task
  None

ASSUME ConfigAssumption == Default \in Values /\ InboxDepth \in Nat \ {0}

VARIABLES
  live,     \* the table of app_config_t
  buffer,   \* m_json_buf, "freed after the config file has been read and written back"
  file,     \* Configs/DeviceConfigs.json: absent, partial or whole; by: who made it
  saving,   \* the save in progress: the next step of the file system, and the text
  inbox,    \* the messages queued for storage_task
  replies   \* the messages queued for the task of the web server

configVars == <<live, buffer, file, saving>>

Defaults == [k \in Keys |-> Default]

\* A text with no key in it; a text gives a value to some keys.
NoText == [k \in Keys |-> None]

NotSaving == [step |-> "none", text |-> NoText]

SpiffsReady == [id |-> "SpiffsReady"]

\* What a restart makes of the state; pre_init reserves the buffer of the first save.
ConfigStarts ==
  /\ live' = Defaults
  /\ buffer' = TRUE
  /\ saving' = NotSaving
  /\ inbox' = <<SpiffsReady>>
  /\ replies' = <<>>
  /\ UNCHANGED file

ConfigInit ==
  /\ live = Defaults
  /\ buffer = TRUE
  /\ file = [state |-> "absent", values |-> NoText, by |-> "config"]
  /\ saving = NotSaving
  /\ inbox = <<SpiffsReady>>
  /\ replies = <<>>

Asked(id) == saving = NotSaving /\ inbox # <<>> /\ Head(inbox).id = id

\* Messages are queued without waiting.
Queue(m) == Len(inbox) < InboxDepth /\ inbox' = Append(inbox, m)

Reply(m) == replies' = Append(replies, m)

-----------------------------------------------------------------------------
(* The handlers; a handler that saves goes on below.                       *)

\* Variant of Text: the text that is in the file already.
TextOld(values) == file.values

\* hsys_config_convert_to_json
Text(values) == values

Saves(values) == saving' = [step |-> "delete", text |-> Text(values)]

\* hsys_config_load_from_json: a key the text does not name keeps its value, and a text
\* that was cut short changes nothing.
Parsed == IF file.state # "whole" THEN live
          ELSE [k \in Keys |-> IF file.values[k] = None THEN live[k] ELSE file.values[k]]

\* _load_and_save
LoadHandled ==
  /\ Asked("SpiffsReady") /\ buffer
  /\ inbox' = Tail(inbox) /\ buffer' = FALSE
  /\ live' = Parsed /\ Saves(Parsed)
  /\ UNCHANGED <<file, replies>>

\* The file cannot be read; the defaults take its place.
LoadFails ==
  /\ Asked("SpiffsReady") /\ buffer
  /\ inbox' = Tail(inbox) /\ buffer' = FALSE
  /\ Saves(live)
  /\ UNCHANGED <<live, file, replies>>

\* "no JSON buffer - skipping load": there is one for the first message only.
LoadSkipped ==
  /\ Asked("SpiffsReady") /\ ~buffer
  /\ inbox' = Tail(inbox)
  /\ UNCHANGED <<configVars, replies>>

Applied(m) == [live EXCEPT ![m.key] = m.value]

\* _apply_config_set
SetHandled ==
  /\ Asked("Set")
  /\ inbox' = Tail(inbox)
  /\ live' = Applied(Head(inbox)) /\ Saves(Applied(Head(inbox)))
  /\ UNCHANGED <<buffer, file, replies>>

\* "no pool buf - value applied but not saved"
SetNotSaved ==
  /\ Asked("Set")
  /\ inbox' = Tail(inbox)
  /\ live' = Applied(Head(inbox))
  /\ UNCHANGED <<buffer, file, saving, replies>>

\* _send_config_value
GetHandled ==
  /\ Asked("Get")
  /\ inbox' = Tail(inbox)
  /\ Reply([id |-> "Value", key |-> Head(inbox).key, value |-> live[Head(inbox).key],
            req |-> Head(inbox).req])
  /\ UNCHANGED configVars

\* No message, or no room in the queue of the web server.
GetUnanswered ==
  /\ Asked("Get")
  /\ inbox' = Tail(inbox)
  /\ UNCHANGED <<configVars, replies>>

-----------------------------------------------------------------------------
(* pal_spiffs_file_write, by w.                                            *)

Deleted == [file EXCEPT !.state = "absent"]
Made(w) == [file EXCEPT !.state = "partial", !.by = w]

\* What is written to a file that another deleted or made anew since may be lost, or
\* leave no text that can be parsed.
Filled(w, text) ==
  {[state |-> "whole", values |-> text, by |-> w]} \cup
  {f \in {file, Made(w)} : file.state # "partial" \/ file.by # w}

Deletes ==
  /\ saving.step = "delete"
  /\ file' = Deleted
  /\ saving' = [saving EXCEPT !.step = "create"]
  /\ UNCHANGED <<live, buffer, inbox, replies>>

Creates ==
  /\ saving.step = "create"
  /\ file' = Made("config")
  /\ saving' = [saving EXCEPT !.step = "fill"]
  /\ UNCHANGED <<live, buffer, inbox, replies>>

Fills ==
  /\ saving.step = "fill"
  /\ file' \in Filled("config", saving.text)
  /\ saving' = NotSaving
  /\ UNCHANGED <<live, buffer, inbox, replies>>

\* unlink, fopen or fwrite fails: the module goes on as if it had not.
SaveFails ==
  /\ saving # NotSaving
  /\ saving' = NotSaving
  /\ UNCHANGED <<live, buffer, file, inbox, replies>>
=============================================================================
