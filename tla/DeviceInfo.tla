----------------------------- MODULE DeviceInfo -----------------------------
(***************************************************************************)
(* ModuleDeviceInfo (module_device_info.cpp) with hsys_device_info.cpp:    *)
(* what the device knows of itself, in memory only.  It shares the task of *)
(* ModuleConfig.  A value that is written is broadcast with the same       *)
(* message that answers a request to read one.                             *)
(***************************************************************************)
EXTENDS Config

CONSTANTS
  Items,     \* the entries of the table
  Writers,   \* write_perm of each item; none is "NULL table = open access"
  Readers    \* read_perm

VARIABLE info   \* of each item: its value and is_valid

InfoDefaults == [i \in Items |-> [value |-> Default, valid |-> FALSE]]

InfoInit == info = InfoDefaults

\* _perm_ok
Permitted(perm, m) == perm = {} \/ m \in perm

InfoValue(i, v, valid, req) ==
  [id |-> "InfoValue", key |-> i, value |-> v, valid |-> valid, req |-> req]

\* hsys_dev_info_write
Written(m) == IF Permitted(Writers[m.key], m.from)
              THEN [info EXCEPT ![m.key] = [value |-> m.value, valid |-> TRUE]]
              ELSE info

\* _handle_write: every subscriber hears of what is written.
InfoWritten ==
  /\ Asked("InfoWrite")
  /\ inbox' = Tail(inbox)
  /\ LET m == Head(inbox)
     IN /\ info' = Written(m)
        /\ IF Permitted(Writers[m.key], m.from)
           THEN Reply(InfoValue(m.key, m.value, TRUE, None))
           ELSE UNCHANGED replies
  /\ UNCHANGED configVars

\* _handle_read, by hsys_dev_info_read: answered even if it is denied.
InfoRead ==
  /\ Asked("InfoRead")
  /\ inbox' = Tail(inbox)
  /\ LET m == Head(inbox)
         granted == Permitted(Readers[m.key], m.from) /\ info[m.key].valid
     IN Reply(InfoValue(m.key, IF granted THEN info[m.key].value ELSE Default, granted, m.req))
  /\ UNCHANGED <<info, configVars>>

\* There is no message for the broadcast, or for the answer.
InfoUnheard ==
  /\ Asked("InfoWrite") \/ Asked("InfoRead")
  /\ inbox' = Tail(inbox)
  /\ info' = IF Asked("InfoWrite") THEN Written(Head(inbox)) ELSE info
  /\ UNCHANGED <<configVars, replies>>
=============================================================================
