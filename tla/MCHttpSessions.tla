--------------------------- MODULE MCHttpSessions ---------------------------
(***************************************************************************)
(* Constants for HttpSessions: one update target asked about after the     *)
(* other.                                                                  *)
(***************************************************************************)
EXTENDS HttpSessions

CONSTANTS main, dt

MCSlots == <<main, dt>>
=============================================================================
