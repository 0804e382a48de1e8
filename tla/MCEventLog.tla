------------------------------- MODULE MCEventLog ----------------------------
(***************************************************************************)
(* EventLog on a small instance: two payloads, so that events of different     *)
(* content can be confused, and enough events for a second batch to be     *)
(* planned behind the first and for two processes to follow one another.   *)
(***************************************************************************)
EXTENDS EventLog

CONSTANTS a, b

MCJob == {a, b}
=============================================================================
