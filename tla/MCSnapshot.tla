----------------------------- MODULE MCSnapshot -----------------------------
(* The instances of Snapshot that are checked. *)
EXTENDS Snapshot

(* The passing run loses power, which leaves all that a kill can leave. *)
MCPower == {"power"}
=============================================================================
