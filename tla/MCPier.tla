-------------------------------- MODULE MCPier -------------------------------
(***************************************************************************)
(* Pier on small instances.  The payloads are the ones the constants       *)
(* define.                                                                 *)
(***************************************************************************)
EXTENDS Pier

MCJob == PierJob
MCTills == {BootLen + 1}
NoTills == {}
MCExits == {"work"}
AllExits == {"init", "boot", "play", "wyrd", "work"}
=============================================================================
