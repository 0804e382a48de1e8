----------------------------- MODULE DurableLog -----------------------------
(***************************************************************************)
(* What the event log promises the rest of the runtime: a sequence of      *)
(* events that only ever grows at its end, by whole batches, and an        *)
(* acknowledgement that covers a prefix of it and never recedes, however   *)
(* often the process that received it dies.                                *)
(***************************************************************************)
EXTENDS Integers, Sequences

CONSTANT Job   \* event payloads

VARIABLES
  log,   \* the durable events, in order
  ack    \* how many of them the client has been told of

logVars == <<log, ack>>

Init ==
  /\ log = <<>>
  /\ ack = 0

(* A batch becomes durable: all of it, after all that was there. *)
Extend ==
  /\ Len(log') > Len(log)
  /\ log' \in Seq(Job)
  /\ \A e \in 1 .. Len(log) : log'[e] = log[e]
  /\ ack' = ack

(* The client learns that a longer prefix is durable. *)
Acknowledge ==
  /\ ack' \in Int
  /\ ack < ack' /\ ack' <= Len(log)
  /\ log' = log

Next == Extend \/ Acknowledge

Spec == Init /\ [][Next]_logVars
=============================================================================
