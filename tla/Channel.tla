------------------------------ MODULE Channel -------------------------------
(***************************************************************************)
(* What a newt pipe promises to its reader (vere.h, u3_moor_poke): the     *)
(* messages that were sent are handed over whole, once and in order, until *)
(* the stream is stopped.                                                  *)
(***************************************************************************)
EXTENDS Naturals, Sequences

CONSTANT Messages

VARIABLES sent, got, open

ChannelInit == sent = <<>> /\ got = <<>> /\ open \in BOOLEAN

ChannelSend ==
    /\ \E m \in Messages : sent' = Append(sent, m)
    /\ UNCHANGED <<got, open>>

ChannelDeliver ==
    /\ open
    /\ \E n \in Len(got) + 1 .. Len(sent) : got' = SubSeq(sent, 1, n)
    /\ UNCHANGED <<sent, open>>

ChannelStop == open /\ open' = FALSE /\ UNCHANGED <<sent, got>>

ChannelNext == ChannelSend \/ ChannelDeliver \/ ChannelStop

ChannelSpec == ChannelInit /\ [][ChannelNext]_<<sent, got, open>>

=============================================================================
