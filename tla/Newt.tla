-------------------------------- MODULE Newt --------------------------------
(***************************************************************************)
(* Framing of the pipes between king, worker and control socket            *)
(* (src/pkg/vere/newt.c).  A message is a sequence of bytes; on the wire   *)
(* it follows a header of a tag byte and its length, least significant     *)
(* byte first.  The operating system cuts the stream of bytes wherever it  *)
(* likes.  Completed messages are queued and handed over all at once (the  *)
(* worker's side) or one per turn of the loop (the king's side).           *)
(***************************************************************************)
EXTENDS Naturals, Sequences, SequencesExt, FiniteSetsExt

CONSTANTS Byte,      \* the number of values of a byte: 256 in the code
          LenBytes,  \* bytes of the length: 4 in the code
          Messages,  \* the messages that are sent: sequences of bytes
          MaxSent    \* bound on their number

Bytes == 0 .. Byte - 1

\* What a one in a byte of the length counts for: the shifts by multiples of 8.
Place[i \in 0 .. LenBytes] == IF i = 0 THEN 1 ELSE Byte * Place[i - 1]

ASSUME NewtAssumption ==
    /\ {Byte, LenBytes} \subseteq Nat \ {0}
    /\ \A m \in Messages : m \in Seq(Bytes) /\ Len(m) \in 1 .. Place[LenBytes] - 1

VARIABLES wire,   \* bytes written and not yet read
          mes,    \* mes_u: [sat, has, len]: the bytes of a header or a body so far
          ext,    \* completed messages, from exit to entry
          tim,    \* tim_u is running
          sync,   \* u3_newt_read_sync() was called, not u3_newt_read()
          sent, got, open,
          bal,    \* bal_f was called by the reader: "no", "eof" or "decode"
          junk    \* something that is no frame was written

nvars == <<wire, mes, ext, tim, sync, sent, got, open, bal, junk>>

\* _newt_mess_head(), _newt_mess_tail()
MessHead == [sat |-> "head", has |-> <<>>, len |-> 1 + LenBytes]

MessTail(len) == [sat |-> "tail", has |-> <<>>, len |-> len]

NewtTypeOK ==
    /\ wire \in Seq(Bytes) /\ ext \in Seq(Seq(Bytes)) /\ got \in Seq(Seq(Bytes))
    /\ mes.sat \in {"head", "tail"} /\ Len(mes.has) < mes.len
    /\ {tim, sync, open, junk} \subseteq BOOLEAN /\ bal \in {"no", "eof", "decode"}

\* The length in a header is taken modulo the width of its field.
Header(len) == <<0>> \o [i \in 1 .. LenBytes |-> (len \div Place[i - 1]) % Byte]

\* A slip: the length is read most significant byte first.
LengthBig(hed) ==
    FoldLeft(LAMBDA n, i : n * Byte + hed[i + 1], 0, [i \in 1 .. LenBytes |-> i])

Length(hed) ==
    LET met[i \in 0 .. LenBytes] == IF i = 0 THEN 0 ELSE met[i - 1] + hed[i + 1] * Place[i - 1]
    IN  met[LenBytes]

NewtInit ==
    /\ wire = <<>> /\ mes = MessHead /\ ext = <<>> /\ tim = FALSE /\ sync \in BOOLEAN
    /\ sent = <<>> /\ got = <<>> /\ open = TRUE /\ bal = "no" /\ junk = FALSE

\* u3_newt_send()
NewtSend ==
    /\ Len(sent) < MaxSent /\ ~junk
    /\ \E m \in Messages :
           wire' = wire \o Header(Len(m)) \o m /\ sent' = Append(sent, m)
    /\ UNCHANGED <<mes, ext, tim, sync, got, open, bal, junk>>

\* A client of the control socket writes a header that is none: a wrong tag or no length.
NewtJunk ==
    /\ ~junk /\ junk' = TRUE
    /\ \E tag \in Bytes : wire' = wire \o <<tag>> \o [i \in 1 .. LenBytes |-> 0]
    /\ UNCHANGED <<mes, ext, tim, sync, sent, got, open, bal>>

\* What is in progress takes as much of a buffer as it needs.
Fill(s, buf) ==
    LET cop == Min({s.len - Len(s.has), Len(buf)})
    IN  [s EXCEPT !.has = @ \o SubSeq(buf, 1, cop)]

\* A turn of the loop of u3_newt_decode(), on the bytes buf that are left.
Turn(d) ==
    LET s    == Fill(d.mes, d.buf)
        rest == SubSeq(d.buf, Len(s.has) - Len(d.mes.has) + 1, Len(d.buf))
        next == IF Len(s.has) < s.len THEN [d EXCEPT !.mes = s]
                ELSE IF s.sat = "tail"
                     THEN [d EXCEPT !.ext = Append(@, s.has), !.mes = MessHead]
                ELSE IF s.has[1] # 0 \/ Length(s.has) = 0 THEN [d EXCEPT !.ok = FALSE]
                ELSE [d EXCEPT !.mes = MessTail(Length(s.has))]
    IN  [next EXCEPT !.buf = rest]

\* u3_newt_decode(): until the buffer is used up, a byte or more at a turn, or a
\* header is wrong.
Decode(d) ==
    LET turn[n \in 0 .. Len(d.buf)] ==
            IF n = 0 THEN d
            ELSE LET e == turn[n - 1] IN IF e.buf = <<>> \/ ~e.ok THEN e ELSE Turn(e)
    IN  turn[Len(d.buf)]

\* A slip: the timer is not started for what is left.
MeatNextLazy(q, run) ==
    /\ ext' = IF q = <<>> THEN q ELSE Tail(q)
    /\ tim' = run
    /\ got' = IF q = <<>> THEN got ELSE Append(got, Head(q))

\* _newt_meat_next(): the oldest message, and the timer if there are more.  A
\* timer that runs already is not stopped: it may find the queue empty.
MeatNext(q, run) ==
    /\ ext' = IF q = <<>> THEN q ELSE Tail(q)
    /\ tim' = (run \/ Len(q) > 1)
    /\ got' = IF q = <<>> THEN got ELSE Append(got, Head(q))

\* _newt_meat_next_sync(): all of them.
MeatNextSync(q) == ext' = <<>> /\ got' = got \o q /\ UNCHANGED tim

\* _newt_read_cb(), _newt_read_sync_cb() with the first n bytes of the stream.
NewtRead ==
    /\ open /\ bal = "no"
    /\ \E n \in 1 .. Len(wire) :
           LET d == Decode([mes |-> mes, ext |-> ext, ok |-> TRUE, buf |-> SubSeq(wire, 1, n)])
           IN  /\ wire' = SubSeq(wire, n + 1, Len(wire))
               /\ mes' = d.mes
               /\ bal' = IF d.ok THEN bal ELSE "decode"
               /\ IF ~d.ok THEN ext' = d.ext /\ UNCHANGED <<tim, got>>
                  ELSE IF sync THEN MeatNextSync(d.ext) ELSE MeatNext(d.ext, tim)
    /\ UNCHANGED <<sync, sent, open, junk>>

\* _newt_meat_next_cb()
NewtTimer ==
    /\ open /\ tim
    /\ MeatNext(ext, FALSE)
    /\ UNCHANGED <<wire, mes, sync, sent, open, bal, junk>>

\* The other end of the pipe is closed: reading stops, the timer does not.
NewtEof ==
    /\ open /\ bal = "no" /\ wire = <<>> /\ Len(sent) = MaxSent /\ ~junk
    /\ bal' = "eof"
    /\ UNCHANGED <<wire, mes, ext, tim, sync, sent, got, open, junk>>

\* u3_newt_moat_stop(): what is in progress and what is queued is disposed of.
NewtStop ==
    /\ open /\ open' = FALSE /\ mes' = MessHead /\ ext' = <<>> /\ tim' = FALSE
    /\ UNCHANGED <<wire, sync, sent, got, bal, junk>>

NewtNext == NewtSend \/ NewtJunk \/ NewtRead \/ NewtTimer \/ NewtEof \/ NewtStop

\* The pipe is read while there is something in it, and the timer runs out.
NewtFair == WF_nvars(NewtRead) /\ WF_nvars(NewtTimer)

NewtSpec == NewtInit /\ [][NewtNext]_nvars /\ NewtFair

-----------------------------------------------------------------------------
(* Properties *)

C == INSTANCE Channel

\* However the stream is cut and whichever way messages are handed over, the
\* reader gets the messages that were sent, whole, once and in order.
NewtIsChannel == C!ChannelSpec

\* Nothing is left behind: a message on its way is handed over unless the stream
\* is stopped or a header is wrong.  The last ones depend on the timer, also after the
\* end of the pipe.
NewtDelivers ==
    \A n \in 1 .. MaxSent : Len(sent) = n ~> (Len(got) >= n \/ ~open \/ bal = "decode")

=============================================================================
