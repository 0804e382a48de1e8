------------------------------ MODULE HttpReq ------------------------------
(***************************************************************************)
(* The requests of the web server (src/pkg/vere/io/http.c): what passes    *)
(* between the client (through h2o), the driver and %eyre, and the log     *)
(* streams, which the driver serves by itself.                             *)
(***************************************************************************)
EXTENDS Naturals, Sequences, SequencesExt, FiniteSets

CONSTANTS Recs,      \* requests
          MaxChunk,  \* bound on the chunks of all responses
          MaxLine    \* bound on the lines of a log stream

\* u3_hreq and u3_hgen.  lst: the list the request is in; gen: there is a generator;
\* tim: its timer runs; out: what h2o was given; fly: what h2o has not written yet;
\* kil: the cancels planned for it.
NoReq == [sat |-> "init", lst |-> "none", tim |-> FALSE, gen |-> FALSE, red |-> FALSE,
          dun |-> FALSE, bod |-> <<>>, out |-> <<>>, fly |-> "none", kil |-> 0]

VARIABLES rec,    \* h2o's side of a request: "new", "open" or "gone"
          req,    \* the driver's side
          peek,   \* requests whose scry has not returned
          ova,    \* events on their way to %eyre
          eyre,   \* what %eyre makes of a request
          said,   \* the chunks of its response
          eff,    \* effects on their way back
          cut,    \* the program has crashed
          rend    \* the driver has exited

rvars == <<rec, req, peek, ova, eyre, said, eff, cut, rend>>

Events == [typ : {"request", "cancel"}, rec : Recs]
Eff(typ, r, dat, complete) == [typ |-> typ, rec |-> r, dat |-> dat, complete |-> complete]

ReqTypeOK ==
    /\ rec \in [Recs -> {"new", "open", "gone"}]
    /\ \A r \in Recs : /\ req[r].sat \in {"init", "plan", "ripe"} /\ req[r].lst \in {"none", "con", "seq"}
                       /\ req[r].fly \in {"none", "busy", "final"} /\ req[r].kil \in 0 .. 1
    /\ peek \subseteq Recs /\ ova \in Seq(Events)
    /\ eyre \in [Recs -> {"idle", "asked", "going", "done", "dead"}]
    /\ {cut, rend} \subseteq BOOLEAN

ReqInit ==
    /\ rec = [r \in Recs |-> "new"] /\ req = [r \in Recs |-> NoReq] /\ peek = {} /\ ova = <<>>
    /\ eyre = [r \in Recs |-> "idle"] /\ said = [r \in Recs |-> <<>>] /\ eff = <<>>
    /\ cut = FALSE /\ rend = FALSE

\* _http_req_prepare(): a request in one of the two lists, with its timer.
Prepare(lst) == [NoReq EXCEPT !.lst = lst, !.tim = TRUE, !.sat = "plan"]

\* _http_hgen_send(): what is pending goes out, and nothing more until h2o asks.
HgenSend(q) ==
    [q EXCEPT !.red = FALSE, !.out = @ \o q.bod, !.bod = <<>>,
              !.fly = IF q.dun THEN "final" ELSE "busy", !.tim = ~q.dun \/ @]

\* _http_start_respond()
StartRespond(q, data, complete) ==
    IF q.sat # "plan" THEN q
    ELSE HgenSend([q EXCEPT !.sat = "ripe", !.tim = FALSE, !.gen = TRUE, !.red = TRUE,
                            !.dun = complete, !.bod = data])

\* A slip: what comes while h2o is busy replaces what is pending.
ContinueOver(q, data, complete) ==
    IF q.sat # "ripe" THEN q
    ELSE LET p == [q EXCEPT !.tim = FALSE, !.dun = complete, !.bod = data]
         IN  IF q.red THEN HgenSend(p) ELSE p

\* _http_continue_respond()
ContinueRespond(q, data, complete) ==
    IF q.sat # "ripe" THEN q
    ELSE LET p == [q EXCEPT !.tim = FALSE, !.dun = complete, !.bod = @ \o data]
         IN  IF q.red THEN HgenSend(p) ELSE p

\* Past its guard, _http_continue_respond() reads the generator, which a request
\* answered by its timer does not have.
NoGenerator(q) == q.sat = "ripe" /\ ~q.gen

\* h2o_send_error_generic(): h2o answers with a generator of its own.
SendError(q, code) == [q EXCEPT !.out = <<code>>, !.fly = "final"]

\* _http_req_kill()
Kill(r) == [typ |-> "cancel", rec |-> r]

\* _http_rec_accept(): a method it knows not is refused, the rest goes to %eyre.
RecAccept(r) ==
    /\ rec[r] = "new" /\ rec' = [rec EXCEPT ![r] = "open"]
    /\ \/ /\ req' = [req EXCEPT ![r] = SendError(@, 400)] /\ UNCHANGED ova
       \/ /\ req' = [req EXCEPT ![r] = Prepare("con")]
          /\ ova' = Append(ova, [typ |-> "request", rec |-> r])
    /\ UNCHANGED <<peek, eyre, said, eff, rend, cut>>

\* _http_sat_accept(): the status endpoint is answered at once.
SatAccept(r) ==
    /\ rec[r] = "new" /\ rec' = [rec EXCEPT ![r] = "open"]
    /\ \E code \in {204, 429} : req' = [req EXCEPT ![r] = SendError(@, code)]
    /\ UNCHANGED <<peek, ova, eyre, said, eff, rend, cut>>

\* _http_seq_accept(): without a cookie it is forbidden, with one the scry decides.
SeqAccept(r) ==
    /\ rec[r] = "new" /\ rec' = [rec EXCEPT ![r] = "open"]
    /\ \/ /\ req' = [req EXCEPT ![r] = StartRespond(Prepare("con"), <<403>>, TRUE)]
          /\ UNCHANGED peek
       \/ /\ peek' = peek \cup {r} /\ UNCHANGED req
    /\ UNCHANGED <<ova, eyre, said, eff, rend, cut>>

\* _http_seq_continue(): the scry returns.  It holds h2o's request, which is freed
\* if the client has gone.
SeqContinue(r) ==
    /\ r \in peek /\ peek' = peek \ {r}
    /\ IF rec[r] = "gone" THEN cut' = TRUE /\ UNCHANGED req
       ELSE /\ \/ req' = [req EXCEPT ![r] = StartRespond(Prepare("seq"), <<>>, FALSE)]
               \/ \E code \in {403, 500} :
                     req' = [req EXCEPT ![r] = StartRespond(Prepare("con"), <<code>>, TRUE)]
            /\ UNCHANGED cut
    /\ UNCHANGED <<rec, ova, eyre, said, eff, rend>>

\* _http_req_timer_cb(): a request that is still planned is cancelled and answered.
TimerCb(r) ==
    /\ req[r].tim
    /\ IF req[r].sat = "plan"
       THEN /\ req' = [req EXCEPT ![r] = SendError([req[r] EXCEPT !.tim = FALSE, !.sat = "ripe", !.kil = @ + 1], 504)]
            /\ ova' = Append(ova, Kill(r))
       ELSE /\ req' = [req EXCEPT ![r].tim = FALSE] /\ UNCHANGED ova
    /\ UNCHANGED <<rec, peek, eyre, said, eff, rend, cut>>

\* %eyre takes the next event; to cancel what it does not know (a log stream) means
\* nothing to it.
EyreTake ==
    /\ ova # <<>> /\ ova' = Tail(ova)
    /\ eyre' = [eyre EXCEPT ![Head(ova).rec] =
                   IF Head(ova).typ = "request" THEN "asked" ELSE IF @ = "idle" THEN @ ELSE "dead"]
    /\ UNCHANGED <<rec, req, peek, said, eff, rend, cut>>

Chunks == {x \in Recs \X (1 .. MaxChunk) : x[2] <= Len(said[x[1]])}

\* %eyre answers: %start, then %continue until it is complete.
EyreSay(r) ==
    /\ eyre[r] \in {"asked", "going"} /\ Cardinality(Chunks) < MaxChunk
    /\ \E complete \in BOOLEAN :
          /\ eff' = Append(eff, Eff(IF eyre[r] = "asked" THEN "start" ELSE "continue", r,
                                    <<Len(said[r]) + 1>>, complete))
          /\ eyre' = [eyre EXCEPT ![r] = IF complete THEN "done" ELSE "going"]
    /\ said' = [said EXCEPT ![r] = Append(@, Len(@) + 1)]
    /\ UNCHANGED <<rec, req, peek, ova, rend, cut>>

\* _http_search_req(): by server, connection and number.
Found(r) == rec[r] = "open" /\ req[r].lst = "con"

\* _http_ef_http_server(): the effect finds its request, or nobody.
Kick ==
    /\ eff # <<>> /\ eff' = Tail(eff)
    /\ LET e == Head(eff)
           r == e.rec
       IN  IF Found(r)
           THEN IF e.typ = "start"
                THEN req' = [req EXCEPT ![r] = StartRespond(@, e.dat, e.complete)] /\ UNCHANGED cut
                ELSE IF NoGenerator(req[r]) THEN cut' = TRUE /\ UNCHANGED req
                ELSE req' = [req EXCEPT ![r] = ContinueRespond(@, e.dat, e.complete)] /\ UNCHANGED cut
           ELSE UNCHANGED <<req, cut>>
    /\ UNCHANGED <<rec, peek, ova, eyre, said, rend>>

\* A slip: what came while h2o was busy waits for the next effect.
ProceedLate(r) ==
    /\ req[r].fly = "busy"
    /\ req' = [req EXCEPT ![r] = [@ EXCEPT !.fly = "none", !.red = TRUE]]
    /\ UNCHANGED <<rec, peek, ova, eyre, said, eff, rend, cut>>

\* _http_hgen_proceed(): h2o has written what it had.
Proceed(r) ==
    /\ req[r].fly = "busy"
    /\ req' = [req EXCEPT ![r] = LET p == [@ EXCEPT !.fly = "none", !.red = TRUE]
                                 IN  IF p.bod # <<>> \/ p.dun THEN HgenSend(p) ELSE p]
    /\ UNCHANGED <<rec, peek, ova, eyre, said, eff, rend, cut>>

\* A request that is not finished when h2o disposes of it: it is still planned
\* (_http_req_close()), or its generator is stopped before it is done
\* (_http_hgen_stop(), which h2o calls when it was not given everything).
Unfinished(q) == q.lst # "none" /\ (q.sat = "plan" \/ (q.gen /\ q.fly # "final" /\ ~q.dun))

\* h2o disposes of a request, which has been written or whose client has gone:
\* _http_hgen_stop(), then _http_req_done() or _http_seq_done().
Dispose(r) ==
    /\ rec[r] = "open" /\ rec' = [rec EXCEPT ![r] = "gone"]
    /\ LET u == Unfinished(req[r])
       IN  /\ req' = [req EXCEPT ![r] = [req[r] EXCEPT !.lst = "none", !.tim = FALSE, !.fly = "none",
                                                       !.kil = IF u THEN @ + 1 ELSE @]]
           /\ ova' = IF u THEN Append(ova, Kill(r)) ELSE ova
    /\ UNCHANGED <<peek, eyre, said, eff, rend, cut>>

Written(r) == req[r].fly = "final" /\ Dispose(r)

HangUp(r) == req[r].fly # "final" /\ Dispose(r)

Streams == {r \in Recs : req[r].lst = "seq"}

Stream(data, complete) ==
    [r \in Recs |-> IF r \in Streams THEN ContinueRespond(req[r], data, complete) ELSE req[r]]

\* _http_stream_slog(): a line for every open stream.
Slog ==
    /\ Streams # {} /\ \A r \in Streams : Len(req[r].out \o req[r].bod) < MaxLine
    /\ req' = Stream(<<0>>, FALSE)
    /\ UNCHANGED <<rec, peek, ova, eyre, said, eff, rend, cut>>

\* _http_seq_heartbeat_cb(): an empty one.
Heartbeat ==
    /\ Streams # {} /\ \A r \in Streams : Len(req[r].out \o req[r].bod) < MaxLine
    /\ req' = Stream(<<10>>, FALSE)
    /\ UNCHANGED <<rec, peek, ova, eyre, said, eff, rend, cut>>

\* _http_io_exit()
Exit ==
    /\ ~rend /\ rend' = TRUE /\ req' = Stream(<<0>>, TRUE)
    /\ UNCHANGED <<rec, peek, ova, eyre, said, eff, cut>>

ReqNext ==
    /\ ~cut
    /\ \/ \E r \in Recs : \/ RecAccept(r) \/ SatAccept(r) \/ SeqAccept(r) \/ SeqContinue(r) \/ TimerCb(r)
                          \/ EyreSay(r) \/ Proceed(r) \/ Written(r) \/ HangUp(r)
       \/ EyreTake \/ Kick \/ Slog \/ Heartbeat \/ Exit

\* The loop runs timers and callbacks, h2o writes to a client that reads or drops it,
\* the pier carries events and effects.
ReqFair ==
    /\ WF_rvars(~cut /\ EyreTake) /\ WF_rvars(~cut /\ Kick)
    /\ \A r \in Recs : /\ WF_rvars(~cut /\ TimerCb(r)) /\ WF_rvars(~cut /\ Proceed(r))
                       /\ WF_rvars(~cut /\ Written(r))

ReqSpec == ReqInit /\ [][ReqNext]_rvars /\ ReqFair
-----------------------------------------------------------------------------
Asked(r) == eyre[r] # "idle"

\* A request that has gone is completed by %eyre's response or cancelled there, once:
\* a timeout, a hang-up and a response that race never cancel twice or not at all.
CancelledOnce ==
    \A r \in Recs : Asked(r) /\ rec[r] = "gone" => req[r].kil = IF req[r].dun THEN 0 ELSE 1

\* What the client is sent is the beginning of what %eyre said, nothing lost, twice or
\* out of turn, and all of it when h2o was told it is complete; or it is a timeout.
\* Either way %eyre and the driver agree on which of them ended the request.
ResponseWhole ==
    /\ CancelledOnce
    /\ \A r \in Recs : Asked(r) =>
           \/ req[r].out = <<504>>
           \/ /\ IsPrefix(req[r].out \o req[r].bod, said[r])
              /\ req[r].fly = "final" => req[r].out = said[r] /\ eyre[r] # "going"

\* A request %eyre was asked is answered or gone at some time, and one that %eyre
\* completed is written to its end: no chunk that arrives while h2o is busy is
\* forgotten.
RequestEnds ==
    \A r \in Recs : /\ (Asked(r) ~> (req[r].sat # "plan" \/ rec[r] = "gone" \/ cut))
                    /\ (eyre[r] = "done" ~> (rec[r] = "gone" \/ cut))
=============================================================================
