------------------------------ MODULE MCPipes ------------------------------
(* A pipe of three messages cut in every way, and, apart from it, the      *)
(* control socket: a component that is parked takes no step.               *)
EXTENDS Newt, Conn

MCMessages == {<<0>>, <<1, 0>>, <<0, 1, 1>>}

NewtParked ==
    /\ wire = <<>> /\ mes = MessHead /\ ext = <<>> /\ tim = FALSE /\ sync = FALSE
    /\ sent = <<>> /\ got = <<>> /\ open = FALSE /\ bal = "no" /\ junk = TRUE

ConnParked ==
    /\ nex = 1 /\ can = {} /\ inn = [c \in Coqs |-> <<>>] /\ used = [c \in Coqs |-> {}]
    /\ cran = <<>> /\ work = {} /\ out = [c \in Coqs |-> <<>>] /\ kan = FALSE /\ end = TRUE

MCInit == (NewtInit /\ ConnParked) \/ (ConnInit /\ NewtParked)

MCNext == (NewtNext /\ UNCHANGED cvars) \/ (ConnNext /\ UNCHANGED nvars)

MCSpec == MCInit /\ [][MCNext]_<<nvars, cvars>> /\ NewtFair /\ ConnFair

\* What the control socket and a pipe hold is well formed, and every answer on a
\* connection is to one of its requests, once each, but for a last one that reports
\* that the connection itself fails.
PipesRight == NewtTypeOK /\ ConnTypeOK /\ AnswersFit

=============================================================================
