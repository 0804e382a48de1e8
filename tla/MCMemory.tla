------------------------------ MODULE MCMemory ------------------------------
(* The loom and the hash table, each by itself: while one runs the other   *)
(* is parked.                                                              *)
EXTENDS Loom, Hamt

Scene == [slabs |-> {<<1, 1>>}, bufs |-> {}, paths |-> {}, memo |-> 0, raw |-> 0, pad |-> 7]

\* Home alone: boxes of several sizes, split, trimmed and compacted;
\* then edits and raw buffers.
MCHome == [words |-> 36, held |-> <<2>>] @@ [slabs |-> {<<1, 0>>, <<1, 1>>, <<13, 2>>, <<13, 13>>}] @@ Scene

MCEdits == [words |-> 28, held |-> <<2>>] @@ [paths |-> {<<2>>, <<3, 2>>}, bufs |-> {2}, raw |-> 1] @@ Scene

\* An inner road whose products are taken over.
MCRoads == [words |-> 34, held |-> <<2, 2>>] @@ [paths |-> {<<3, 2>>}] @@ Scene

\* A memo cache that is reclaimed when memory runs out.
MCMemos == [words |-> 36, held |-> <<1, 1>>] @@ [bufs |-> {1}, raw |-> 1, memo |-> 2] @@ Scene

\* Three roads: nouns of a senior road are unified.
MCDeep == [words |-> 43, held |-> <<0, 2, 2>>] @@ [pad |-> 1] @@ Scene

MCScenes == {MCHome, MCEdits, MCRoads, MCMemos, MCDeep}

\* The scene of the disagreement about u3a_malloc().
MCMemoScenes == {MCMemos}

MCMug == <<0, 0, 0, 1>>

LoomParked == loom = <<>> /\ state = "parked" /\ lim = <<>>

HamtParked == tab = <<>> /\ last = <<>> /\ want = -1

MemoryInit == (LoomInit /\ HamtParked) \/ (LoomParked /\ HamtInit)

MemoryNext ==
    \/ state # "parked" /\ LoomNext /\ UNCHANGED tabvars
    \/ state = "parked" /\ HamtNext /\ UNCHANGED lvars

MemorySpec == MemoryInit /\ [][MemoryNext]_<<lvars, tabvars>>

=============================================================================
