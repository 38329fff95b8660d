----------------------------- MODULE CaptureLog ------------------------------
(***************************************************************************)
(* What main/capture_store.c promises of the persistent capture: a log of  *)
(* numbered records that survives restarts, forgets only its oldest part,  *)
(* and never its latest record, so that no number is ever given out twice. *)
(***************************************************************************)
EXTENDS FiniteSets, Integers

CONSTANT Chunk  \* how many of the oldest records one loss may reach into

VARIABLE log  \* the numbers of the records that can be read back

Init == log = {}

Older(n) == {m \in log : m <= n}

Append ==
    \E n \in log' \ log :
        /\ \A m \in log : m < n
        /\ log' = log \cup {n}

Forget ==
    /\ log' \subseteq log
    /\ \A n \in log \ log' :
            /\ Cardinality(Older(n)) <= Chunk
            /\ \E m \in log' : n < m

Next == Append \/ Forget

Spec == Init /\ [][Next]_log
=============================================================================
