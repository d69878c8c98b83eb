----------------------------- MODULE MCAccessLog -----------------------------
(* Constant values for model-checking AccessLog. *)
EXTENDS AccessLog

Properties(seconds, nanos) ==
    [cluster |-> "c", time |-> [seconds |-> seconds, nanos |-> nanos]]

\* A duration that fits and one that does not; entries and properties that
\* are absent, which ends the process for TCP.
MCMessages ==
    {[kind |-> "http", entries |-> <<None, [common |-> Properties(5, 1)]>>],
     [kind |-> "http", entries |-> <<[common |-> None]>>],
     [kind |-> "tcp", entries |-> <<[common |-> Properties(2, 3)],
                                    [common |-> None]>>]}
=============================================================================
