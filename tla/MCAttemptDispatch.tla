---- MODULE MCAttemptDispatch ----
EXTENDS AttemptDispatch

\* A serial run of two attempts and a run of a group with one.
MCPlan == [s |-> <<1, 2>>, p |-> <<3>>]
====
