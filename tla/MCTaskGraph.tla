---------------------------- MODULE MCTaskGraph ----------------------------
(***************************************************************************)
(* Instances of TaskGraph for TLC: the chain from_execution_plan builds,   *)
(* and a fork, as callers and tests build by hand.                         *)
(***************************************************************************)
EXTENDS TaskGraph

CONSTANTS t1, t2, t3

Tasks == {t1, t2, t3}

\* One dependency per step, on the step before it.
ChainDeps == [t \in Tasks |-> CASE t = t1 -> {} [] t = t2 -> {t1} [] t = t3 -> {t2}]

\* One task that two others depend on.
ForkDeps == [t \in Tasks |-> CASE t = t1 -> {} [] OTHER -> {t1}]

AllRetryable == [t \in Tasks |-> TRUE]

=============================================================================
