----------------------------- MODULE MCSagaFlow -----------------------------
(* Instances of SagaFlow for TLC: flows of three steps.                     *)
EXTENDS SagaFlow, TLC

CONSTANTS f1, f2

TwoFlows == {f1, f2}
SomeSteps == {1, 2}

\* Every capability of f1 is served under the base URL, the last of f2 is not;
\* nor is the second compensation of either.
Gateway == [s \in Steps |-> {"gateway"}]
StepGateway == (f1 :> Gateway) @@ (f2 :> [Gateway EXCEPT ![3] = {"orders"}])
UndoGateway == [f \in Flows |-> [Gateway EXCEPT ![2] = {"orders"}]]

AllFaults == {"refused", "lost", "undo_refused", "undo_lost", "crash"}
=============================================================================
