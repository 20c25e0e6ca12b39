-------------------------- MODULE MCFlowCheckpoint --------------------------
(* Instances of FlowCheckpoint for TLC: two flows share the name of a         *)
(* checkpoint, and decisions are posted concurrently.                         *)
EXTENDS FlowCheckpoint

CONSTANTS r1, s1, s2, s3

OneRun == {r1}
ThreeSubmits == {s1, s2, s3}

TwoLists == [review |-> [cp \in Checkpoints |-> {"approve", "reject"}],
             draft  |-> [cp \in Checkpoints |-> {"approve", "regenerate"}]]
=============================================================================
