---------------------------- MODULE SagaContract ----------------------------
(* What a flow execution promises its caller (spec/05_SEMANTIC_MODEL.md:190): *)
(* it either completes all steps or compensates all completed steps that can  *)
(* be, unless it ran into trouble it cannot recognise or repair.  After such  *)
(* trouble a call that was given up may take effect when all is over.         *)
EXTENDS Integers

CONSTANTS Flows, Steps, Compensable

VARIABLES inEffect,   \* the steps of each execution whose effect is in place
          outcome,    \* "open", "committed" or "aborted"
          trouble     \* a call was lost, a compensation failed, or a crash

vars == <<inEffect, outcome, trouble>>

Init == /\ inEffect = [f \in Flows |-> {}]
        /\ outcome = [f \in Flows |-> "open"]
        /\ trouble = [f \in Flows |-> FALSE]

InTrouble(F) == trouble' = [f \in Flows |-> trouble[f] \/ f \in F]

Open(f) == outcome[f] = "open" \/ (outcome[f] = "aborted" /\ trouble[f])

Perform(f, s) == /\ Open(f) /\ s \notin inEffect[f]
                 /\ inEffect' = [inEffect EXCEPT ![f] = @ \cup {s}]
                 /\ \E F \in {{}, {f}} : InTrouble(F)
                 /\ UNCHANGED outcome

Undo(f, s) == /\ Open(f) /\ s \in inEffect[f]
              /\ inEffect' = [inEffect EXCEPT ![f] = @ \ {s}]
              /\ \E F \in {{}, {f}} : InTrouble(F)
              /\ UNCHANGED outcome

Strike(F) == /\ \A f \in F : outcome[f] = "open"
             /\ InTrouble(F)
             /\ UNCHANGED <<inEffect, outcome>>

Commit(f) == /\ outcome[f] = "open" /\ inEffect[f] = Steps
             /\ outcome' = [outcome EXCEPT ![f] = "committed"]
             /\ UNCHANGED <<inEffect, trouble>>

Abort(f) == /\ outcome[f] = "open"
            /\ inEffect[f] \cap Compensable = {} \/ trouble[f]
            /\ outcome' = [outcome EXCEPT ![f] = "aborted"]
            /\ UNCHANGED <<inEffect, trouble>>

Next == \/ \E f \in Flows : \/ \E s \in Steps : Perform(f, s) \/ Undo(f, s)
                            \/ Commit(f) \/ Abort(f)
        \/ \E F \in SUBSET Flows : Strike(F)

Spec == Init /\ [][Next]_vars
=============================================================================
