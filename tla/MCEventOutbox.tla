--------------------------- MODULE MCEventOutbox ---------------------------
(* Instances of EventOutbox for TLC: one event of each mode that matters. *)
EXTENDS EventOutbox, TLC

CONSTANTS e1, e2, w1, w2

TwoEvents == {e1, e2}
TwoWorkers == {w1, w2}
MixedDelivery == (e1 :> "exactly_once") @@ (e2 :> "at_least_once")
=============================================================================
