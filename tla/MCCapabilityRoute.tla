------------------------- MODULE MCCapabilityRoute -------------------------
(* Instances of CapabilityRoute for TLC: a small pool that requests share. *)
EXTENDS CapabilityRoute

CONSTANTS r1, r2, c1, c2, c3

OneRequest == {r1}
TwoRequests == {r1, r2}
TwoConns == {c1, c2}
ThreeConns == {c1, c2, c3}

Capability(transactional, guarded, attempts) ==
  [transactional |-> transactional, guarded |-> guarded, attempts |-> attempts]

\* Transactional with preconditions and a retry clause, transactional without
\* either, and one that is not transactional.
MixedCapabilities == {Capability(TRUE, TRUE, 2), Capability(TRUE, FALSE, 2),
                      Capability(FALSE, TRUE, 1)}
OneCapability == {Capability(TRUE, FALSE, 1)}
=============================================================================
