-------------------------- MODULE MCSqliteService --------------------------
(***************************************************************************)
(* Requests for capabilities that open a transaction (with preconditions   *)
(* or not, with a subscriber that waits or not, with a second attempt or   *)
(* not), for two that do not, for two batch capabilities, and for the      *)
(* update route of an entity.                                              *)
(***************************************************************************)
EXTENDS SqliteService, TLC

CONSTANTS a, b, c, f, g

Capability(kind, guarded, waits, attempts) ==
    [kind |-> kind, guarded |-> guarded, waits |-> waits, effects |-> 2, attempts |-> attempts]

MCRoutes ==
    {Capability("transactional", TRUE, TRUE, 1), Capability("transactional", TRUE, FALSE, 2),
     Capability("transactional", FALSE, TRUE, 2), Capability("plain", TRUE, TRUE, 2),
     Capability("plain", FALSE, FALSE, 2),
     Capability("batch", FALSE, TRUE, 2), Capability("batch", FALSE, FALSE, 1),
     [Capability("update", FALSE, FALSE, 1) EXCEPT !.effects = 1]}

Alike == Permutations(Requests) \cup Permutations(Flushes)
=============================================================================
