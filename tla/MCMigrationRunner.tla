------------------------- MODULE MCMigrationRunner -------------------------
(* Instances of MigrationRunner for TLC. *)
EXTENDS MigrationRunner, TLC

CONSTANTS t1, t2, c1, c2, r1, r2

TwoTables == {t1, t2}
TwoColumns == {c1, c2}
TwoRunners == {r1, r2}
OneRunner == {r1}

\* One entity at first; the other one, added by an edit, belongs to it.
OneEntity == [models |-> <<t1>>, cols |-> (t1 :> {c1}) @@ (t2 :> {c2})]
NamesApart == (t1 :> {t1}) @@ (t2 :> {t2})
T2BelongsToT1 == (t1 :> {}) @@ (t2 :> {t1})
=============================================================================
