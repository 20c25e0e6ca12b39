-------------------------- MODULE MigrationRunner --------------------------
(***************************************************************************)
(* The migration runner of a generated service: what the compiler puts     *)
(* into migrate.ts for a release, what `marrowc diff --write` adds to it,   *)
(* and the migrate() processes that bring one database up to date.         *)
(*                                                                         *)
(* A block is an id and its SQL; two SQL texts have the same sha256 only   *)
(* if they are the same, so a checksum is modelled by the SQL itself.  The *)
(* SQL of a generated block carries the hash of the whole source file.     *)
(***************************************************************************)
EXTENDS Integers, Sequences, FiniteSets

CONSTANTS Tables,        \* entities a source file may declare
          Columns,
          Runners,       \* migrate() processes
          FirstRelease,  \* the source first compiled: [models, cols]
          MatchesPath,   \* MatchesPath[m]: entities whose schema file path
                         \* contains the snake-case name of m
          References,    \* References[t]: tables the DDL of t has foreign keys to
          MaxEdits,      \* bound: releases after the first
          MaxCrashes,    \* bound: runs that die
          NoTable        \* the SQL of a diff that found only new tables

ASSUME MigrationAssumption ==
  /\ FirstRelease.models \in Seq(Tables)
  /\ FirstRelease.cols \in [Tables -> SUBSET Columns]
  /\ MatchesPath \in [Tables -> SUBSET Tables]
  /\ \A m \in Tables : m \in MatchesPath[m]
  /\ References \in [Tables -> SUBSET Tables]
  /\ MaxEdits \in Nat /\ MaxCrashes \in Nat
  /\ NoTable \notin Tables

VARIABLES
  models,     \* the source: declared entities, in order
  cols,       \* the source: the columns of each entity
  manual,     \* migrations/_manual: the statement of each file, in file order
  edits,      \* number of edits of the source; stands for source_hash
  tables,     \* the database: columns of each existing table
  ledger,     \* the database: schema_migrations, the recorded blocks
  log,        \* history: the ids of the committed blocks, in commit order
  pc,         \* "idle", "running", or how the last migrate() ended
  blocks,     \* allBlocks of a run
  seen,       \* appliedById of a run
  next,       \* index of the block the run is at
  crashes     \* history: runs that died

source == <<models, cols, manual, edits>>
database == <<tables, ledger, log>>
runner == <<pc, blocks, seen, next>>
vars == <<source, database, runner, crashes>>

Ended == {"idle", "done", "refused", "failed", "crashed"}

-----------------------------------------------------------------------------
(* The compiler: one generated block per schema file, then the manual files *)

\* allSchemaFiles.find(f => f.path.includes(snake(model.name)))
SchemaFile(i) ==
  models[CHOOSE j \in DOMAIN models :
           /\ models[j] \in MatchesPath[models[i]]
           /\ \A k \in 1 .. j - 1 : models[k] \notin MatchesPath[models[i]]]

\* The models whose schema file no earlier model has taken (seenPaths), in order.
Firsts == {i \in DOMAIN models : \A j \in 1 .. i - 1 : SchemaFile(j) # SchemaFile(i)}
Before(i) == {j \in Firsts : j < i}
OwnFile == [n \in 1 .. Cardinality(Firsts) |->
              CHOOSE i \in Firsts : Cardinality(Before(i)) = n - 1]

Generated(n) ==
  LET t == SchemaFile(OwnFile[n])
  IN  [id |-> [kind |-> "generated", n |-> n, table |-> t],
       sql |-> [op |-> "create", table |-> t, cols |-> cols[t], old |-> {}, source |-> edits]]

Manual(n) == [id |-> [kind |-> "manual", n |-> n, table |-> NoTable], sql |-> manual[n]]

AllBlocks == [n \in DOMAIN OwnFile |-> Generated(n)] \o [n \in DOMAIN manual |-> Manual(n)]

-----------------------------------------------------------------------------
(* Edits of the source, with or without `marrowc diff old new --write dir` *)

Statement(op, t, new, old) ==
  [op |-> op, table |-> t, cols |-> new, old |-> old, source |-> 0]

\* What runDiff writes for the change: a comment for a new table, nothing at
\* all when no model changed.
Release(statement, diff) ==
  /\ edits < MaxEdits
  /\ edits' = edits + 1
  /\ manual' = IF diff THEN Append(manual, statement) ELSE manual
  /\ UNCHANGED <<database, runner, crashes>>

Declared == {models[i] : i \in DOMAIN models}

AddColumn(t, c, diff) ==
  /\ t \in Declared /\ c \notin cols[t]
  /\ cols' = [cols EXCEPT ![t] = @ \cup {c}]
  /\ UNCHANGED models
  /\ Release(Statement("add", t, {c}, {}), diff)

\* A field declared @renamed_from(c).
RenameColumn(t, c, d, diff) ==
  /\ t \in Declared /\ c \in cols[t] /\ d \notin cols[t]
  /\ cols' = [cols EXCEPT ![t] = (@ \ {c}) \cup {d}]
  /\ UNCHANGED models
  /\ Release(Statement("rename", t, {d}, {c}), diff)

AddEntity(t, i, diff) ==
  /\ t \notin Declared /\ i \in 1 .. Len(models) + 1
  /\ models' = SubSeq(models, 1, i - 1) \o <<t>> \o SubSeq(models, i, Len(models))
  /\ UNCHANGED cols
  /\ Release(Statement("comment", NoTable, {}, {}), diff)

\* Any other edit: a capability, a prompt, a comment.
EditElsewhere ==
  /\ UNCHANGED <<models, cols>>
  /\ Release(Statement("comment", NoTable, {}, {}), FALSE)

-----------------------------------------------------------------------------
(* migrate() *)

Present(t) == t \in DOMAIN tables

\* Mutant of Runs: CREATE TRIGGER IF NOT EXISTS ends the schema file.
RunsTolerant(sql) ==
  CASE sql.op = "create" -> \A u \in References[sql.table] : u = sql.table \/ Present(u)
    [] sql.op = "add"    -> Present(sql.table)
    [] sql.op = "rename" -> /\ Present(sql.table)
                            /\ sql.old \subseteq tables[sql.table]
                            /\ sql.cols \cap tables[sql.table] = {}
    [] OTHER             -> TRUE

\* CREATE TABLE IF NOT EXISTS and the indexes tolerate an existing table, the
\* CREATE TRIGGER that ends the schema file does not (every entity is taken to
\* have the updated_at field that the trigger depends on).
Runs(sql) ==
  CASE sql.op = "create" -> /\ ~Present(sql.table)
                            /\ \A u \in References[sql.table] : u = sql.table \/ Present(u)
    [] sql.op = "add"    -> Present(sql.table)
    [] sql.op = "rename" -> /\ Present(sql.table)
                            /\ sql.old \subseteq tables[sql.table]
                            /\ sql.cols \cap tables[sql.table] = {}
    [] OTHER             -> TRUE

WithColumns(t, cs) == [u \in DOMAIN tables \cup {t} |-> IF u = t THEN cs ELSE tables[u]]

TablesAfter(sql) ==
  CASE sql.op = "create" -> IF Present(sql.table) THEN tables
                            ELSE WithColumns(sql.table, sql.cols)
    [] sql.op \in {"add", "rename"} ->
         WithColumns(sql.table, (tables[sql.table] \ sql.old) \cup sql.cols)
    [] OTHER -> tables

Recorded(id) == \E b \in ledger : b.id = id

End(r, how) ==
  /\ pc' = [pc EXCEPT ![r] = how]
  /\ UNCHANGED <<source, database, blocks, seen, next>>

\* connect, LEDGER_DDL, loadManualBlocks and the SELECT of applied entries.
Start(r) ==
  /\ pc[r] \in Ended
  /\ pc' = [pc EXCEPT ![r] = "running"]
  /\ blocks' = [blocks EXCEPT ![r] = AllBlocks]
  /\ seen' = [seen EXCEPT ![r] = ledger]
  /\ next' = [next EXCEPT ![r] = 1]
  /\ UNCHANGED <<source, database, crashes>>

\* CREATE TABLE IF NOT EXISTS of the ledger fails when another first run creates
\* it between the check and the insertion into the catalogue.
StartFails(r) ==
  /\ pc[r] \in Ended /\ ledger = {}
  /\ \E s \in Runners : pc[s] = "running" /\ next[s] = 1
  /\ End(r, "failed")
  /\ UNCHANGED crashes

AtBlock(r) == pc[r] = "running" /\ next[r] \in DOMAIN blocks[r]
Block(r) == blocks[r][next[r]]

\* Mutant of Skip: a recorded id is enough, whatever its checksum.
SkipSameId(r) ==
  /\ AtBlock(r)
  /\ \E p \in seen[r] : p.id = Block(r).id
  /\ next' = [next EXCEPT ![r] = @ + 1]
  /\ UNCHANGED <<source, database, pc, blocks, seen, crashes>>

Skip(r) ==
  /\ AtBlock(r)
  /\ Block(r) \in seen[r]
  /\ next' = [next EXCEPT ![r] = @ + 1]
  /\ UNCHANGED <<source, database, pc, blocks, seen, crashes>>

\* The recorded entry of b's id when its checksum is another one.
Prior(r, b) == {p \in seen[r] : p.id = b.id /\ p.sql # b.sql}

Refuse(r) == /\ AtBlock(r)
             /\ Prior(r, Block(r)) # {}
             /\ End(r, "refused")
             /\ UNCHANGED crashes

ToApply(r) == /\ AtBlock(r)
              /\ Block(r) \notin seen[r]
              /\ Prior(r, Block(r)) = {}

\* Mutant of Commits: schema_migrations has no primary key.
CommitsWithoutKey(b) == Runs(b.sql)

\* Both statements of the block's transaction succeed: its SQL and the INSERT,
\* which the primary key refuses for an id another run has recorded meanwhile.
Commits(b) == Runs(b.sql) /\ ~Recorded(b.id)

Apply(r) ==
  /\ ToApply(r) /\ Commits(Block(r))
  /\ tables' = TablesAfter(Block(r).sql)
  /\ ledger' = ledger \cup {Block(r)}
  /\ log' = Append(log, Block(r).id)
  /\ next' = [next EXCEPT ![r] = @ + 1]
  /\ UNCHANGED <<source, pc, blocks, seen, crashes>>

\* Mutant of Fail: the ledger row is inserted outside the transaction.
FailKeepsRow(r) ==
  /\ ToApply(r) /\ ~Commits(Block(r))
  /\ pc' = [pc EXCEPT ![r] = "failed"]
  /\ ledger' = ledger \cup {Block(r)}
  /\ UNCHANGED <<source, tables, log, blocks, seen, next, crashes>>

\* ROLLBACK and rethrow.
Fail(r) == ToApply(r) /\ ~Commits(Block(r)) /\ End(r, "failed") /\ UNCHANGED crashes

Finish(r) == /\ pc[r] = "running" /\ next[r] \notin DOMAIN blocks[r]
             /\ End(r, "done")
             /\ UNCHANGED crashes

\* Mutant of Crash: a block's SQL commits by itself, before its ledger row.
CrashLeavesSchema(r) ==
  /\ ToApply(r) /\ Commits(Block(r)) /\ crashes < MaxCrashes
  /\ tables' = TablesAfter(Block(r).sql)
  /\ pc' = [pc EXCEPT ![r] = "crashed"]
  /\ crashes' = crashes + 1
  /\ UNCHANGED <<source, ledger, log, blocks, seen, next>>

\* The process dies or loses its connection: an open transaction is undone.
Crash(r) == /\ pc[r] = "running" /\ crashes < MaxCrashes
            /\ crashes' = crashes + 1
            /\ End(r, "crashed")

-----------------------------------------------------------------------------

Init ==
  /\ models = FirstRelease.models /\ cols = FirstRelease.cols
  /\ manual = <<>> /\ edits = 0
  /\ tables = <<>> /\ ledger = {} /\ log = <<>>
  /\ pc = [r \in Runners |-> "idle"]
  /\ blocks = [r \in Runners |-> <<>>]
  /\ seen = [r \in Runners |-> {}]
  /\ next = [r \in Runners |-> 1]
  /\ crashes = 0

Edit == \/ \E t \in Tables, c \in Columns, diff \in BOOLEAN : AddColumn(t, c, diff)
        \/ \E t \in Tables, c, d \in Columns, diff \in BOOLEAN : RenameColumn(t, c, d, diff)
        \/ \E t \in Tables, i \in 1 .. Len(models) + 1, diff \in BOOLEAN : AddEntity(t, i, diff)
        \/ EditElsewhere

RunnerStep(r) ==
  Start(r) \/ StartFails(r) \/ Skip(r) \/ Refuse(r) \/ Apply(r) \/ Fail(r) \/ Finish(r)

Next == Edit \/ \E r \in Runners : RunnerStep(r) \/ Crash(r)

Spec == Init /\ [][Next]_vars

\* The operator, or the deployment's restart policy, runs migrate() again until
\* it succeeds, and a started run keeps going.
FairSpec == Spec /\ \A r \in Runners : WF_vars(RunnerStep(r))
-----------------------------------------------------------------------------
(* Properties *)

Statements == [op : {"create", "add", "rename", "comment"}, table : Tables \cup {NoTable},
               cols : SUBSET Columns, old : SUBSET Columns, source : Nat]

BlockIds == [kind : {"generated", "manual"}, n : Nat, table : Tables \cup {NoTable}]

BlockSet == [id : BlockIds, sql : Statements]

\* The source, the database, the ledger and the runs stay in their domains.
TypeOK ==
  /\ models \in Seq(Tables) /\ cols \in [Tables -> SUBSET Columns]
  /\ manual \in Seq(Statements) /\ edits \in Nat
  /\ DOMAIN tables \subseteq Tables /\ \A t \in DOMAIN tables : tables[t] \subseteq Columns
  /\ ledger \subseteq BlockSet /\ log \in Seq(BlockIds)
  /\ pc \in [Runners -> Ended \cup {"running"}]
  /\ blocks \in [Runners -> Seq(BlockSet)]
  /\ seen \in [Runners -> SUBSET BlockSet]
  /\ next \in [Runners -> Nat]
  /\ crashes \in Nat

\* Whatever runs overlap, die or are repeated, the SQL of a block id takes
\* effect at most once, and exactly when its ledger row is there.
AppliedOnce ==
  /\ \A i, j \in DOMAIN log : log[i] = log[j] => i = j
  /\ \A id \in {log[i] : i \in DOMAIN log} : Recorded(id)
  /\ \A b \in ledger : b.id \in {log[i] : i \in DOMAIN log}

RenamedAway(t, c) ==
  \E b \in ledger : b.sql.op = "rename" /\ b.sql.table = t /\ c \in b.sql.old

InDatabase(t, cs) == Present(t) /\ \A c \in cs \ tables[t] : RenamedAway(t, c)

\* The ledger is truthful: a recorded block's table exists with its columns,
\* except one that a recorded rename took away.
LedgerTruthful ==
  \A b \in ledger : b.sql.op # "comment" => InDatabase(b.sql.table, b.sql.cols)

\* A run gets past a block only when exactly that block, with that checksum,
\* is recorded: however stale the entries it loaded, it never builds on a
\* schema another release has changed under the same id.
PassedIsRecorded ==
  \A r \in Runners : \A i \in 1 .. next[r] - 1 : blocks[r][i] \in ledger

\* When migrate() of the current release reports success, every declared
\* entity has its table with its columns, except one that a rename file took
\* away when it was replayed on a newer schema.
SuccessMeansSchema ==
  \A r \in Runners : pc[r] = "done" /\ blocks[r] = AllBlocks =>
    \A t \in Declared : InDatabase(t, cols[t])

\* A release that is not edited is eventually installed, although runs
\* overlap, fail on each other's rows and die: what a dead run leaves behind
\* never blocks a rerun.
EventuallyInstalled == [](edits = 0) => <>[](\A i \in DOMAIN AllBlocks : AllBlocks[i] \in ledger)

-----------------------------------------------------------------------------
(* What the source says of upgrades, and the code does not do. *)

\* "Generate a new migration via 'marrowc diff --write' instead of editing
\* existing schemas": a release with a diff file for each edit is not refused.
DiffInsteadOfRefusal ==
  \A r \in Runners : pc[r] = "refused" =>
    Cardinality({i \in DOMAIN blocks[r] : blocks[r][i].id.kind = "manual"})
      < blocks[r][1].sql.source
=============================================================================
