----------------------- MODULE CompileMigrateProofs -----------------------
(***************************************************************************)
(* Proofs about MigrationRunner and Compiler.  First half, MigrationRunner *)
(* for any tables, columns, edits, overlapping runs and crashes; they do   *)
(* not depend on what a release's blocks are, only on how migrate() treats *)
(* them.  Init, Next and Spec are those of MigrationRunner, IInv is its    *)
(* inductive invariant.  Second half: Compiler, for any files, edits and   *)
(* extension points.                                                       *)
(***************************************************************************)
EXTENDS MigrationRunner, Compiler,
        SequenceTheorems, FiniteSetTheorems, WellFoundedInduction, TLAPS

RecordedIds == {b.id : b \in ledger}

\* The entries a run loaded stay in the ledger; the log holds each recorded
\* id exactly once.
IInv ==
  /\ seen \in [Runners -> SUBSET ledger]
  /\ next \in [Runners -> Nat \ {0}]
  /\ DOMAIN blocks = Runners /\ blocks = [r \in Runners |-> blocks[r]]
  /\ log \in Seq(RecordedIds)
  /\ \A i, j \in DOMAIN log : log[i] = log[j] => i = j
  /\ \A b \in ledger : \E i \in DOMAIN log : log[i] = b.id
  /\ PassedIsRecorded

\* A step that leaves the database and the runs' data alone, or only moves one
\* of them past a block that is recorded.
LEMMA SkipStep ==
  ASSUME IInv, NEW r \in Runners, Skip(r)
  PROVE  IInv'
<1>1. /\ ledger' = ledger /\ log' = log /\ blocks' = blocks /\ seen' = seen
      /\ next' = [next EXCEPT ![r] = next[r] + 1]
  BY DEF Skip, database
<1>2. next' \in [Runners -> Nat \ {0}]
  BY <1>1 DEF IInv
<1>3. PassedIsRecorded'
  <2> SUFFICES ASSUME NEW u \in Runners, NEW i \in 1 .. next'[u] - 1
               PROVE  blocks[u][i] \in ledger
    BY <1>1 DEF PassedIsRecorded
  <2>1. CASE i \in 1 .. next[u] - 1
    BY <2>1 DEF IInv, PassedIsRecorded
  <2>2. CASE i \notin 1 .. next[u] - 1
    <3>1. u = r /\ i = next[r]
      BY <1>1, <2>2 DEF IInv
    <3>2. Block(r) \in ledger
      BY DEF Skip, IInv
    <3>3. QED
      BY <3>1, <3>2 DEF Block
  <2>3. QED
    BY <2>1, <2>2
<1>4. QED
  BY <1>1, <1>2, <1>3 DEF IInv, RecordedIds

\* A committed block is recorded together with its first and only log entry.
LEMMA ApplyStep ==
  ASSUME IInv, NEW r \in Runners, Apply(r)
  PROVE  IInv'
<1> DEFINE b == Block(r)
<1>1. /\ ledger' = ledger \cup {b} /\ log' = Append(log, b.id)
      /\ blocks' = blocks /\ seen' = seen
      /\ next' = [next EXCEPT ![r] = next[r] + 1]
      /\ \A c \in ledger : c.id # b.id
  BY DEF Apply, Commits, Recorded
<1>2. next' \in [Runners -> Nat \ {0}]
  BY <1>1 DEF IInv
<1>3. seen' \in [Runners -> SUBSET ledger']
  BY <1>1 DEF IInv
<1>4. b.id \in RecordedIds' /\ RecordedIds \subseteq RecordedIds'
  BY <1>1 DEF RecordedIds
<1>5. log \in Seq(RecordedIds')
  BY <1>4, SeqMonotonic DEF IInv
<1>6. /\ log' \in Seq(RecordedIds')
      /\ Len(log') = Len(log) + 1 /\ Len(log) \in Nat
      /\ DOMAIN log = 1 .. Len(log) /\ DOMAIN log' = 1 .. Len(log')
      /\ \A i \in 1 .. Len(log) : log'[i] = log[i]
      /\ log'[Len(log) + 1] = b.id
  <2> HIDE DEF b
  <2>1. QED
    BY <1>1, <1>4, <1>5, AppendProperties, LenProperties
<1>7. \A i \in 1 .. Len(log) : log[i] # b.id
  <2>1. \A i \in 1 .. Len(log) : log[i] \in RecordedIds
    BY ElementOfSeq DEF IInv
  <2>2. QED
    BY <1>1, <2>1 DEF RecordedIds
<1>8. \A i, j \in DOMAIN log' : log'[i] = log'[j] => i = j
  <2> SUFFICES ASSUME NEW i \in 1 .. Len(log) + 1, NEW j \in 1 .. Len(log) + 1,
                      log'[i] = log'[j]
               PROVE  i = j
    BY <1>6
  <2>1. CASE i \in 1 .. Len(log) /\ j \in 1 .. Len(log)
    BY <1>6, <2>1 DEF IInv
  <2>2. CASE i = Len(log) + 1 \/ j = Len(log) + 1
    BY <1>6, <1>7, <2>2
  <2>3. QED
    BY <1>6, <2>1, <2>2
<1>9. \A c \in ledger' : \E i \in DOMAIN log' : log'[i] = c.id
  <2> SUFFICES ASSUME NEW c \in ledger'
               PROVE  \E i \in DOMAIN log' : log'[i] = c.id
    OBVIOUS
  <2>1. CASE c \in ledger
    BY <1>6, <2>1 DEF IInv
  <2>2. CASE c = b
    BY <1>6, <2>2
  <2>3. QED
    BY <1>1, <2>1, <2>2
<1>10. PassedIsRecorded'
  <2> SUFFICES ASSUME NEW u \in Runners, NEW i \in 1 .. next'[u] - 1
               PROVE  blocks[u][i] \in ledger \cup {b}
    BY <1>1 DEF PassedIsRecorded
  <2>1. CASE i \in 1 .. next[u] - 1
    BY <2>1 DEF IInv, PassedIsRecorded
  <2>2. CASE i \notin 1 .. next[u] - 1
    <3>1. u = r /\ i = next[r]
      BY <1>1, <2>2 DEF IInv
    <3>2. QED
      BY <3>1 DEF Block
  <2>3. QED
    BY <2>1, <2>2
<1>11. QED
  BY <1>1, <1>2, <1>3, <1>6, <1>8, <1>9, <1>10 DEF IInv

\* A run that starts loads what is recorded and has passed no block.
LEMMA StartStep ==
  ASSUME IInv, NEW r \in Runners, Start(r)
  PROVE  IInv'
<1>1. /\ ledger' = ledger /\ log' = log
      /\ blocks' = [blocks EXCEPT ![r] = AllBlocks]
      /\ seen' = [seen EXCEPT ![r] = ledger]
      /\ next' = [next EXCEPT ![r] = 1]
  BY DEF Start, database
<1>2. /\ seen' \in [Runners -> SUBSET ledger'] /\ next' \in [Runners -> Nat \ {0}]
      /\ DOMAIN blocks' = Runners /\ blocks' = [u \in Runners |-> blocks'[u]]
  <2>1. seen' \in [Runners -> SUBSET ledger']
    BY <1>1 DEF IInv
  <2>2. next' \in [Runners -> Nat \ {0}]
    BY <1>1 DEF IInv
  <2>3. DOMAIN blocks = Runners
    BY DEF IInv
  <2>4. blocks' = [u \in Runners |-> IF u = r THEN AllBlocks ELSE blocks[u]]
    BY <1>1, <2>3
  <2>5. QED
    BY <2>1, <2>2, <2>4
<1>3. PassedIsRecorded'
  <2> SUFFICES ASSUME NEW u \in Runners, NEW i \in 1 .. next'[u] - 1
               PROVE  blocks'[u][i] \in ledger
    BY <1>1 DEF PassedIsRecorded
  <2>1. u # r /\ next'[u] = next[u] /\ blocks'[u] = blocks[u]
    BY <1>1 DEF IInv
  <2>2. QED
    BY <2>1 DEF IInv, PassedIsRecorded
<1>4. QED
  BY <1>1, <1>2, <1>3 DEF IInv, RecordedIds

\* IInv is an invariant of the runner.
THEOREM Inductive == Spec => []IInv
<1>1. Init => IInv
  <2> SUFFICES ASSUME Init
               PROVE  IInv
    OBVIOUS
  <2>1. log \in Seq(RecordedIds) /\ DOMAIN log = {}
    BY EmptySeq DEF Init
  <2>2. PassedIsRecorded
    BY DEF Init, PassedIsRecorded
  <2>3. QED
    BY <2>1, <2>2 DEF Init, IInv
<1>2. IInv /\ [Next]_vars => IInv'
  <2> SUFFICES ASSUME IInv, [Next]_vars
               PROVE  IInv'
    OBVIOUS
  <2>1. CASE UNCHANGED <<ledger, log, blocks, seen, next>>
    BY <2>1 DEF IInv, PassedIsRecorded, RecordedIds
  <2>2. QED
    BY <2>1, SkipStep, ApplyStep, StartStep
       DEF Next, Edit, AddColumn, RenameColumn, AddEntity, EditElsewhere, Release,
           RunnerStep, StartFails, Refuse, Fail, Finish, Crash, End, vars, database, runner
<1>3. QED
  BY <1>1, <1>2, PTL DEF Spec

\* The SQL of a block id takes effect at most once and exactly when its ledger
\* row is there, however many runs of migrate() overlap, fail or die.
THEOREM BlocksAppliedOnce == Spec => []AppliedOnce
<1>1. IInv => AppliedOnce
  <2> SUFFICES ASSUME IInv
               PROVE  AppliedOnce
    OBVIOUS
  <2>1. \A i \in DOMAIN log : Recorded(log[i])
    BY ElementOfSeq, LenProperties DEF IInv, RecordedIds, Recorded
  <2>2. QED
    BY <2>1 DEF IInv, AppliedOnce
<1>2. QED
  BY <1>1, Inductive, PTL

\* A run only ever builds on blocks that are recorded with its own checksums.
THEOREM RunsBuildOnRecorded == Spec => []PassedIsRecorded
<1>1. IInv => PassedIsRecorded
  BY DEF IInv
<1>2. QED
  BY <1>1, Inductive, PTL

-----------------------------------------------------------------------------
(* The blocks of a release *)

Model == models \in Seq(Tables)

\* A set of numbers has a least one.
LEMMA LeastNumber ==
  ASSUME NEW T, T \subseteq Nat, T # {}
  PROVE  \E x \in T : \A y \in T : x <= y
<1> DEFINE Family == {1 .. x : x \in T}
<1>1. Family \subseteq FiniteSubsetsOf(Nat) /\ Family # {}
  <2>1. ASSUME NEW x \in T
        PROVE  1 .. x \in FiniteSubsetsOf(Nat)
    <3>1. 1 \in Int /\ x \in Int
      OBVIOUS
    <3>2. IsFiniteSet(1 .. x)
      BY <3>1, FS_Interval
    <3>3. QED
      BY <3>1, <3>2 DEF FiniteSubsetsOf
  <2>2. QED
    BY <2>1
<1>2. PICK F \in Family : \A G \in Family : <<G, F>> \notin StrictSubsetOrdering(Nat)
  <2> HIDE DEF Family
  <2>1. QED
    BY <1>1, WFMin, FS_StrictSubsetOrderingWellFounded
<1>3. PICK x \in T : F = 1 .. x
  BY <1>2
<1>4. ASSUME NEW y \in T, y < x
      PROVE  FALSE
  <2>1. x \in Nat /\ y \in Nat /\ x \in 1 .. x /\ x \notin 1 .. y
    BY <1>4
  <2>2. 1 .. y \in SUBSET Nat /\ 1 .. x \in SUBSET Nat /\ 1 .. y \subseteq 1 .. x
    BY <1>4, <2>1
  <2>3. <<1 .. y, 1 .. x>> \in StrictSubsetOrdering(Nat)
    BY <2>1, <2>2 DEF StrictSubsetOrdering
  <2>4. QED
    BY <1>2, <1>3, <2>3
<1>5. \A y \in T : x <= y
  BY <1>4
<1>6. QED
  BY <1>5

\* A model's schema file is that of the first declared model whose path matches.
LEMMA SchemaFileDeclared ==
  ASSUME Model, NEW i \in DOMAIN models
  PROVE  \E j \in DOMAIN models : /\ SchemaFile(i) = models[j]
                                  /\ models[j] \in MatchesPath[models[i]]
                                  /\ models[j] \in Tables
<1>1. DOMAIN models = 1 .. Len(models) /\ Len(models) \in Nat /\ \A j \in DOMAIN models : models[j] \in Tables
  BY LenProperties, ElementOfSeq DEF Model
<1> DEFINE T == {j \in DOMAIN models : models[j] \in MatchesPath[models[i]]}
<1>2. i \in T /\ \A j \in T : j \in Nat /\ j \in DOMAIN models
  BY <1>1, MigrationAssumption
<1>3. PICK j \in T : \A k \in T : j <= k
  BY <1>2, LeastNumber
<1>4. /\ j \in DOMAIN models /\ models[j] \in MatchesPath[models[i]]
      /\ \A k \in 1 .. j - 1 : models[k] \notin MatchesPath[models[i]]
  BY <1>1, <1>3
<1>5. QED
  BY <1>1, <1>4 DEF SchemaFile

\* The models that get a block are finitely many.
LEMMA FirstsFinite ==
  ASSUME Model
  PROVE  /\ IsFiniteSet(Firsts) /\ Cardinality(Firsts) \in Nat
         /\ \A i \in Firsts : i \in Nat /\ i \in DOMAIN models
<1>1. DOMAIN models = 1 .. Len(models) /\ Len(models) \in Nat
  BY LenProperties DEF Model
<1>2. IsFiniteSet(1 .. Len(models)) /\ Firsts \in SUBSET (1 .. Len(models))
  BY <1>1, FS_Interval DEF Firsts
<1>3. IsFiniteSet(Firsts)
  BY <1>2, FS_Subset
<1>4. Cardinality(Firsts) \in Nat
  BY <1>3, FS_CardinalityType
<1>5. QED
  BY <1>1, <1>2, <1>3, <1>4

\* Each of them has a place of its own among the blocks.
LEMMA Places ==
  ASSUME Model
  PROVE  /\ \A i \in Firsts : Cardinality(Before(i)) \in 0 .. Cardinality(Firsts) - 1
         /\ \A i, j \in Firsts : Cardinality(Before(i)) = Cardinality(Before(j)) => i = j
<1>1. /\ IsFiniteSet(Firsts) /\ Cardinality(Firsts) \in Nat /\ \A i \in Firsts : i \in Nat
  BY FirstsFinite
<1>2. \A i \in Firsts : /\ Before(i) \in SUBSET Firsts /\ i \notin Before(i)
                        /\ IsFiniteSet(Before(i)) /\ Cardinality(Before(i)) \in Nat
  BY <1>1, FS_Subset, FS_CardinalityType DEF Before
<1>3. \A i \in Firsts : Cardinality(Before(i)) < Cardinality(Firsts)
  BY <1>1, <1>2, FS_Subset
<1>4. ASSUME NEW i \in Firsts, NEW j \in Firsts, i < j
      PROVE  Cardinality(Before(i)) # Cardinality(Before(j))
  <2>1. Before(i) \in SUBSET Before(j) /\ i \in Before(j) /\ i \notin Before(i)
    BY <1>1, <1>4 DEF Before
  <2>2. QED
    BY <1>2, <2>1, FS_Subset
<1>5. \A i, j \in Firsts : i < j \/ j < i \/ i = j
  BY <1>1
<1>6. QED
  BY <1>1, <1>2, <1>3, <1>4, <1>5

\* OwnFile lists them, each once.
LEMMA OwnFileLists ==
  ASSUME Model
  PROVE  /\ OwnFile \in [1 .. Cardinality(Firsts) -> Firsts]
         /\ \A i \in Firsts : \E n \in DOMAIN OwnFile : OwnFile[n] = i
<1> DEFINE K == Cardinality(Firsts)
           place == [i \in Firsts |-> Cardinality(Before(i)) + 1]
<1>1. IsFiniteSet(Firsts) /\ K \in Nat
  BY FirstsFinite
<1>2. \A i \in Firsts : Cardinality(Before(i)) \in 0 .. K - 1
  BY Places
<1>3. \A i, j \in Firsts : Cardinality(Before(i)) = Cardinality(Before(j)) => i = j
  BY Places
<1>4. place \in Injection(Firsts, 1 .. K)
  <2>1. place \in [Firsts -> 1 .. K]
    BY <1>1, <1>2
  <2>2. \A i, j \in Firsts : place[i] = place[j] => i = j
    BY <1>1, <1>2, <1>3
  <2>3. QED
    BY <2>1, <2>2 DEF Injection, IsInjective
<1>5. IsFiniteSet(1 .. K) /\ Cardinality(1 .. K) = K
  BY <1>1, FS_Interval
<1>6. place \in Surjection(Firsts, 1 .. K)
  <2> HIDE DEF place
  <2>1. QED
    BY <1>4, <1>5, FS_Injection
<1>7. \A n \in 1 .. K : \E i \in Firsts : Cardinality(Before(i)) = n - 1
  <2>1. \A n \in 1 .. K : \E i \in Firsts : place[i] = n
    BY <1>6 DEF Surjection
  <2>2. QED
    BY <1>1, <1>2, <2>1
<1>8. \A n \in 1 .. K : OwnFile[n] \in Firsts /\ Cardinality(Before(OwnFile[n])) = n - 1
  BY <1>7 DEF OwnFile
<1>9. OwnFile \in [1 .. K -> Firsts]
  BY <1>8 DEF OwnFile
<1>10. ASSUME NEW i \in Firsts
       PROVE  \E n \in DOMAIN OwnFile : OwnFile[n] = i
  <2>1. PICK n \in 1 .. K : n - 1 = Cardinality(Before(i))
    <3>1. Cardinality(Before(i)) + 1 \in 1 .. K /\ (Cardinality(Before(i)) + 1) - 1 = Cardinality(Before(i))
      BY <1>1, <1>2
    <3>2. QED
      BY <3>1
  <2>2. OwnFile[n] = i
    BY <1>3, <1>8, <2>1
  <2>3. QED
    BY <1>9, <2>2
<1>11. QED
  BY <1>9, <1>10

\* What the SQL of a block may be: only a rename takes columns away.
Sensible(sql) ==
  /\ sql.op # "comment" => sql.table \in Tables
  /\ sql.op # "rename" => sql.old = {}

\* The blocks of the current release are well-formed and only renames take
\* columns away.
LEMMA AllBlocksType ==
  ASSUME TypeOK, \A n \in DOMAIN manual : Sensible(manual[n])
  PROVE  /\ AllBlocks \in Seq(BlockSet)
         /\ \A i \in DOMAIN AllBlocks : Sensible(AllBlocks[i].sql)
         /\ \A n \in DOMAIN OwnFile : \E i \in DOMAIN AllBlocks : AllBlocks[i] = Generated(n)
<1> DEFINE K == Cardinality(Firsts)
           generated == [n \in DOMAIN OwnFile |-> Generated(n)]
           byhand == [n \in DOMAIN manual |-> Manual(n)]
<1>1. Model /\ edits \in Nat /\ cols \in [Tables -> SUBSET Columns]
  BY DEF TypeOK, Model
<1>2. /\ K \in Nat /\ DOMAIN OwnFile = 1 .. K /\ OwnFile \in [1 .. K -> Firsts]
      /\ \A i \in Firsts : i \in DOMAIN models
  BY <1>1, FirstsFinite, OwnFileLists
<1>3. ASSUME NEW n \in 1 .. K
      PROVE  Generated(n) \in BlockSet /\ Sensible(Generated(n).sql)
  <2>1. OwnFile[n] \in DOMAIN models
    BY <1>2, <1>3
  <2>2. SchemaFile(OwnFile[n]) \in Tables
    BY <1>1, <2>1, SchemaFileDeclared
  <2>3. PICK t \in Tables : t = SchemaFile(OwnFile[n])
    BY <2>2
  <2>4. Generated(n) = [id |-> [kind |-> "generated", n |-> n, table |-> t],
                        sql |-> [op |-> "create", table |-> t, cols |-> cols[t],
                                 old |-> {}, source |-> edits]]
    BY <2>3 DEF Generated
  <2>5. [kind |-> "generated", n |-> n, table |-> t] \in BlockIds
    BY <1>2, <1>3 DEF BlockIds
  <2>6. [op |-> "create", table |-> t, cols |-> cols[t], old |-> {}, source |-> edits] \in Statements
    BY <1>1 DEF Statements
  <2>7. QED
    BY <2>4, <2>5, <2>6 DEF BlockSet, Sensible
<1>4. manual \in Seq(Statements) /\ Len(manual) \in Nat /\ DOMAIN manual = 1 .. Len(manual)
  BY LenProperties DEF TypeOK
<1>5. ASSUME NEW n \in 1 .. Len(manual)
      PROVE  Manual(n) \in BlockSet /\ Sensible(Manual(n).sql)
  <2>1. manual[n] \in Statements
    BY <1>4, <1>5, ElementOfSeq
  <2>2. [kind |-> "manual", n |-> n, table |-> NoTable] \in BlockIds
    BY <1>4, <1>5 DEF BlockIds
  <2>3. Manual(n) = [id |-> [kind |-> "manual", n |-> n, table |-> NoTable], sql |-> manual[n]]
    BY DEF Manual
  <2>4. Sensible(manual[n])
    BY <1>4, <1>5
  <2>5. QED
    BY <2>1, <2>2, <2>3, <2>4 DEF BlockSet
<1>6. /\ generated \in Seq(BlockSet) /\ Len(generated) = K
      /\ \A n \in 1 .. K : generated[n] = Generated(n)
  <2>1. generated \in [1 .. K -> BlockSet] /\ \A n \in 1 .. K : generated[n] = Generated(n)
    BY <1>2, <1>3
  <2> HIDE DEF generated, K
  <2>2. QED
    BY <1>2, <2>1
<1>7. /\ byhand \in Seq(BlockSet) /\ Len(byhand) = Len(manual)
      /\ \A n \in 1 .. Len(manual) : byhand[n] = Manual(n)
  <2>1. byhand \in [1 .. Len(manual) -> BlockSet] /\ \A n \in 1 .. Len(manual) : byhand[n] = Manual(n)
    BY <1>4, <1>5
  <2> HIDE DEF byhand
  <2>2. QED
    BY <1>4, <2>1
<1>8. AllBlocks = generated \o byhand
  BY DEF AllBlocks
<1> HIDE DEF generated, byhand, K
<1>9. /\ AllBlocks \in Seq(BlockSet) /\ Len(AllBlocks) = K + Len(manual)
      /\ \A i \in 1 .. K + Len(manual) :
           AllBlocks[i] = IF i <= K THEN generated[i] ELSE byhand[i - K]
  <2>1. /\ generated \o byhand \in Seq(BlockSet)
        /\ Len(generated \o byhand) = Len(generated) + Len(byhand)
        /\ \A i \in 1 .. Len(generated) + Len(byhand) :
             (generated \o byhand)[i] =
               IF i <= Len(generated) THEN generated[i] ELSE byhand[i - Len(generated)]
    BY <1>6, <1>7, ConcatProperties
  <2>2. QED
    BY <1>6, <1>7, <1>8, <2>1
<1>10. DOMAIN AllBlocks = 1 .. K + Len(manual)
  BY <1>9, LenProperties
<1>11. ASSUME NEW i \in DOMAIN AllBlocks
       PROVE  Sensible(AllBlocks[i].sql)
  <2>1. CASE i <= K
    <3>1. i \in 1 .. K /\ AllBlocks[i] = Generated(i)
      BY <1>2, <1>6, <1>9, <1>10, <1>11, <2>1
    <3>2. QED
      BY <1>3, <3>1
  <2>2. CASE ~(i <= K)
    <3>1. i - K \in 1 .. Len(manual) /\ AllBlocks[i] = Manual(i - K)
      <4>1. i - K \in 1 .. Len(manual)
        BY <1>2, <1>4, <1>10, <1>11, <2>2
      <4>2. AllBlocks[i] = byhand[i - K]
        BY <1>9, <1>10, <1>11, <2>2
      <4>3. QED
        BY <1>7, <4>1, <4>2
    <3>2. QED
      BY <1>5, <3>1
  <2>3. QED
    BY <2>1, <2>2
<1>12. ASSUME NEW n \in DOMAIN OwnFile
       PROVE  \E i \in DOMAIN AllBlocks : AllBlocks[i] = Generated(n)
  <2>1. n \in 1 .. K /\ n \in DOMAIN AllBlocks
    BY <1>2, <1>4, <1>10, <1>12
  <2>2. AllBlocks[n] = Generated(n)
    BY <1>2, <1>6, <1>9, <1>10, <2>1
  <2>3. QED
    BY <2>1, <2>2
<1>13. QED
  BY <1>9, <1>11, <1>12

-----------------------------------------------------------------------------
(* The database and its ledger *)

\* Only renames take columns away, a run that reports success is past its last
\* block, and the recorded blocks are in the database.
Truth ==
  /\ TypeOK
  /\ \A n \in DOMAIN manual : Sensible(manual[n])
  /\ \A r \in Runners : \A i \in DOMAIN blocks[r] : Sensible(blocks[r][i].sql)
  /\ \A r \in Runners : pc[r] = "done" => next[r] \notin DOMAIN blocks[r]
  /\ LedgerTruthful

\* Nothing is recorded at first.
LEMMA TruthInit == Init => Truth
<1> SUFFICES ASSUME Init
             PROVE  Truth
  OBVIOUS
<1>1. /\ DOMAIN manual = {} /\ DOMAIN tables = {} /\ manual \in Seq(Statements)
      /\ log \in Seq(BlockIds) /\ \A r \in Runners : blocks[r] = <<>> /\ blocks[r] \in Seq(BlockSet)
      /\ \A r \in Runners : DOMAIN blocks[r] = {}
  BY EmptySeq DEF Init
<1>2. TypeOK
  BY <1>1, MigrationAssumption DEF Init, TypeOK, Ended
<1>3. QED
  BY <1>1, <1>2 DEF Init, Truth, LedgerTruthful

\* An edit of the source adds at most one file, which renames a column if it
\* takes one away.
LEMMA ReleaseTruth ==
  ASSUME Truth, NEW statement \in Statements, Sensible(statement), NEW diff \in BOOLEAN,
         Release(statement, diff), models' \in Seq(Tables), cols' \in [Tables -> SUBSET Columns]
  PROVE  Truth'
<1>1. /\ UNCHANGED <<tables, ledger, log, pc, blocks, seen, next, crashes>>
      /\ edits' = edits + 1
      /\ manual' = IF diff THEN Append(manual, statement) ELSE manual
  BY DEF Release, database, runner
<1>2. manual \in Seq(Statements) /\ DOMAIN manual = 1 .. Len(manual) /\ Len(manual) \in Nat
  BY LenProperties DEF Truth, TypeOK
<1>3. manual' \in Seq(Statements) /\ \A n \in DOMAIN manual' : Sensible(manual'[n])
  <2>1. CASE diff
    <3>1. /\ manual' \in Seq(Statements) /\ Len(manual') = Len(manual) + 1
          /\ \A n \in 1 .. Len(manual) : manual'[n] = manual[n]
          /\ manual'[Len(manual) + 1] = statement
      BY <1>1, <1>2, <2>1, AppendProperties
    <3>2. DOMAIN manual' = 1 .. Len(manual) + 1
      BY <3>1, LenProperties
    <3>3. QED
      BY <1>2, <3>1, <3>2 DEF Truth
  <2>2. CASE ~diff
    BY <1>1, <1>2, <2>2 DEF Truth
  <2>3. QED
    BY <2>1, <2>2
<1>4. TypeOK'
  BY <1>1, <1>3 DEF Truth, TypeOK
<1>5. LedgerTruthful'
  BY <1>1 DEF Truth, LedgerTruthful, InDatabase, Present, RenamedAway
<1>6. QED
  BY <1>1, <1>3, <1>4, <1>5 DEF Truth

\* Every edit makes a release.
LEMMA EditTruth ==
  ASSUME Truth, Edit
  PROVE  Truth'
<1>1. /\ models \in Seq(Tables) /\ cols \in [Tables -> SUBSET Columns]
      /\ Len(models) \in Nat /\ \A k \in 1 .. Len(models) : models[k] \in Tables
  BY LenProperties, ElementOfSeq DEF Truth, TypeOK
<1>2. ASSUME NEW t \in Tables, NEW c \in Columns, NEW diff \in BOOLEAN, AddColumn(t, c, diff)
      PROVE  Truth'
  <2>1. models' \in Seq(Tables) /\ cols' \in [Tables -> SUBSET Columns]
    BY <1>1, <1>2 DEF AddColumn
  <2>2. Statement("add", t, {c}, {}) \in Statements /\ Sensible(Statement("add", t, {c}, {}))
    BY DEF Statement, Statements, Sensible
  <2>3. QED
    BY <1>2, <2>1, <2>2, ReleaseTruth DEF AddColumn
<1>3. ASSUME NEW t \in Tables, NEW c \in Columns, NEW d \in Columns, NEW diff \in BOOLEAN,
             RenameColumn(t, c, d, diff)
      PROVE  Truth'
  <2>1. models' \in Seq(Tables) /\ cols' \in [Tables -> SUBSET Columns]
    BY <1>1, <1>3 DEF RenameColumn
  <2>2. Statement("rename", t, {d}, {c}) \in Statements /\ Sensible(Statement("rename", t, {d}, {c}))
    BY DEF Statement, Statements, Sensible
  <2>3. QED
    BY <1>3, <2>1, <2>2, ReleaseTruth DEF RenameColumn
<1>4. ASSUME NEW t \in Tables, NEW i \in 1 .. Len(models) + 1, NEW diff \in BOOLEAN,
             AddEntity(t, i, diff)
      PROVE  Truth'
  <2>1. /\ SubSeq(models, 1, i - 1) \in Seq(Tables) /\ SubSeq(models, i, Len(models)) \in Seq(Tables)
        /\ <<t>> \in Seq(Tables)
    <3>1. SubSeq(models, 1, i - 1) \in Seq(Tables)
      BY <1>1, <1>4, SubSeqProperties
    <3>2. SubSeq(models, i, Len(models)) \in Seq(Tables)
      BY <1>1, <1>4, SubSeqProperties
    <3>3. QED
      BY <3>1, <3>2
  <2>2. SubSeq(models, 1, i - 1) \o <<t>> \o SubSeq(models, i, Len(models)) \in Seq(Tables)
    BY <2>1, ConcatProperties
  <2>3. models' \in Seq(Tables) /\ cols' \in [Tables -> SUBSET Columns]
    BY <1>1, <1>4, <2>2 DEF AddEntity
  <2>4. /\ Statement("comment", NoTable, {}, {}) \in Statements
        /\ Sensible(Statement("comment", NoTable, {}, {}))
    BY DEF Statement, Statements, Sensible
  <2>5. QED
    BY <1>4, <2>3, <2>4, ReleaseTruth DEF AddEntity
<1>5. CASE EditElsewhere
  <2>1. models' \in Seq(Tables) /\ cols' \in [Tables -> SUBSET Columns]
    BY <1>1, <1>5 DEF EditElsewhere
  <2>2. /\ Statement("comment", NoTable, {}, {}) \in Statements
        /\ Sensible(Statement("comment", NoTable, {}, {}))
    BY DEF Statement, Statements, Sensible
  <2>3. QED
    BY <1>5, <2>1, <2>2, ReleaseTruth DEF EditElsewhere
<1>6. QED
  BY <1>2, <1>3, <1>4, <1>5 DEF Edit

\* A committed block puts its table and columns into the database; the columns
\* it takes away are those of a recorded rename.
LEMMA ApplyTruth ==
  ASSUME Truth, NEW r \in Runners, Apply(r)
  PROVE  Truth'
<1>1. PICK b \in BlockSet : b = Block(r) /\ Sensible(b.sql)
  <2>1. /\ next[r] \in DOMAIN blocks[r] /\ blocks[r] \in Seq(BlockSet)
        /\ \A i \in DOMAIN blocks[r] : Sensible(blocks[r][i].sql)
    BY DEF Apply, ToApply, AtBlock, Truth, TypeOK
  <2>2. blocks[r][next[r]] \in BlockSet
    BY <2>1, LenProperties, ElementOfSeq
  <2>3. QED
    BY <2>1, <2>2 DEF Block
<1>2. /\ Runs(b.sql) /\ tables' = TablesAfter(b.sql) /\ ledger' = ledger \cup {b}
      /\ log' = Append(log, b.id)
      /\ next' = [next EXCEPT ![r] = @ + 1]
      /\ UNCHANGED <<models, cols, manual, edits, pc, blocks, seen, crashes>>
      /\ pc[r] = "running"
  BY <1>1 DEF Apply, ToApply, AtBlock, Commits, source
<1>3. /\ b.id \in BlockIds /\ b.sql \in Statements
      /\ b.sql.op \in {"create", "add", "rename", "comment"}
      /\ b.sql.cols \in SUBSET Columns /\ b.sql.old \in SUBSET Columns
      /\ b.sql.op # "comment" => b.sql.table \in Tables
      /\ b.sql.op # "rename" => b.sql.old = {}
  BY <1>1 DEF BlockSet, Statements, Sensible
<1>4. PICK t : t = b.sql.table
  OBVIOUS
<1>5. CASE b.sql.op = "comment"
  <2>1. tables' = tables
    BY <1>2, <1>5 DEF TablesAfter
  <2>2. LedgerTruthful'
    BY <1>2, <1>5, <2>1 DEF Truth, LedgerTruthful, InDatabase, Present, RenamedAway
  <2>3. TypeOK'
    BY <1>1, <1>2, <1>3, <2>1, AppendProperties DEF Truth, TypeOK
  <2>4. QED
    BY <1>2, <2>2, <2>3 DEF Truth, TypeOK
<1>6. CASE b.sql.op # "comment"
  <2>1. /\ t \in Tables /\ DOMAIN tables \subseteq Tables
        /\ \A u \in DOMAIN tables : tables[u] \subseteq Columns
    BY <1>3, <1>4, <1>6 DEF Truth, TypeOK
  <2>2. PICK new \in SUBSET Columns :
          /\ tables' = WithColumns(t, new)
          /\ b.sql.cols \subseteq new
          /\ t \in DOMAIN tables =>
               \/ tables[t] \subseteq new
               \/ tables[t] \ b.sql.old \subseteq new /\ b.sql.op = "rename"
    <3>1. CASE b.sql.op = "create"
      <4>1. tables' = WithColumns(t, b.sql.cols) /\ t \notin DOMAIN tables
        BY <1>2, <1>4, <3>1 DEF Runs, TablesAfter, Present
      <4>2. QED
        BY <1>3, <4>1
    <3>2. CASE b.sql.op \in {"add", "rename"}
      <4>1. /\ tables' = WithColumns(t, (tables[t] \ b.sql.old) \cup b.sql.cols)
            /\ t \in DOMAIN tables
        BY <1>2, <1>4, <3>2 DEF Runs, TablesAfter, Present
      <4>2. (tables[t] \ b.sql.old) \cup b.sql.cols \in SUBSET Columns
        BY <1>3, <2>1, <4>1
      <4>3. b.sql.op = "rename" \/ tables[t] \subseteq (tables[t] \ b.sql.old) \cup b.sql.cols
        BY <1>3, <3>2
      <4>4. QED
        BY <4>1, <4>2, <4>3
    <3>3. QED
      BY <1>3, <1>6, <3>1, <3>2
  <2>3. /\ DOMAIN tables' = DOMAIN tables \cup {t} /\ tables'[t] = new
        /\ \A u \in DOMAIN tables \ {t} : tables'[u] = tables[u]
    BY <2>2 DEF WithColumns
  <2>4. TypeOK'
    <3>1. DOMAIN tables' \subseteq Tables /\ \A u \in DOMAIN tables' : tables'[u] \subseteq Columns
      BY <2>1, <2>2, <2>3
    <3>2. log' \in Seq(BlockIds)
      BY <1>2, <1>3, AppendProperties DEF Truth, TypeOK
    <3>3. QED
      BY <1>1, <1>2, <3>1, <3>2 DEF Truth, TypeOK
  <2>5. \A u, c : RenamedAway(u, c) => RenamedAway(u, c)'
    BY <1>2 DEF RenamedAway
  <2>6. \A c \in b.sql.old : b.sql.op = "rename" => RenamedAway(t, c)'
    BY <1>2, <1>4 DEF RenamedAway
  <2>7. ASSUME NEW d \in ledger', d.sql.op # "comment"
        PROVE  InDatabase(d.sql.table, d.sql.cols)'
    <3>1. CASE d = b
      BY <1>4, <2>2, <2>3, <3>1 DEF InDatabase, Present
    <3>2. CASE d \in ledger
      <4>1. /\ d.sql.table \in DOMAIN tables
            /\ \A c \in d.sql.cols \ tables[d.sql.table] : RenamedAway(d.sql.table, c)
        BY <2>7, <3>2 DEF Truth, LedgerTruthful, InDatabase, Present
      <4>2. d.sql.table \in DOMAIN tables'
        BY <2>3, <4>1
      <4>3. ASSUME NEW c \in d.sql.cols \ tables'[d.sql.table]
            PROVE  RenamedAway(d.sql.table, c)'
        <5>1. CASE c \notin tables[d.sql.table]
          BY <2>5, <4>1, <4>3, <5>1
        <5>2. CASE c \in tables[d.sql.table]
          <6>1. d.sql.table = t /\ c \notin new
            BY <2>3, <4>1, <4>3, <5>2
          <6>2. c \in b.sql.old /\ b.sql.op = "rename"
            BY <2>2, <4>1, <5>2, <6>1
          <6>3. QED
            BY <2>6, <6>1, <6>2
        <5>3. QED
          BY <5>1, <5>2
      <4>4. QED
        BY <4>2, <4>3 DEF InDatabase, Present
    <3>3. QED
      BY <1>2, <2>7, <3>1, <3>2
  <2>8. LedgerTruthful'
    BY <2>7 DEF LedgerTruthful
  <2>9. QED
    BY <1>2, <2>4, <2>8 DEF Truth, TypeOK
<1>7. QED
  BY <1>5, <1>6

\* A step of a run that leaves the database alone.
LEMMA RunnerTruth ==
  ASSUME Truth, NEW r \in Runners,
         \/ Start(r) \/ StartFails(r) \/ Skip(r)
         \/ Refuse(r) \/ Fail(r) \/ Finish(r) \/ Crash(r)
  PROVE  Truth'
<1>1. UNCHANGED <<models, cols, manual, edits, tables, ledger, log>>
  BY DEF Start, StartFails, Skip, Refuse, Fail, Finish, Crash, End, source, database
<1>2. LedgerTruthful'
  BY <1>1 DEF Truth, LedgerTruthful, InDatabase, Present, RenamedAway
<1>3. CASE Start(r)
  <2>1. /\ pc' = [pc EXCEPT ![r] = "running"] /\ seen' = [seen EXCEPT ![r] = ledger]
        /\ blocks' = [blocks EXCEPT ![r] = AllBlocks]
        /\ next' = [next EXCEPT ![r] = 1] /\ crashes' = crashes
    BY <1>3 DEF Start
  <2>2. AllBlocks \in Seq(BlockSet) /\ \A i \in DOMAIN AllBlocks : Sensible(AllBlocks[i].sql)
    BY AllBlocksType DEF Truth
  <2>3. TypeOK'
    BY <1>1, <2>1, <2>2 DEF Truth, TypeOK
  <2>4. \A u \in Runners : \A i \in DOMAIN blocks'[u] : Sensible(blocks'[u][i].sql)
    BY <2>1, <2>2 DEF Truth, TypeOK
  <2>5. \A u \in Runners : pc'[u] = "done" => next'[u] \notin DOMAIN blocks'[u]
    BY <2>1 DEF Truth, TypeOK
  <2>6. QED
    BY <1>1, <1>2, <2>3, <2>4, <2>5 DEF Truth
<1>4. CASE Skip(r)
  <2>1. /\ next' = [next EXCEPT ![r] = @ + 1] /\ UNCHANGED <<pc, blocks, seen, crashes>>
        /\ pc[r] = "running"
    BY <1>4 DEF Skip, AtBlock
  <2>2. TypeOK'
    BY <1>1, <2>1 DEF Truth, TypeOK
  <2>3. QED
    BY <1>1, <1>2, <2>1, <2>2 DEF Truth, TypeOK
<1>5. CASE StartFails(r) \/ Refuse(r) \/ Fail(r) \/ Finish(r) \/ Crash(r)
  <2>1. UNCHANGED <<blocks, seen, next>> /\ crashes' \in {crashes, crashes + 1}
    BY <1>5 DEF StartFails, Refuse, Fail, Finish, Crash, End
  <2>2. \/ \E how \in {"refused", "failed", "crashed"} : pc' = [pc EXCEPT ![r] = how]
        \/ pc' = [pc EXCEPT ![r] = "done"] /\ next[r] \notin DOMAIN blocks[r]
    BY <1>5 DEF StartFails, Refuse, Fail, Finish, Crash, End
  <2>3. TypeOK'
    <3>1. pc' \in [Runners -> Ended \cup {"running"}]
      BY <2>2 DEF Truth, TypeOK, Ended
    <3>2. crashes' \in Nat
      BY <2>1 DEF Truth, TypeOK
    <3>3. QED
      BY <1>1, <2>1, <3>1, <3>2 DEF Truth, TypeOK
  <2>4. \A u \in Runners : pc'[u] = "done" => next'[u] \notin DOMAIN blocks'[u]
    BY <2>1, <2>2 DEF Truth, TypeOK
  <2>5. QED
    BY <1>1, <1>2, <2>1, <2>3, <2>4 DEF Truth
<1>6. QED
  BY <1>3, <1>4, <1>5

\* Every step keeps the ledger truthful.
LEMMA TruthStep == Truth /\ [Next]_vars => Truth'
<1> SUFFICES ASSUME Truth, [Next]_vars
             PROVE  Truth'
  OBVIOUS
<1>1. CASE UNCHANGED vars
  BY <1>1 DEF vars, source, database, runner, Truth, TypeOK, LedgerTruthful, InDatabase, Present,
              RenamedAway
<1>2. QED
  BY <1>1, EditTruth, ApplyTruth, RunnerTruth DEF Next, RunnerStep

\* The source, the database, the ledger and the runs stay in their domains,
\* whatever is edited and however many runs overlap.
THEOREM RunnerTypeOK == Spec => []TypeOK
<1>1. Truth => TypeOK
  BY DEF Truth
<1>2. QED
  BY <1>1, TruthInit, TruthStep, PTL DEF Spec

\* A recorded block's table exists with its columns, except one that a recorded
\* rename took away, whatever runs overlap, fail or die.
THEOREM LedgerIsTruthful == Spec => []LedgerTruthful
<1>1. Truth => LedgerTruthful
  BY DEF Truth
<1>2. QED
  BY <1>1, TruthInit, TruthStep, PTL DEF Spec

\* No entity's name is part of the path of another one's schema file.
PathsApart == \A m \in Tables : MatchesPath[m] = {m}

\* Then every declared model has a block of its own.
LEMMA EveryModelHasABlock ==
  ASSUME PathsApart, Model, NEW t \in Declared
  PROVE  \E n \in DOMAIN OwnFile : SchemaFile(OwnFile[n]) = t
<1>1. DOMAIN models = 1 .. Len(models) /\ Len(models) \in Nat /\ \A j \in DOMAIN models : models[j] \in Tables
  BY LenProperties, ElementOfSeq DEF Model
<1>2. \A i \in DOMAIN models : SchemaFile(i) = models[i]
  BY <1>1, SchemaFileDeclared DEF PathsApart
<1> DEFINE T == {i \in DOMAIN models : models[i] = t}
<1>3. T # {} /\ \A i \in T : i \in Nat
  BY <1>1 DEF Declared
<1>4. PICK i \in T : \A j \in T : i <= j
  <2> HIDE DEF T
  <2>1. T \subseteq Nat
    BY <1>3
  <2>2. QED
    BY <1>3, <2>1, LeastNumber
<1>5. i \in Firsts
  BY <1>1, <1>2, <1>4 DEF Firsts
<1>6. QED
  BY <1>2, <1>4, <1>5, OwnFileLists

\* When no entity's name is part of another one's path, a migrate() of the
\* current release that reports success has left every declared entity with its
\* table and columns, except one that a rename file took away again.
THEOREM SuccessInstalls ==
  ASSUME PathsApart
  PROVE  Spec => []SuccessMeansSchema
<1>1. Truth /\ IInv => SuccessMeansSchema
  <2> SUFFICES ASSUME Truth, IInv, NEW r \in Runners, pc[r] = "done", blocks[r] = AllBlocks,
                      NEW t \in Declared
               PROVE  InDatabase(t, cols[t])
    BY DEF SuccessMeansSchema
  <2>1. Model
    BY DEF Truth, TypeOK, Model
  <2>2. PICK n \in DOMAIN OwnFile : SchemaFile(OwnFile[n]) = t
    BY <2>1, EveryModelHasABlock
  <2>3. AllBlocks \in Seq(BlockSet)
    BY AllBlocksType DEF Truth
  <2>4. PICK i \in DOMAIN AllBlocks : AllBlocks[i] = Generated(n)
    BY AllBlocksType DEF Truth
  <2>5. AllBlocks[i] \in ledger
    <3>1. DOMAIN AllBlocks = 1 .. Len(AllBlocks) /\ Len(AllBlocks) \in Nat
      BY <2>3, LenProperties
    <3>2. next[r] \in Nat \ {0} /\ next[r] \notin DOMAIN AllBlocks
      BY DEF Truth, IInv
    <3>3. i \in 1 .. next[r] - 1
      BY <2>4, <3>1, <3>2
    <3>4. QED
      BY <3>3 DEF IInv, PassedIsRecorded
  <2>6. Generated(n).sql.table = t /\ Generated(n).sql.cols = cols[t] /\ Generated(n).sql.op = "create"
    BY <2>2 DEF Generated
  <2>7. QED
    BY <2>4, <2>5, <2>6 DEF Truth, LedgerTruthful
<1>2. QED
  BY <1>1, TruthInit, TruthStep, Inductive, PTL DEF Spec

-----------------------------------------------------------------------------

Sections == [name : STRING, body : Bodies]

Thrown == \E i \in DOMAIN ast : Throws(ast[i])

\* What each stage has made of the program, and what the last compile left.
CompileInv ==
  /\ main \in Seq(Declarations) /\ ast \in Seq(Declarations) /\ sections \in Seq(Sections)
  /\ stage \in {"idle", "check", "lower", "optimize", "emit"} /\ exit \in {"none", "ok", "failed"}
  /\ stage # "idle" => exit = "none"
  /\ stage # "idle" \/ exit # "none" => ast = Load(main)
  /\ stage \in {"lower", "optimize", "emit"} \/ exit # "none" => complaints = Complaints(ast)
  /\ complaints \subseteq DOMAIN ast
  /\ stage \in {"optimize", "emit"} => ~Thrown
  /\ stage = "optimize" => ir = Lower(ast)
  /\ stage = "emit" \/ (exit # "none" /\ ~Thrown) => ir = Optimize(Lower(ast))
  /\ exit = "ok" => ~Thrown /\ migrations = Migrations(ir.mods)
  /\ exit = "failed" /\ ~Thrown => Missing # {}

\* A set of numbers that has 0 and the successors of its members has all.
LEMMA Induct ==
  ASSUME NEW S \in SUBSET Nat, 0 \in S, \A n \in S : n + 1 \in S
  PROVE  \A n \in Nat : n \in S
<1> SUFFICES ASSUME NEW m \in Nat, m \notin S
             PROVE  FALSE
  OBVIOUS
<1> DEFINE Rest == Nat \ S
<1>1. PICK x \in Rest : \A y \in Rest : x <= y
  <2>1. Rest \subseteq Nat /\ Rest # {}
    OBVIOUS
  <2> HIDE DEF Rest
  <2>2. QED
    BY <2>1, LeastNumber
<1>2. x \in Nat /\ x \notin S /\ x # 0 /\ x - 1 \in Nat
  BY <1>1
<1>3. x - 1 \in S
  BY <1>1, <1>2
<1>4. x - 1 + 1 = x
  BY <1>2
<1>5. QED
  BY <1>2, <1>3, <1>4

-----------------------------------------------------------------------------
(* Nth and Only *)

Upto(I, i) == {j \in I : j <= i}

\* Nth lists a set of numbers in ascending order.
LEMMA NthFacts ==
  ASSUME NEW n \in Nat, NEW I \in SUBSET (1 .. n)
  PROVE  /\ IsFiniteSet(I) /\ Cardinality(I) \in Nat
         /\ \A k \in 1 .. Cardinality(I) : Nth(I, k) \in I /\ Cardinality(Upto(I, Nth(I, k))) = k
         /\ \A i \in I : \E k \in 1 .. Cardinality(I) : Nth(I, k) = i
         /\ \A k, l \in 1 .. Cardinality(I) : k < l => Nth(I, k) < Nth(I, l)
<1> DEFINE K == Cardinality(I)
           place == [i \in I |-> Cardinality(Upto(I, i))]
<1>1. /\ IsFiniteSet(I) /\ K \in Nat /\ I \subseteq Nat
      /\ \A i \in I : IsFiniteSet(Upto(I, i)) /\ Upto(I, i) \subseteq I /\ i \in Upto(I, i)
  <2>1. IsFiniteSet(1 .. n)
    BY FS_Interval
  <2>2. IsFiniteSet(I) /\ K \in Nat
    BY <2>1, FS_Subset, FS_CardinalityType
  <2>3. ASSUME NEW i \in I
        PROVE  IsFiniteSet(Upto(I, i)) /\ Upto(I, i) \subseteq I /\ i \in Upto(I, i)
    <3>1. Upto(I, i) \subseteq I /\ i \in Upto(I, i)
      BY DEF Upto
    <3>2. QED
      BY <2>2, <3>1, FS_Subset
  <2>4. QED
    BY <2>2, <2>3
<1>2. ASSUME NEW i \in I
      PROVE  Cardinality(Upto(I, i)) \in 1 .. K
  <2>1. Cardinality(Upto(I, i)) \in Nat /\ Cardinality(Upto(I, i)) <= K
    BY <1>1, FS_Subset, FS_CardinalityType
  <2>2. Cardinality(Upto(I, i)) # 0
    BY <1>1, FS_EmptySet
  <2>3. QED
    BY <1>1, <2>1, <2>2
<1>3. ASSUME NEW i \in I, NEW j \in I, i < j
      PROVE  Cardinality(Upto(I, i)) < Cardinality(Upto(I, j))
  <2>1. i \in Nat /\ j \in Nat /\ ~(j <= i) /\ \A k \in I : k <= i => k <= j
    BY <1>1, <1>3
  <2>2. Upto(I, i) \in SUBSET Upto(I, j) /\ j \in Upto(I, j) /\ j \notin Upto(I, i)
    BY <1>1, <2>1 DEF Upto
  <2>3. Cardinality(Upto(I, i)) <= Cardinality(Upto(I, j))
        /\ Cardinality(Upto(I, i)) # Cardinality(Upto(I, j))
    BY <1>1, <2>2, FS_Subset
  <2>4. QED
    BY <1>2, <2>3
<1>4. \A i, j \in I : i < j \/ j < i \/ i = j
  BY <1>1
<1>5. \A i, j \in I : Cardinality(Upto(I, i)) = Cardinality(Upto(I, j)) => i = j
  BY <1>2, <1>3, <1>4
<1>6. place \in Surjection(I, 1 .. K)
  <2>1. place \in Injection(I, 1 .. K)
    BY <1>2, <1>5 DEF Injection, IsInjective
  <2>2. IsFiniteSet(1 .. K) /\ Cardinality(1 .. K) = K
    BY <1>1, FS_Interval
  <2> HIDE DEF place
  <2>3. QED
    BY <2>1, <2>2, <1>1, FS_Injection
<1>7. ASSUME NEW k \in 1 .. K
      PROVE  Nth(I, k) \in I /\ Cardinality(Upto(I, Nth(I, k))) = k
  <2>1. \E i \in I : Cardinality(Upto(I, i)) = k
    BY <1>6 DEF Surjection
  <2>2. QED
    BY <2>1 DEF Nth, Upto
<1>8. ASSUME NEW i \in I
      PROVE  \E k \in 1 .. K : Nth(I, k) = i
  BY <1>2, <1>5, <1>7
<1>9. ASSUME NEW k \in 1 .. K, NEW l \in 1 .. K, k < l
      PROVE  Nth(I, k) < Nth(I, l)
  <2>1. /\ Nth(I, k) \in I /\ Cardinality(Upto(I, Nth(I, k))) = k
        /\ Nth(I, l) \in I /\ Cardinality(Upto(I, Nth(I, l))) = l
    BY <1>7
  <2>2. ASSUME Nth(I, l) < Nth(I, k)
        PROVE  FALSE
    <3>1. Cardinality(Upto(I, Nth(I, l))) < Cardinality(Upto(I, Nth(I, k)))
      BY <1>3, <2>1, <2>2
    <3>2. QED
      BY <1>9, <2>1, <3>1
  <2>3. Nth(I, l) # Nth(I, k)
    BY <1>9, <2>1
  <2>4. QED
    BY <1>4, <2>1, <2>2, <2>3
<1>10. QED
  BY <1>1, <1>7, <1>8, <1>9

\* What Only keeps.
LEMMA OnlyFacts ==
  ASSUME NEW T, NEW s \in Seq(T), NEW I \in SUBSET DOMAIN s
  PROVE  /\ Only(s, I) \in Seq(T) /\ Len(Only(s, I)) = Cardinality(I) /\ Cardinality(I) \in Nat
         /\ \A k \in DOMAIN Only(s, I) : Nth(I, k) \in I /\ Only(s, I)[k] = s[Nth(I, k)]
         /\ \A i \in I : \E k \in DOMAIN Only(s, I) : Only(s, I)[k] = s[i] /\ Nth(I, k) = i
         /\ \A k, l \in DOMAIN Only(s, I) : k < l => Nth(I, k) < Nth(I, l)
         /\ Range(Only(s, I)) = {s[i] : i \in I}
<1>1. Len(s) \in Nat /\ DOMAIN s = 1 .. Len(s) /\ \A i \in DOMAIN s : s[i] \in T
  OBVIOUS
<1>2. /\ Cardinality(I) \in Nat
      /\ \A k \in 1 .. Cardinality(I) : Nth(I, k) \in I
      /\ \A i \in I : \E k \in 1 .. Cardinality(I) : Nth(I, k) = i
      /\ \A k, l \in 1 .. Cardinality(I) : k < l => Nth(I, k) < Nth(I, l)
  BY <1>1, NthFacts
<1>3. /\ DOMAIN Only(s, I) = 1 .. Cardinality(I)
      /\ \A k \in 1 .. Cardinality(I) : Only(s, I)[k] = s[Nth(I, k)]
  BY DEF Only
<1>4. Only(s, I) \in [1 .. Cardinality(I) -> T]
  BY <1>1, <1>2 DEF Only
<1>5. Only(s, I) \in Seq(T) /\ Len(Only(s, I)) = Cardinality(I)
  BY <1>2, <1>4
<1>6. Range(Only(s, I)) = {s[i] : i \in I}
  BY <1>2, <1>3 DEF Range
<1>7. QED
  BY <1>2, <1>3, <1>5, <1>6

\* Keeping everything changes nothing.
LEMMA OnlyAll ==
  ASSUME NEW T, NEW s \in Seq(T)
  PROVE  Only(s, DOMAIN s) = s
<1>1. Len(s) \in Nat /\ DOMAIN s = 1 .. Len(s)
  OBVIOUS
<1>2. Cardinality(1 .. Len(s)) = Len(s)
  BY <1>1, FS_Interval
<1>3. ASSUME NEW k \in 1 .. Len(s)
      PROVE  Nth(1 .. Len(s), k) = k
  <2>1. Nth(1 .. Len(s), k) \in 1 .. Len(s) /\ Cardinality(Upto(1 .. Len(s), Nth(1 .. Len(s), k))) = k
    BY <1>1, <1>2, NthFacts
  <2>2. Upto(1 .. Len(s), Nth(1 .. Len(s), k)) = 1 .. Nth(1 .. Len(s), k)
    BY <1>1, <2>1 DEF Upto
  <2>3. Cardinality(1 .. Nth(1 .. Len(s), k)) = Nth(1 .. Len(s), k)
    BY <1>1, <2>1, FS_Interval
  <2>4. QED
    BY <2>1, <2>2, <2>3
<1>4. Only(s, DOMAIN s) = [k \in 1 .. Len(s) |-> s[k]]
  BY <1>1, <1>2, <1>3 DEF Only
<1>5. QED
  BY <1>1, <1>4

-----------------------------------------------------------------------------
(* The loader *)

Own(ds) == Only(ds, {i \in DOMAIN ds : ds[i].kind # "import"})

With(d, loaded, ds) == IF Imports(d) THEN ds \o loaded[d.name] ELSE ds

\* c lists what Merged has gathered after each declaration of ds.
Gathers(ds, loaded, c) ==
  c = [n \in 0 .. Len(ds) |-> IF n = 0 THEN Own(ds) ELSE With(ds[n], loaded, c[n - 1])]

LEMMA MergedGathers ==
  ASSUME NEW ds, NEW loaded
  PROVE  Merged(ds, loaded) = (CHOOSE c : Gathers(ds, loaded, c))[Len(ds)]
BY DEF Merged, Gathers, Own, With

\* The files that ds imports have been loaded.
ImportsLoaded(ds, loaded) ==
  \A i \in DOMAIN ds : Imports(ds[i]) => loaded[ds[i].name] \in Seq(Declarations)

LEMMA OwnType ==
  ASSUME NEW ds \in Seq(Declarations)
  PROVE  Own(ds) \in Seq(Declarations)
<1>1. {i \in DOMAIN ds : ds[i].kind # "import"} \in SUBSET DOMAIN ds
  OBVIOUS
<1>2. QED
  BY <1>1, OnlyFacts DEF Own

LEMMA WithType ==
  ASSUME NEW ds \in Seq(Declarations), NEW loaded, ImportsLoaded(ds, loaded),
         NEW n \in 1 .. Len(ds), NEW soFar \in Seq(Declarations)
  PROVE  With(ds[n], loaded, soFar) \in Seq(Declarations)
<1>1. n \in DOMAIN ds
  OBVIOUS
<1>2. Imports(ds[n]) => loaded[ds[n].name] \in Seq(Declarations)
  BY <1>1 DEF ImportsLoaded
<1>3. QED
  BY <1>2 DEF With

LEMMA SomeGathers ==
  ASSUME NEW ds \in Seq(Declarations), NEW loaded, ImportsLoaded(ds, loaded)
  PROVE  \E c : Gathers(ds, loaded, c)
<1> DEFINE Far(m, c) ==
             /\ c \in [0 .. m -> Seq(Declarations)] /\ c[0] = Own(ds)
             /\ \A n \in 1 .. m : c[n] = With(ds[n], loaded, c[n - 1])
           S == {m \in Nat : m <= Len(ds) => \E c : Far(m, c)}
<1>1. Len(ds) \in Nat
  OBVIOUS
<1>2. 0 \in S
  <2>1. Far(0, [n \in {0} |-> Own(ds)])
    BY OwnType
  <2>2. QED
    BY <2>1
<1>3. ASSUME NEW m \in S
      PROVE  m + 1 \in S
  <2> SUFFICES ASSUME m + 1 <= Len(ds)
               PROVE  \E c : Far(m + 1, c)
    <3> HIDE DEF Far
    <3>1. m + 1 \in Nat
      OBVIOUS
    <3>2. QED
      BY <3>1
  <2>1. m \in Nat /\ m <= Len(ds) /\ m + 1 \in 1 .. Len(ds)
    BY <1>1
  <2>2. PICK c : Far(m, c)
    BY <2>1
  <2> DEFINE e == [n \in 0 .. m + 1 |-> IF n = m + 1 THEN With(ds[m + 1], loaded, c[m]) ELSE c[n]]
  <2>3. With(ds[m + 1], loaded, c[m]) \in Seq(Declarations)
    <3>1. c[m] \in Seq(Declarations)
      BY <2>1, <2>2
    <3>2. QED
      BY <2>1, <3>1, WithType
  <2>4. e \in [0 .. m + 1 -> Seq(Declarations)] /\ e[0] = Own(ds)
    BY <2>1, <2>2, <2>3
  <2>5. ASSUME NEW n \in 1 .. m + 1
        PROVE  e[n] = With(ds[n], loaded, e[n - 1])
    <3>1. e[n - 1] = c[n - 1]
      BY <2>1
    <3>2. CASE n = m + 1
      BY <2>1, <3>1, <3>2
    <3>3. CASE n # m + 1
      <4>1. n \in 1 .. m /\ e[n] = c[n]
        BY <2>1, <3>3
      <4>2. QED
        BY <2>2, <3>1, <4>1
    <3>4. QED
      BY <3>2, <3>3
  <2>6. QED
    BY <2>4, <2>5
<1>4. \E c : Far(Len(ds), c)
  <2>1. S \in SUBSET Nat
    OBVIOUS
  <2> HIDE DEF S
  <2>2. Len(ds) \in S
    BY <1>1, <1>2, <1>3, <2>1, Induct
  <2>3. QED
    BY <1>1, <2>2 DEF S
<1>5. PICK c : Far(Len(ds), c)
  BY <1>4
<1>6. c = [n \in 0 .. Len(ds) |-> IF n = 0 THEN Own(ds) ELSE With(ds[n], loaded, c[n - 1])]
  <2>1. ASSUME NEW n \in 0 .. Len(ds)
        PROVE  c[n] = IF n = 0 THEN Own(ds) ELSE With(ds[n], loaded, c[n - 1])
    BY <1>1, <1>5
  <2>2. QED
    BY <1>5, <2>1
<1>7. QED
  BY <1>6 DEF Gathers

LEMMA GathersType ==
  ASSUME NEW ds \in Seq(Declarations), NEW loaded, ImportsLoaded(ds, loaded),
         NEW c, Gathers(ds, loaded, c)
  PROVE  c[Len(ds)] \in Seq(Declarations)
<1> DEFINE S == {m \in Nat : m <= Len(ds) => c[m] \in Seq(Declarations)}
<1>1. Len(ds) \in Nat
  OBVIOUS
<1>2. 0 \in S
  BY <1>1, OwnType DEF Gathers
<1>3. ASSUME NEW m \in S
      PROVE  m + 1 \in S
  <2>1. ASSUME m + 1 <= Len(ds)
        PROVE  c[m + 1] \in Seq(Declarations)
    <3>1. m \in Nat /\ m + 1 \in 1 .. Len(ds) /\ c[m] \in Seq(Declarations)
      BY <1>1, <2>1
    <3>2. c[m + 1] = With(ds[m + 1], loaded, c[m])
      BY <1>1, <3>1 DEF Gathers
    <3>3. QED
      BY <3>1, <3>2, WithType
  <2>2. m + 1 \in Nat
    OBVIOUS
  <2>3. QED
    BY <2>1, <2>2
<1>4. S \in SUBSET Nat
  OBVIOUS
<1>5. Len(ds) \in S
  <2> HIDE DEF S
  <2>1. QED
    BY <1>1, <1>2, <1>3, <1>4, Induct
<1>6. QED
  BY <1>1, <1>5

\* A system with its imports is a sequence of declarations.
LEMMA MergedType ==
  ASSUME NEW ds \in Seq(Declarations), NEW loaded, ImportsLoaded(ds, loaded)
  PROVE  Merged(ds, loaded) \in Seq(Declarations)
<1>1. Gathers(ds, loaded, CHOOSE c : Gathers(ds, loaded, c))
  BY SomeGathers
<1>2. QED
  BY <1>1, GathersType, MergedGathers

\* It depends on the files that it imports only.
LEMMA MergedOfImports ==
  ASSUME NEW ds \in Seq(Declarations), NEW one, NEW other,
         \A i \in DOMAIN ds : Imports(ds[i]) => one[ds[i].name] = other[ds[i].name]
  PROVE  Merged(ds, one) = Merged(ds, other)
<1>1. ASSUME NEW n \in 1 .. Len(ds), NEW soFar
      PROVE  With(ds[n], one, soFar) = With(ds[n], other, soFar)
  <2>1. n \in DOMAIN ds
    OBVIOUS
  <2>2. QED
    BY <2>1 DEF With
<1>2. ASSUME NEW c
      PROVE  Gathers(ds, one, c) <=> Gathers(ds, other, c)
  <2>1. ASSUME NEW n \in 0 .. Len(ds)
        PROVE  (IF n = 0 THEN Own(ds) ELSE With(ds[n], one, c[n - 1]))
               = (IF n = 0 THEN Own(ds) ELSE With(ds[n], other, c[n - 1]))
    <3>1. CASE n = 0
      BY <3>1
    <3>2. CASE n # 0
      <4>1. n \in 1 .. Len(ds)
        BY <3>2
      <4>2. QED
        BY <1>1, <3>2, <4>1
    <3>3. QED
      BY <3>1, <3>2
  <2>2. [n \in 0 .. Len(ds) |-> IF n = 0 THEN Own(ds) ELSE With(ds[n], one, c[n - 1])]
        = [n \in 0 .. Len(ds) |-> IF n = 0 THEN Own(ds) ELSE With(ds[n], other, c[n - 1])]
    BY <2>1
  <2>3. QED
    BY <2>2 DEF Gathers
<1>3. (CHOOSE c : Gathers(ds, one, c)) = (CHOOSE c : Gathers(ds, other, c))
  BY <1>2
<1>4. QED
  BY <1>3, MergedGathers

\* The parser drops declarations and makes none up.
LEMMA RecoveredFacts ==
  ASSUME NEW ds \in Seq(Declarations)
  PROVE  /\ Recovered(ds) \in Seq(Declarations)
         /\ \A k \in DOMAIN Recovered(ds) : Recovered(ds)[k] \in Range(ds)
         /\ (\A d \in Range(ds) : ~Unreadable(d)) => Recovered(ds) = ds
<1> DEFINE I == {i \in DOMAIN ds : ~Unreadable(ds[i]) /\ \A j \in 1 .. i - 1 : ds[j].syntax # "body"}
<1>1. Recovered(ds) = Only(ds, I) /\ I \in SUBSET DOMAIN ds
  BY DEF Recovered
<1>2. (\A d \in Range(ds) : ~Unreadable(d)) => I = DOMAIN ds
  <2> SUFFICES ASSUME \A d \in Range(ds) : ~Unreadable(d), NEW i \in DOMAIN ds
               PROVE  ~Unreadable(ds[i]) /\ \A j \in 1 .. i - 1 : ds[j].syntax # "body"
    OBVIOUS
  <2>1. \A j \in DOMAIN ds : ~Unreadable(ds[j])
    BY DEF Range
  <2>2. \A j \in 1 .. i - 1 : j \in DOMAIN ds
    OBVIOUS
  <2>3. QED
    BY <2>1, <2>2 DEF Unreadable
<1> HIDE DEF I
<1>3. Recovered(ds) \in Seq(Declarations)
      /\ \A k \in DOMAIN Recovered(ds) : Nth(I, k) \in I /\ Recovered(ds)[k] = ds[Nth(I, k)]
  BY <1>1, OnlyFacts
<1>4. \A k \in DOMAIN Recovered(ds) : Recovered(ds)[k] \in Range(ds)
  BY <1>1, <1>3 DEF Range
<1>5. QED
  BY <1>1, <1>2, <1>3, <1>4, OnlyAll

Parsed(f) == Recovered(Files[f])

\* g holds each library file with what it imports.
Loads(g) == g = [f \in DOMAIN Files |-> Merged(Parsed(f), g)]

LEMMA LoadedDef == Loaded = CHOOSE g : Loads(g)
BY DEF Loaded, Loads, Parsed

\* Files import files of less depth.
Depth(depth) ==
  /\ depth \in [DOMAIN Files -> 0 .. Cardinality(DOMAIN Files)]
  /\ \A f \in DOMAIN Files : \A i \in DOMAIN Parsed(f) :
       Imports(Parsed(f)[i]) => /\ Parsed(f)[i].name \in DOMAIN Files
                               /\ depth[Parsed(f)[i].name] < depth[f]

LEMMA DepthExists == \E depth : Depth(depth)
<1>1. PICK depth \in [DOMAIN Files -> 0 .. Cardinality(DOMAIN Files)] :
         \A f \in DOMAIN Files : \A d \in Range(Files[f]) : Imports(d) => depth[d.name] < depth[f]
  BY FilesAssumption
<1>2. ASSUME NEW f \in DOMAIN Files, NEW i \in DOMAIN Parsed(f), Imports(Parsed(f)[i])
      PROVE  Parsed(f)[i].name \in DOMAIN Files /\ depth[Parsed(f)[i].name] < depth[f]
  <2>1. Parsed(f)[i] \in Range(Files[f])
    BY FilesAssumption, RecoveredFacts DEF Parsed
  <2>2. QED
    BY <1>1, <1>2, <2>1 DEF Imports
<1>3. QED
  BY <1>1, <1>2 DEF Depth

LEMMA ParsedType ==
  ASSUME NEW f \in DOMAIN Files
  PROVE  Parsed(f) \in Seq(Declarations)
BY FilesAssumption, RecoveredFacts DEF Parsed

LEMMA LoadsType ==
  ASSUME NEW g, Loads(g), NEW file \in DOMAIN Files
  PROVE  g[file] \in Seq(Declarations)
<1>1. PICK depth : Depth(depth)
  BY DepthExists
<1> DEFINE S == {m \in Nat : \A f \in DOMAIN Files : depth[f] < m => g[f] \in Seq(Declarations)}
<1>2. Cardinality(DOMAIN Files) \in Nat /\ \A f \in DOMAIN Files : depth[f] \in 0 .. Cardinality(DOMAIN Files)
  BY <1>1, FilesAssumption, FS_CardinalityType DEF Depth
<1>3. 0 \in S
  BY <1>2
<1>4. ASSUME NEW m \in S
      PROVE  m + 1 \in S
  <2>1. ASSUME NEW f \in DOMAIN Files, depth[f] < m + 1
        PROVE  g[f] \in Seq(Declarations)
    <3>1. g[f] = Merged(Parsed(f), g)
      BY DEF Loads
    <3>2. ImportsLoaded(Parsed(f), g)
      <4>1. ASSUME NEW i \in DOMAIN Parsed(f), Imports(Parsed(f)[i])
            PROVE  g[Parsed(f)[i].name] \in Seq(Declarations)
        <5> DEFINE e == Parsed(f)[i].name
        <5>1. e \in DOMAIN Files /\ depth[e] < depth[f]
          BY <1>1, <4>1 DEF Depth
        <5> HIDE DEF e
        <5>2. depth[e] < m
          BY <1>2, <2>1, <5>1
        <5>3. g[e] \in Seq(Declarations)
          BY <5>1, <5>2
        <5>4. QED
          BY <5>3 DEF e
      <4>2. QED
        BY <4>1 DEF ImportsLoaded
    <3>3. QED
      BY <3>1, <3>2, ParsedType, MergedType
  <2>2. m + 1 \in Nat
    OBVIOUS
  <2>3. QED
    BY <2>1, <2>2
<1>5. Cardinality(DOMAIN Files) + 1 \in S
  <2>1. S \in SUBSET Nat
    OBVIOUS
  <2> HIDE DEF S
  <2>2. QED
    BY <1>2, <1>3, <1>4, <2>1, Induct
<1>6. QED
  BY <1>2, <1>5

LEMMA SomeLoads == \E g : Loads(g)
<1>1. PICK depth : Depth(depth)
  BY DepthExists
<1> DEFINE Low(m) == {f \in DOMAIN Files : depth[f] < m}
           Far(m, g) == /\ g \in [Low(m) -> Seq(Declarations)]
                        /\ \A f \in Low(m) : g[f] = Merged(Parsed(f), g)
           S == {m \in Nat : \E g : Far(m, g)}
<1>2. Cardinality(DOMAIN Files) \in Nat /\ \A f \in DOMAIN Files : depth[f] \in 0 .. Cardinality(DOMAIN Files)
  BY <1>1, FilesAssumption, FS_CardinalityType DEF Depth
<1>3. 0 \in S
  <2>1. Low(0) = {}
    BY <1>2
  <2>2. Far(0, [f \in {} |-> <<>>])
    BY <2>1
  <2>3. QED
    BY <2>2
<1>4. ASSUME NEW m \in S
      PROVE  m + 1 \in S
  <2>1. m \in Nat /\ m + 1 \in Nat
    OBVIOUS
  <2>2. PICK g : Far(m, g)
    OBVIOUS
  <2> DEFINE e == [f \in Low(m + 1) |-> IF f \in Low(m) THEN g[f] ELSE Merged(Parsed(f), g)]
  <2>3. Low(m) \subseteq Low(m + 1)
    BY <1>2, <2>1
  <2>4. ASSUME NEW f \in Low(m + 1)
        PROVE  Merged(Parsed(f), g) \in Seq(Declarations) /\ Merged(Parsed(f), e) = Merged(Parsed(f), g)
    <3>1. ASSUME NEW i \in DOMAIN Parsed(f), Imports(Parsed(f)[i])
          PROVE  Parsed(f)[i].name \in Low(m)
      <4> DEFINE d == Parsed(f)[i].name
      <4>1. d \in DOMAIN Files /\ depth[d] < depth[f]
        BY <1>1, <3>1 DEF Depth
      <4> HIDE DEF d
      <4>2. d \in Low(m)
        BY <1>2, <2>1, <4>1
      <4>3. QED
        BY <4>2 DEF d
    <3>2. ImportsLoaded(Parsed(f), g)
      BY <2>2, <3>1 DEF ImportsLoaded
    <3>3. \A i \in DOMAIN Parsed(f) : Imports(Parsed(f)[i]) => e[Parsed(f)[i].name] = g[Parsed(f)[i].name]
      BY <2>3, <3>1
    <3>4. Parsed(f) \in Seq(Declarations)
      BY ParsedType
    <3> HIDE DEF e
    <3>5. QED
      BY <3>2, <3>3, <3>4, MergedType, MergedOfImports
  <2>5. e \in [Low(m + 1) -> Seq(Declarations)]
    BY <2>2, <2>4
  <2>6. ASSUME NEW f \in Low(m + 1)
        PROVE  e[f] = Merged(Parsed(f), e)
    <3>1. e[f] = IF f \in Low(m) THEN g[f] ELSE Merged(Parsed(f), g)
      OBVIOUS
    <3>2. f \in Low(m) => g[f] = Merged(Parsed(f), g)
      BY <2>2
    <3> HIDE DEF e
    <3>3. QED
      BY <2>4, <3>1, <3>2
  <2> HIDE DEF e
  <2>7. Far(m + 1, e)
    BY <2>5, <2>6
  <2>8. QED
    BY <2>1, <2>7
<1>5. PICK g : Far(Cardinality(DOMAIN Files) + 1, g)
  <2>1. S \in SUBSET Nat
    OBVIOUS
  <2>2. Cardinality(DOMAIN Files) + 1 \in S
    <3> HIDE DEF S
    <3>1. QED
      BY <1>2, <1>3, <1>4, <2>1, Induct
  <2>3. QED
    BY <2>2
<1>6. Low(Cardinality(DOMAIN Files) + 1) = DOMAIN Files
  BY <1>2
<1>7. g = [f \in DOMAIN Files |-> Merged(Parsed(f), g)]
  BY <1>5, <1>6
<1>8. QED
  BY <1>7 DEF Loads

\* The loader returns sequences of declarations.
LEMMA LoadType ==
  ASSUME NEW ds \in Seq(Declarations)
  PROVE  Load(ds) \in Seq(Declarations)
<1>1. Loads(Loaded)
  BY SomeLoads, LoadedDef
<1>2. ImportsLoaded(Recovered(ds), Loaded)
  BY <1>1, LoadsType DEF ImportsLoaded, Imports
<1>3. QED
  BY <1>2, RecoveredFacts, MergedType DEF Load

\* What is read is what was written if nothing is lost to the parser.
LEMMA LoadsWhatIsWritten ==
  ASSUME main \in Seq(Declarations), ~ParseErrors
  PROVE  Load(main) = Written
<1> DEFINE Reads(g) == g = [f \in DOMAIN Files |-> Merged(Files[f], g)]
<1>1. Recovered(main) = main
  BY RecoveredFacts DEF ParseErrors
<1>2. ASSUME NEW f \in DOMAIN Files
      PROVE  Parsed(f) = Files[f]
  <2>1. \A d \in Range(Files[f]) : ~Unreadable(d)
    BY DEF ParseErrors
  <2>2. QED
    BY <2>1, FilesAssumption, RecoveredFacts DEF Parsed
<1>3. ASSUME NEW g
      PROVE  Loads(g) <=> Reads(g)
  <2>1. [f \in DOMAIN Files |-> Merged(Parsed(f), g)] = [f \in DOMAIN Files |-> Merged(Files[f], g)]
    BY <1>2
  <2>2. QED
    BY <2>1 DEF Loads
<1>4. Written = Merged(main, CHOOSE g : Reads(g))
  BY DEF Written
<1> HIDE DEF Reads
<1>5. (CHOOSE g : Loads(g)) = (CHOOSE g : Reads(g))
  BY <1>3
<1>6. QED
  BY <1>1, <1>4, <1>5, LoadedDef DEF Load

-----------------------------------------------------------------------------
(* The extension points *)

\* The greatest of the first numbers.
LEMMA MaxFacts ==
  ASSUME NEW n \in Nat, NEW T \in SUBSET (1 .. n), T # {}
  PROVE  Max(T) \in T /\ \A y \in T : y <= Max(T)
<1> DEFINE U == {n - x : x \in T}
<1>1. U \subseteq Nat /\ U # {}
  <2>1. \A x \in T : n - x \in Nat
    OBVIOUS
  <2>2. PICK x : x \in T
    OBVIOUS
  <2>3. n - x \in U
    BY <2>2
  <2>4. QED
    BY <2>1, <2>3
<1>2. PICK u \in U : \A v \in U : u <= v
  <2> HIDE DEF U
  <2>1. QED
    BY <1>1, LeastNumber
<1>3. PICK m \in T : u = n - m
  BY <1>2
<1>4. ASSUME NEW y \in T
      PROVE  m >= y
  <2>1. n - m <= n - y
    BY <1>2, <1>3
  <2>2. QED
    BY <2>1
<1>5. \E x \in T : \A y \in T : x >= y
  BY <1>4
<1>6. Max(T) \in T /\ \A y \in T : Max(T) >= y
  BY <1>5 DEF Max
<1>7. QED
  BY <1>6

LEMMA MinFacts ==
  ASSUME NEW n \in Nat, NEW T \in SUBSET (1 .. n), T # {}
  PROVE  Min(T) \in T /\ \A y \in T : Min(T) <= y
<1>1. T \subseteq Nat
  OBVIOUS
<1>2. \E x \in T : \A y \in T : x <= y
  BY <1>1, LeastNumber
<1>3. QED
  BY <1>2 DEF Min

Marked(x) == {i \in DOMAIN sections : sections[i].name = x /\ sections[i].body # "unmarked"}

\* What a compile takes for the implementation of an extension point.
LEMMA ImplementationFacts ==
  ASSUME sections \in Seq(Sections), NEW x
  PROVE  /\ Implementation(x) \in Bodies
         /\ Implementation(x) = "stub" \/ \E i \in Marked(x) : Implementation(x) = sections[i].body
         /\ \A i \in Marked(x) : Marked(x) = {i} => Implementation(x) = sections[i].body
<1>1. CASE Marked(x) = {}
  BY <1>1 DEF Implementation, Marked, Bodies
<1>2. CASE Marked(x) # {}
  <2>1. Implementation(x) = sections[Max(Marked(x))].body
    BY <1>2 DEF Implementation, Marked
  <2>2. Max(Marked(x)) \in Marked(x)
    <3>1. Len(sections) \in Nat /\ Marked(x) \in SUBSET (1 .. Len(sections))
      BY DEF Marked
    <3>2. QED
      BY <1>2, <3>1, MaxFacts
  <2>3. sections[Max(Marked(x))].body \in Bodies
    <3>1. Max(Marked(x)) \in DOMAIN sections
      BY <2>2 DEF Marked
    <3>2. sections[Max(Marked(x))] \in Sections
      BY <3>1
    <3>3. QED
      BY <3>2 DEF Sections
  <2>4. QED
    BY <2>1, <2>2, <2>3
<1>3. QED
  BY <1>1, <1>2

LEMMA OfKindFacts ==
  ASSUME NEW ds \in Seq(Declarations), NEW kind
  PROVE  /\ OfKind(ds, kind) \in Seq(Declarations)
         /\ Range(OfKind(ds, kind)) = AllOf(ds, kind)
<1> DEFINE I == {i \in DOMAIN ds : ds[i].kind = kind}
<1>1. OfKind(ds, kind) \in Seq(Declarations) /\ Range(OfKind(ds, kind)) = {ds[i] : i \in I}
  BY OnlyFacts DEF OfKind
<1>2. {ds[i] : i \in I} = AllOf(ds, kind)
  BY DEF AllOf, Range
<1>3. QED
  BY <1>1, <1>2

LEMMA OptimizedFields ==
  ASSUME NEW ds
  PROVE  /\ Optimize(Lower(ds)).exts = OfKind(ds, "ext")
         /\ Optimize(Lower(ds)).prompts = AllOf(ds, "prompt")
         /\ Optimize(Lower(ds)).routers = AllOf(ds, "router")
         /\ Optimize(Lower(ds)).models = Names(ds, "model")
         /\ Optimize(Lower(ds)).events = Names(ds, "event")
         /\ Optimize(Lower(ds)).tools = Tools(ds)
         /\ Optimize(Lower(ds)).mods = DependencyMinimization(DeadModuleElimination(Modules(ds)))
BY DEF Optimize, Lower

\* The file that is generated.
LEMMA MergedSectionsType ==
  ASSUME sections \in Seq(Sections), ir.exts \in Seq(Declarations)
  PROVE  MergedSections \in Seq(Sections)
<1>1. \A i \in 1 .. Len(ir.exts) : ir.exts[i].name \in STRING
  BY DEF Declarations
<1>2. Len(ir.exts) \in Nat /\ DOMAIN ir.exts = 1 .. Len(ir.exts)
  OBVIOUS
<1>3. ASSUME NEW i \in 1 .. Len(ir.exts)
      PROVE  MergedSections[i] \in Sections
  BY <1>1, <1>2, <1>3, ImplementationFacts DEF MergedSections, Sections, Bodies
<1>4. MergedSections \in [1 .. Len(ir.exts) -> Sections]
  BY <1>2, <1>3 DEF MergedSections
<1>5. QED
  BY <1>2, <1>4

\* A stable extension point that had no body has none after the compile.
LEMMA MissingStays ==
  ASSUME Emit, sections \in Seq(Sections), ir.exts \in Seq(Declarations), Missing # {}
  PROVE  Missing' # {}
<1>1. PICK x \in Range(ir.exts) : x.flag /\ IsStub(Implementation(x.name))
  BY DEF Missing
<1>2. ir.exts # <<>>
  BY <1>1 DEF Range
<1>3. sections' = MergedSections /\ ir' = ir
  BY <1>2 DEF Emit
<1>4. \A i \in DOMAIN sections' : sections'[i].name = x.name => sections'[i].body = "stub"
  BY <1>1, <1>3 DEF MergedSections
<1>5. sections' \in Seq(Sections)
  BY <1>3, MergedSectionsType
<1>6. Implementation(x.name)' = "stub"
  <2>1. \/ Implementation(x.name)' = "stub"
        \/ \E i \in Marked(x.name)' : Implementation(x.name)' = sections'[i].body
    <3>1. Implementation(x.name)' = IF Marked(x.name)' = {} THEN "stub"
                                    ELSE sections'[Max(Marked(x.name)')].body
      BY DEF Implementation, Marked
    <3>2. Len(sections') \in Nat /\ Marked(x.name)' \in SUBSET (1 .. Len(sections'))
      BY <1>5 DEF Marked
    <3>3. QED
      BY <3>1, <3>2, MaxFacts
  <2>2. QED
    BY <1>4, <2>1 DEF Marked
<1>7. x \in Missing'
  BY <1>1, <1>3, <1>6 DEF Missing, IsStub
<1>8. QED
  BY <1>7

-----------------------------------------------------------------------------
(* The steps that keep the invariant *)

LEMMA CompileInvInit == CompileInit => CompileInv
<1> SUFFICES ASSUME CompileInit
             PROVE  CompileInv
  OBVIOUS
<1>1. main \in Seq(Declarations) /\ ast \in Seq(Declarations) /\ sections \in Seq(Sections)
  BY CompilerAssumption DEF CompileInit
<1>2. QED
  BY <1>1 DEF CompileInit, CompileInv

\* After an edit nothing is known but that files are files.
LEMMA EditedKeeps ==
  ASSUME CompileInv, Edited, main' \in Seq(Declarations), sections' \in Seq(Sections)
  PROVE  CompileInv'
BY DEF CompileInv, Edited

LEMMA BreakKeeps ==
  ASSUME CompileInv, NEW i \in DOMAIN main, NEW s \in {"ok", "header", "body"}, Edited,
         main' = [main EXCEPT ![i].syntax = s], sections' = sections
  PROVE  CompileInv'
<1>1. main \in Seq(Declarations) /\ sections \in Seq(Sections) /\ main[i] \in Declarations
  BY DEF CompileInv
<1>2. [main[i] EXCEPT !.syntax = s] \in Declarations
  BY <1>1 DEF Declarations
<1>3. main' \in Seq(Declarations)
  <2>1. main' = [main EXCEPT ![i] = [main[i] EXCEPT !.syntax = s]]
    OBVIOUS
  <2> HIDE DEF Declarations
  <2>2. QED
    BY <1>1, <1>2, <2>1
<1>4. QED
  BY <1>1, <1>3, EditedKeeps

LEMMA DeleteKeeps ==
  ASSUME CompileInv, NEW i \in DOMAIN main, Delete(i)
  PROVE  CompileInv'
<1>1. main \in Seq(Declarations) /\ sections \in Seq(Sections) /\ Len(main) \in Nat /\ i \in 1 .. Len(main)
  BY DEF CompileInv
<1>2. SubSeq(main, 1, i - 1) \in Seq(Declarations) /\ SubSeq(main, i + 1, Len(main)) \in Seq(Declarations)
  BY <1>1
<1>3. main' \in Seq(Declarations)
  BY <1>2 DEF Delete, RemoveAt
<1>4. QED
  BY <1>1, <1>3, EditedKeeps DEF Delete

LEMMA ImplementKeeps ==
  ASSUME CompileInv, NEW i \in DOMAIN sections, NEW b \in Bodies, Implement(i, b)
  PROVE  CompileInv'
<1>1. main \in Seq(Declarations) /\ sections \in Seq(Sections) /\ sections[i] \in Sections
  BY DEF CompileInv
<1>2. [sections[i] EXCEPT !.body = b] \in Sections
  BY <1>1 DEF Sections
<1>3. sections' = [sections EXCEPT ![i] = [sections[i] EXCEPT !.body = b]]
  BY DEF Implement
<1>4. sections' \in Seq(Sections)
  BY <1>1, <1>2, <1>3
<1>5. QED
  BY <1>1, <1>4, EditedKeeps DEF Implement

LEMMA ParseKeeps ==
  ASSUME CompileInv, Parse
  PROVE  CompileInv'
<1>1. ast' \in Seq(Declarations)
  BY LoadType DEF CompileInv, Parse
<1>2. ast' = Load(main)'
  BY DEF Parse, Load
<1>3. QED
  BY <1>1, <1>2 DEF CompileInv, Parse

LEMMA CheckKeeps ==
  ASSUME CompileInv, Check
  PROVE  CompileInv'
<1>1. complaints' \subseteq DOMAIN ast'
  BY DEF Check, Complaints
<1>2. Thrown' = Thrown
  BY DEF Check, Thrown
<1>3. QED
  BY <1>1, <1>2 DEF CompileInv, Check

LEMMA LowerProgramKeeps ==
  ASSUME CompileInv, LowerProgram
  PROVE  CompileInv'
<1>1. Thrown' = Thrown /\ ~Thrown
  BY DEF LowerProgram, Thrown
<1>2. QED
  BY <1>1 DEF CompileInv, LowerProgram

LEMMA LoweringThrowsKeeps ==
  ASSUME CompileInv, LoweringThrows
  PROVE  CompileInv'
<1>1. Thrown' = Thrown /\ Thrown
  BY DEF LoweringThrows, Thrown
<1>2. QED
  BY <1>1 DEF CompileInv, LoweringThrows

LEMMA OptimizeIRKeeps ==
  ASSUME CompileInv, OptimizeIR
  PROVE  CompileInv'
<1>1. Thrown' = Thrown
  BY DEF OptimizeIR, Thrown
<1>2. QED
  BY <1>1 DEF CompileInv, OptimizeIR

LEMMA EmitKeeps ==
  ASSUME CompileInv, Emit
  PROVE  CompileInv'
<1>1. /\ stage = "emit" /\ ~Thrown /\ ir = Optimize(Lower(ast)) /\ ast \in Seq(Declarations)
      /\ sections \in Seq(Sections)
  BY DEF CompileInv, Emit
<1>2. ir.exts \in Seq(Declarations)
  BY <1>1, OptimizedFields, OfKindFacts
<1>3. sections' \in Seq(Sections)
  BY <1>1, <1>2, MergedSectionsType DEF Emit
<1>4. Thrown' = Thrown
  BY DEF Emit, Thrown
<1>5. exit' = "failed" => Missing' # {}
  BY <1>1, <1>2, MissingStays DEF Emit
<1>6. migrations' = Migrations(ir.mods)' /\ exit' \in {"ok", "failed"}
  BY DEF Emit
<1>7. QED
  BY <1>1, <1>3, <1>4, <1>5, <1>6 DEF CompileInv, Emit

LEMMA CompileInvStep == CompileInv /\ [CompileNext]_compileVars => CompileInv'
<1> SUFFICES ASSUME CompileInv, [CompileNext]_compileVars
             PROVE  CompileInv'
  OBVIOUS
<1>1. ASSUME NEW i \in DOMAIN main, Repair(i)
      PROVE  CompileInv'
  BY <1>1, BreakKeeps DEF Repair
<1>2. ASSUME NEW i \in DOMAIN main, NEW s \in {"header", "body"}, Break(i, s)
      PROVE  CompileInv'
  BY <1>2, BreakKeeps DEF Break
<1>3. CASE UNCHANGED compileVars
  <2>1. Missing' = Missing /\ Thrown' = Thrown
    BY <1>3 DEF compileVars, Missing, Implementation, Thrown
  <2>2. QED
    BY <1>3, <2>1 DEF compileVars, CompileInv
<1>4. QED
  BY <1>1, <1>2, <1>3, DeleteKeeps, ImplementKeeps, ParseKeeps, CheckKeeps, LowerProgramKeeps,
     LoweringThrowsKeeps, OptimizeIRKeeps, EmitKeeps DEF CompileNext

LEMMA CompileInvAlways == CompileSpec => []CompileInv
BY CompileInvInit, CompileInvStep, PTL DEF CompileSpec

-----------------------------------------------------------------------------
(* The author's code *)

\* A section that is the only one of its name is what the compile takes.
LEMMA OnlySectionCounts ==
  ASSUME sections \in Seq(Sections), NEW x, Implemented(x),
         Cardinality({i \in DOMAIN sections : sections[i].name = x}) = 1
  PROVE  Implementation(x) = "code"
<1> DEFINE Named == {i \in DOMAIN sections : sections[i].name = x}
<1>1. PICK i \in DOMAIN sections : sections[i] = [name |-> x, body |-> "code"]
  BY DEF Implemented
<1>2. IsFiniteSet(Named)
  <2>1. Len(sections) \in Nat /\ Named \in SUBSET (1 .. Len(sections))
    OBVIOUS
  <2> HIDE DEF Named
  <2>2. IsFiniteSet(1 .. Len(sections))
    BY <2>1, FS_Interval
  <2>3. QED
    BY <2>1, <2>2, FS_Subset
<1>3. i \in Named
  BY <1>1
<1>4. Named = {i}
  <2>1. PICK j : Named = {j}
    <3> HIDE DEF Named
    <3>1. Cardinality(Named) = 1
      BY DEF Named
    <3>2. QED
      BY <1>2, <3>1, FS_Singleton
  <2>2. QED
    BY <1>3, <2>1
<1>5. Marked(x) = {i}
  BY <1>1, <1>4 DEF Marked
<1>6. Implementation(x) = sections[i].body
  BY <1>5, ImplementationFacts
<1>7. QED
  BY <1>1, <1>6

\* The code goes into the first section that is generated for the point.
LEMMA CodeIsMerged ==
  ASSUME ir.exts \in Seq(Declarations), NEW d \in Range(ir.exts), Implementation(d.name) = "code"
  PROVE  \E i \in DOMAIN MergedSections : MergedSections[i] = [name |-> d.name, body |-> "code"]
<1> DEFINE Named == {i \in DOMAIN ir.exts : ir.exts[i].name = d.name}
<1>1. Named \subseteq Nat /\ Named # {}
  BY DEF Range
<1>2. PICK i \in Named : \A j \in Named : i <= j
  <2> HIDE DEF Named
  <2>1. QED
    BY <1>1, LeastNumber
<1>3. ~\E j \in 1 .. i - 1 : ir.exts[j].name = d.name
  <2>1. \A j \in 1 .. i - 1 : j \in DOMAIN ir.exts /\ ~(i <= j)
    OBVIOUS
  <2>2. QED
    BY <1>2, <2>1
<1>4. i \in DOMAIN ir.exts /\ ir.exts[i].name = d.name
  OBVIOUS
<1>5. MergedSections[i] = [name |-> d.name, body |-> "code"]
  BY <1>3, <1>4 DEF MergedSections, IsStub
<1>6. QED
  BY <1>4, <1>5 DEF MergedSections

\* A compile drops the author's code for an extension point only if the point is
\* no longer written, was hidden by a parse error, or if the file holds two
\* sections of its name.
THEOREM CodeIsNeverDropped == CompileSpec => ExtensionCodeIsKept
<1> DEFINE Keeps ==
             stage = "emit" /\ ~ParseErrors =>
               \A x \in Names(Written, "ext") :
                 Implemented(x) /\ Cardinality({i \in DOMAIN sections : sections[i].name = x}) = 1
                   => Implemented(x)'
<1>1. CompileInv /\ [CompileNext]_compileVars => [Keeps]_compileVars
  <2> SUFFICES ASSUME CompileInv, CompileNext, stage = "emit", ~ParseErrors,
                      NEW x \in Names(Written, "ext"), Implemented(x),
                      Cardinality({i \in DOMAIN sections : sections[i].name = x}) = 1
               PROVE  Implemented(x)'
    OBVIOUS
  <2>1. Emit
    BY DEF CompileNext, Repair, Delete, Break, Implement, Edited, Parse, Check, LowerProgram,
           LoweringThrows, OptimizeIR
  <2>2. /\ ir = Optimize(Lower(ast)) /\ ast = Written /\ ast \in Seq(Declarations)
        /\ sections \in Seq(Sections)
    BY LoadsWhatIsWritten DEF CompileInv
  <2>3. ir.exts \in Seq(Declarations) /\ Range(ir.exts) = AllOf(Written, "ext")
    BY <2>2, OptimizedFields, OfKindFacts
  <2>4. PICK d \in Range(ir.exts) : d.name = x
    BY <2>3 DEF Names
  <2>5. Implementation(d.name) = "code"
    BY <2>2, <2>4, OnlySectionCounts
  <2>6. PICK i \in DOMAIN MergedSections : MergedSections[i] = [name |-> x, body |-> "code"]
    BY <2>3, <2>4, <2>5, CodeIsMerged
  <2>7. ir.exts # <<>>
    BY <2>4 DEF Range
  <2>8. sections' = MergedSections
    BY <2>1, <2>7 DEF Emit
  <2>9. QED
    BY <2>6, <2>8 DEF Implemented
<1>2. QED
  BY <1>1, CompileInvAlways, PTL DEF CompileSpec, ExtensionCodeIsKept

-----------------------------------------------------------------------------
(* The type checker and lowering *)

\* A program without complaints: nothing malformed, nothing undeclared.
LEMMA NoComplaints ==
  ASSUME NEW ds \in Seq(Declarations), Complaints(ds) = {}, NEW d \in Range(ds)
  PROVE  /\ d.kind \in {"model", "prompt", "router"} => ~Malformed(d)
         /\ d.kind \in {"capability", "prompt", "router"} => d.refs \subseteq Symbols(ds)
         /\ d.kind = "prompt" => \A name \in Names(ds, "capability") :
                <<"capability", name>> \in d.refs => CapabilityNamed(ds, name).flag
<1>1. PICK i \in DOMAIN ds : ds[i] = d
  BY DEF Range
<1>2. i \notin Complaints(ds)
  OBVIOUS
<1>3. /\ d.kind = "model" => ~CheckModel(d, Symbols(ds))
      /\ d.kind = "capability" => ~CheckCapability(d, Symbols(ds))
      /\ d.kind = "prompt" => ~CheckPrompt(d, ds, Symbols(ds))
      /\ d.kind = "router" => ~CheckRouter(d, Symbols(ds))
  BY <1>1, <1>2 DEF Complaints
<1>4. QED
  BY <1>3 DEF CheckModel, CheckCapability, CheckPrompt, CheckRouter, Undeclared

\* The capability that the symbol table has for a declared name has that name.
LEMMA NamedCapability ==
  ASSUME NEW ds \in Seq(Declarations), NEW x \in Names(ds, "capability")
  PROVE  \E c \in AllOf(ds, "capability") : c.name = x /\ c = CapabilityNamed(ds, x)
<1> DEFINE T == {i \in DOMAIN ds : ds[i].kind = "capability" /\ ds[i].name = x}
<1>1. Len(ds) \in Nat /\ T \in SUBSET (1 .. Len(ds))
  OBVIOUS
<1>2. PICK d \in AllOf(ds, "capability") : d.name = x
  BY DEF Names
<1>3. PICK i \in DOMAIN ds : ds[i] = d /\ d.kind = "capability"
  BY <1>2 DEF AllOf, Range
<1>4. i \in T
  BY <1>2, <1>3
<1>5. Max(T) \in T
  <2> HIDE DEF T
  <2>1. QED
    BY <1>1, <1>4, MaxFacts
<1>6. PICK m \in T : m = Max(T)
  BY <1>5
<1>7. ds[m] \in AllOf(ds, "capability") /\ ds[m].name = x
  BY <1>6 DEF AllOf, Range
<1>8. CapabilityNamed(ds, x) = ds[m]
  BY <1>6 DEF CapabilityNamed
<1>9. QED
  BY <1>7, <1>8

\* What the type checker accepts, lowering accepts.
LEMMA AcceptedLowers ==
  ASSUME CompileInv, exit # "none", complaints = {}, \A d \in Range(ast) : d.defect # "unreported"
  PROVE  ~Thrown /\ ir = Optimize(Lower(ast)) /\ ast \in Seq(Declarations) /\ Complaints(ast) = {}
<1>1. ast \in Seq(Declarations) /\ Complaints(ast) = {}
  BY DEF CompileInv
<1>2. ASSUME NEW i \in DOMAIN ast, Throws(ast[i])
      PROVE  FALSE
  <2>1. ast[i] \in Range(ast)
    BY DEF Range
  <2>2. ast[i].kind \in {"model", "prompt", "router"} /\ ast[i].defect = "thrown"
    BY <1>2, <2>1 DEF Throws
  <2>3. QED
    BY <1>1, <2>1, <2>2, NoComplaints DEF Malformed
<1>3. QED
  BY <1>1, <1>2 DEF CompileInv, Thrown

\* A reference that the checker has found names a declaration of its kind.
LEMMA RefDeclared ==
  ASSUME NEW ds \in Seq(Declarations), NEW d \in Range(ds), d.refs \subseteq Symbols(ds), NEW r \in d.refs
  PROVE  r = <<r[1], r[2]>> /\ r[1] \in LookedUp(d.kind) /\ r[2] \in Names(ds, r[1])
<1>1. d \in Declarations
  BY DEF Range
<1>2. r[1] \in LookedUp(d.kind) /\ r \in Kinds \X STRING
  BY <1>1 DEF Declarations
<1>3. PICK e \in Range(ds) : r = <<e.kind, e.name>>
  BY DEF Symbols
<1>4. r[1] = e.kind /\ r[2] = e.name
  BY <1>3
<1>5. QED
  BY <1>2, <1>3, <1>4 DEF Names, AllOf

\* Prompts and routers find in the IR what they name.
LEMMA RefsResolve ==
  ASSUME NEW ds \in Seq(Declarations), Complaints(ds) = {},
         NEW p \in AllOf(ds, "prompt") \cup AllOf(ds, "router"), NEW r \in p.refs
  PROVE  r[2] \in (CASE r[1] = "model" -> Names(ds, "model")
                     [] r[1] = "router" -> Names(ds, "router")
                     [] r[1] = "capability" -> Tools(ds)
                     [] r[1] = "ext" -> Names(ds, "ext"))
<1>1. p \in Range(ds) /\ p.kind \in {"prompt", "router"}
  BY DEF AllOf
<1>2. r = <<r[1], r[2]>> /\ r[1] \in LookedUp(p.kind) /\ r[2] \in Names(ds, r[1])
  BY <1>1, NoComplaints, RefDeclared
<1>3. r[1] \in {"model", "router", "ext", "capability"}
  BY <1>1, <1>2 DEF LookedUp
<1>4. CASE r[1] = "capability"
  <2>1. p.kind = "prompt"
    BY <1>1, <1>2, <1>4 DEF LookedUp
  <2>2. PICK c \in AllOf(ds, "capability") : c.name = r[2] /\ c = CapabilityNamed(ds, r[2])
    BY <1>2, <1>4, NamedCapability
  <2>3. c.flag
    BY <1>1, <1>2, <1>4, <2>1, <2>2, NoComplaints
  <2>4. p \in AllOf(ds, "prompt")
    BY <1>1, <2>1 DEF AllOf
  <2>5. <<"capability", c.name>> \in p.refs
    BY <1>2, <1>4, <2>2
  <2>6. QED
    BY <1>4, <2>2, <2>3, <2>4, <2>5 DEF Tools
<1>5. QED
  BY <1>2, <1>3, <1>4

-----------------------------------------------------------------------------
(* The modules of the IR *)

Built(ds) ==
  LET stores == OfKind(ds, "store")
      entities == OfKind(ds, "entity")
      channels == OfKind(ds, "channel")
  IN  [i \in DOMAIN stores |-> StoreModule(stores[i])]
      \o [i \in DOMAIN entities |-> EntityModule(entities[i], ds)]
      \o [i \in DOMAIN channels |-> ChannelModule(channels[i])]

Services(ds) ==
  {StoreModule(d) : d \in AllOf(ds, "store")} \cup {EntityModule(d, ds) : d \in AllOf(ds, "entity")}
  \cup {ChannelModule(d) : d \in AllOf(ds, "channel")}

LEMMA Joined ==
  ASSUME NEW T, NEW a \in Seq(T), NEW b \in Seq(T)
  PROVE  /\ a \o b \in Seq(T) /\ Len(a \o b) = Len(a) + Len(b) /\ Len(a) \in Nat /\ Len(b) \in Nat
         /\ \A i \in 1 .. Len(a) : (a \o b)[i] = a[i]
         /\ \A i \in 1 .. Len(b) : (a \o b)[Len(a) + i] = b[i]
<1>1. Len(a) \in Nat /\ Len(b) \in Nat /\ a \o b \in Seq(T) /\ Len(a \o b) = Len(a) + Len(b)
  BY ConcatProperties
<1>2. ASSUME NEW i \in 1 .. Len(a)
      PROVE  (a \o b)[i] = a[i]
  BY <1>1, ConcatProperties
<1>3. ASSUME NEW i \in 1 .. Len(b)
      PROVE  (a \o b)[Len(a) + i] = b[i]
  <2>1. Len(a) + i \in 1 .. Len(a) + Len(b) /\ ~(Len(a) + i <= Len(a)) /\ Len(a) + i - Len(a) = i
    BY <1>1
  <2>2. (a \o b)[Len(a) + i] = b[Len(a) + i - Len(a)]
    BY <2>1, ConcatProperties
  <2>3. QED
    BY <2>1, <2>2
<1>4. QED
  BY <1>1, <1>2, <1>3

Count(ds, kind) == Len(OfKind(ds, kind))

\* Which module stands where.
LEMMA ModulesFacts ==
  ASSUME NEW ds \in Seq(Declarations)
  PROVE  /\ Modules(ds) = Append(Built(ds), Gateway(Built(ds)))
         /\ Built(ds) \in Seq(Services(ds))
         /\ Count(ds, "store") \in Nat /\ Count(ds, "entity") \in Nat /\ Count(ds, "channel") \in Nat
         /\ Len(Built(ds)) = Count(ds, "store") + Count(ds, "entity") + Count(ds, "channel")
         /\ \A i \in 1 .. Count(ds, "store") : Built(ds)[i] = StoreModule(OfKind(ds, "store")[i])
         /\ \A i \in 1 .. Count(ds, "entity") :
              Built(ds)[Count(ds, "store") + i] = EntityModule(OfKind(ds, "entity")[i], ds)
         /\ \A i \in 1 .. Count(ds, "channel") :
              Built(ds)[Count(ds, "store") + Count(ds, "entity") + i]
                = ChannelModule(OfKind(ds, "channel")[i])
<1> DEFINE stores == OfKind(ds, "store")
           entities == OfKind(ds, "entity")
           channels == OfKind(ds, "channel")
           one == [i \in DOMAIN stores |-> StoreModule(stores[i])]
           two == [i \in DOMAIN entities |-> EntityModule(entities[i], ds)]
           three == [i \in DOMAIN channels |-> ChannelModule(channels[i])]
           T == Services(ds)
<1>1. /\ stores \in Seq(Declarations) /\ Range(stores) = AllOf(ds, "store")
      /\ entities \in Seq(Declarations) /\ Range(entities) = AllOf(ds, "entity")
      /\ channels \in Seq(Declarations) /\ Range(channels) = AllOf(ds, "channel")
  BY OfKindFacts
<1> DEFINE s == Count(ds, "store")
           e == Count(ds, "entity")
           c == Count(ds, "channel")
<1>2. /\ s \in Nat /\ DOMAIN stores = 1 .. s /\ e \in Nat /\ DOMAIN entities = 1 .. e
      /\ c \in Nat /\ DOMAIN channels = 1 .. c
  <2> HIDE DEF stores, entities, channels
  <2>1. Len(stores) \in Nat /\ Len(entities) \in Nat /\ Len(channels) \in Nat
    BY <1>1
  <2>2. /\ DOMAIN stores = 1 .. Len(stores) /\ DOMAIN entities = 1 .. Len(entities)
        /\ DOMAIN channels = 1 .. Len(channels)
    BY <1>1
  <2>3. QED
    BY <2>1, <2>2 DEF Count, stores, entities, channels
<1>3. /\ \A i \in 1 .. s : StoreModule(stores[i]) \in T
      /\ \A i \in 1 .. e : EntityModule(entities[i], ds) \in T
      /\ \A i \in 1 .. c : ChannelModule(channels[i]) \in T
  <2> HIDE DEF stores, entities, channels, s, e, c
  <2>1. /\ \A i \in 1 .. s : stores[i] \in AllOf(ds, "store")
        /\ \A i \in 1 .. e : entities[i] \in AllOf(ds, "entity")
        /\ \A i \in 1 .. c : channels[i] \in AllOf(ds, "channel")
    BY <1>1, <1>2 DEF Range
  <2>2. QED
    BY <2>1 DEF Services
<1>4. Built(ds) = one \o two \o three /\ Modules(ds) = Append(Built(ds), Gateway(Built(ds)))
  BY DEF Built, Modules
<1>5. /\ one \in [1 .. s -> T] /\ two \in [1 .. e -> T] /\ three \in [1 .. c -> T]
      /\ \A i \in 1 .. s : one[i] = StoreModule(stores[i])
      /\ \A i \in 1 .. e : two[i] = EntityModule(entities[i], ds)
      /\ \A i \in 1 .. c : three[i] = ChannelModule(channels[i])
  BY <1>2, <1>3
<1> HIDE DEF one, two, three, s, e, c, stores, entities, channels, T
<1>6. /\ one \in Seq(T) /\ two \in Seq(T) /\ three \in Seq(T)
      /\ Len(one) = s /\ Len(two) = e /\ Len(three) = c
  BY <1>2, <1>5
<1>7. /\ Built(ds) \in Seq(T) /\ Len(Built(ds)) = s + e + c
      /\ \A i \in 1 .. s : Built(ds)[i] = one[i]
      /\ \A i \in 1 .. e : Built(ds)[s + i] = two[i]
      /\ \A i \in 1 .. c : Built(ds)[s + e + i] = three[i]
  <2> DEFINE both == one \o two
  <2>1. both \in Seq(T)
    BY <1>6, Joined
  <2>2. Len(both) = Len(one) + Len(two)
    BY <1>6, Joined
  <2>3. \A i \in 1 .. Len(one) : both[i] = one[i]
    BY <1>6, Joined
  <2>4. \A i \in 1 .. Len(two) : both[Len(one) + i] = two[i]
    BY <1>6, Joined
  <2>5. /\ both \in Seq(T) /\ Len(both) = s + e
        /\ \A i \in 1 .. s : both[i] = one[i]
        /\ \A i \in 1 .. e : both[s + i] = two[i]
    BY <1>6, <2>1, <2>2, <2>3, <2>4
  <2> HIDE DEF both
  <2>6. Built(ds) = both \o three
    BY <1>4 DEF both
  <2>7. Built(ds) \in Seq(T)
    BY <1>6, <2>1, <2>6, Joined
  <2>8. Len(Built(ds)) = Len(both) + Len(three)
    BY <1>6, <2>1, <2>6, Joined
  <2>9. \A i \in 1 .. Len(both) : Built(ds)[i] = both[i]
    BY <1>6, <2>1, <2>6, Joined
  <2>10. \A i \in 1 .. Len(three) : Built(ds)[Len(both) + i] = three[i]
    BY <1>6, <2>1, <2>6, Joined
  <2>11. /\ Built(ds) \in Seq(T) /\ Len(Built(ds)) = s + e + c
         /\ \A i \in 1 .. s + e : Built(ds)[i] = both[i]
         /\ \A i \in 1 .. c : Built(ds)[s + e + i] = three[i]
    BY <1>6, <2>5, <2>7, <2>8, <2>9, <2>10
  <2>12. \A i \in 1 .. s : i \in 1 .. s + e
    BY <1>2
  <2>13. \A i \in 1 .. e : s + i \in 1 .. s + e
    BY <1>2
  <2>14. QED
    BY <2>5, <2>11, <2>12, <2>13
<1>8. QED
  BY <1>2, <1>4, <1>5, <1>7 DEF s, e, c, stores, entities, channels, T

Ids == {"store", "entity", "channel", "gateway"} \X (STRING \cup {"APIGateway"})
Models == [name : STRING, owner : STRING, fks : SUBSET STRING]
ModuleType ==
  [id : Ids, kind : {"data_store", "api_service", "realtime_service", "gateway"},
   model : Models \cup {NoModel}, deps : SUBSET Ids, methods : SUBSET STRING]

\* Modules depend in one direction only.
Shape(m) ==
  /\ m \in ModuleType /\ (m.kind = "data_store" <=> m.id[1] = "store")
  /\ m.id[1] \in {"store", "entity"} => m.model \in Models
  /\ m.id[1] \in {"channel", "gateway"} => m.model = NoModel
  /\ m.id[1] \in {"store", "channel"} => m.deps = {}
  /\ m.id[1] = "entity" => \A d \in m.deps : d[1] = "store"
  /\ m.id[1] = "gateway" => \A d \in m.deps : d[1] \in {"entity", "channel"}

LEMMA StoreShape ==
  ASSUME NEW d \in Declarations
  PROVE  Shape(StoreModule(d))
<1>1. d.name \in STRING /\ d.table \in STRING
  BY DEF Declarations
<1>2. <<"store", d.name>> \in Ids
  BY <1>1 DEF Ids
<1>3. [name |-> d.table, owner |-> d.name, fks |-> {}] \in Models
  BY <1>1 DEF Models
<1>4. QED
  BY <1>2, <1>3 DEF Shape, StoreModule, ModuleType

LEMMA ChannelShape ==
  ASSUME NEW d \in Declarations
  PROVE  Shape(ChannelModule(d))
<1>1. d.name \in STRING
  BY DEF Declarations
<1>2. <<"channel", d.name>> \in Ids
  BY <1>1 DEF Ids
<1>3. QED
  BY <1>2 DEF Shape, ChannelModule, ModuleType

\* The store of an entity is a declared one.
LEMMA EntityShape ==
  ASSUME NEW ds \in Seq(Declarations), NEW d \in Declarations
  PROVE  /\ Shape(EntityModule(d, ds))
         /\ EntityModule(d, ds).deps \subseteq {StoreModule(e).id : e \in AllOf(ds, "store")}
<1> DEFINE own == {i \in DOMAIN ds :
                     /\ ds[i].kind = "store"
                     /\ ds[i].name = d.name \/ <<ds[i].name, d.name>> \in StoreNames}
           deps == IF own = {} THEN {} ELSE {<<"store", ds[Min(own)].name>>}
           methods == {c.name : c \in {c \in AllOf(ds, "capability") : d.name \in c.params}}
<1>1. d.name \in STRING /\ d.table \in STRING /\ d.rels \in SUBSET STRING
  BY DEF Declarations
<1>2. <<"entity", d.name>> \in Ids
  BY <1>1 DEF Ids
<1>3. [name |-> d.table, owner |-> d.name, fks |-> d.rels] \in Models
  BY <1>1 DEF Models
<1>4. methods \in SUBSET STRING
  <2>1. \A c \in AllOf(ds, "capability") : c \in Declarations
    BY DEF AllOf, Range
  <2>2. \A c \in AllOf(ds, "capability") : c.name \in STRING
    BY <2>1 DEF Declarations
  <2>3. QED
    BY <2>2
<1>5. \A x \in deps : \E e \in AllOf(ds, "store") : e \in Declarations /\ x = <<"store", e.name>>
  <2>1. CASE own = {}
    BY <2>1
  <2>2. CASE own # {}
    <3>1. Len(ds) \in Nat /\ own \in SUBSET (1 .. Len(ds))
      OBVIOUS
    <3>2. Min(own) \in own
      <4> HIDE DEF own
      <4>1. QED
        BY <2>2, <3>1, MinFacts
    <3>3. PICK i \in own : i = Min(own)
      <4> HIDE DEF own
      <4>1. QED
        BY <3>2
    <3>4. ds[i] \in AllOf(ds, "store") /\ ds[i] \in Declarations
      <4>1. i \in DOMAIN ds /\ ds[i].kind = "store"
        BY <3>3
      <4>2. QED
        BY <4>1 DEF AllOf, Range
    <3>5. deps = {<<"store", ds[Min(own)].name>>}
      BY <2>2
    <3> HIDE DEF own, deps
    <3>6. QED
      BY <3>3, <3>4, <3>5
  <2>3. QED
    BY <2>1, <2>2
<1>6. deps \subseteq Ids /\ \A x \in deps : x[1] = "store"
  <2> HIDE DEF deps
  <2>1. \A e \in Declarations : e.name \in STRING
    BY DEF Declarations
  <2>2. QED
    BY <1>5, <2>1 DEF Ids
<1>7. EntityModule(d, ds) =
        [id |-> <<"entity", d.name>>, kind |-> "api_service",
         model |-> [name |-> d.table, owner |-> d.name, fks |-> d.rels], deps |-> deps,
         methods |-> methods]
  BY DEF EntityModule
<1> HIDE DEF own, deps, methods
<1>8. EntityModule(d, ds).deps \subseteq {StoreModule(e).id : e \in AllOf(ds, "store")}
  BY <1>5, <1>7 DEF StoreModule
<1>9. QED
  BY <1>2, <1>3, <1>4, <1>6, <1>7, <1>8 DEF Shape, ModuleType

LEMMA ServicesShape ==
  ASSUME NEW ds \in Seq(Declarations), NEW m \in Services(ds)
  PROVE  Shape(m) /\ m.id[1] # "gateway"
<1>1. \A kind : \A d \in AllOf(ds, kind) : d \in Declarations
  BY DEF AllOf, Range
<1>2. CASE \E d \in AllOf(ds, "store") : m = StoreModule(d)
  BY <1>1, <1>2, StoreShape DEF StoreModule
<1>3. CASE \E d \in AllOf(ds, "entity") : m = EntityModule(d, ds)
  <2>1. PICK d \in AllOf(ds, "entity") : m = EntityModule(d, ds)
    BY <1>3
  <2>2. m.id = <<"entity", d.name>>
    BY <2>1 DEF EntityModule
  <2>3. QED
    BY <1>1, <2>1, <2>2, EntityShape
<1>4. CASE \E d \in AllOf(ds, "channel") : m = ChannelModule(d)
  BY <1>1, <1>4, ChannelShape DEF ChannelModule
<1>5. QED
  BY <1>2, <1>3, <1>4 DEF Services

LEMMA GatewayShape ==
  ASSUME NEW ds \in Seq(Declarations)
  PROVE  Shape(Gateway(Built(ds))) /\ Gateway(Built(ds)).id[1] = "gateway"
<1>1. \A m \in Range(Built(ds)) : Shape(m) /\ m.id[1] # "gateway"
  BY ModulesFacts, ServicesShape DEF Range
<1>2. \A m \in Range(Built(ds)) : /\ m.id \in Ids
                                  /\ m.kind # "data_store" => m.id[1] \in {"entity", "channel"}
  BY <1>1 DEF Shape, ModuleType, Ids
<1>3. /\ Gateway(Built(ds)).deps \in SUBSET Ids
      /\ \A d \in Gateway(Built(ds)).deps : d[1] \in {"entity", "channel"}
  BY <1>2 DEF Gateway
<1>4. <<"gateway", "APIGateway">> \in Ids
  BY DEF Ids
<1>5. QED
  BY <1>3, <1>4 DEF Gateway, Shape, ModuleType

\* Every declared store, entity and channel has its module.
LEMMA ModulesRange ==
  ASSUME NEW ds \in Seq(Declarations)
  PROVE  /\ Range(Built(ds)) = Services(ds)
         /\ Modules(ds) \in Seq(ModuleType)
         /\ Range(Modules(ds)) = Services(ds) \cup {Gateway(Built(ds))}
         /\ \A m \in Range(Modules(ds)) : Shape(m)
<1> DEFINE s == Count(ds, "store")
           e == Count(ds, "entity")
           c == Count(ds, "channel")
           b == Built(ds)
<1>1. /\ b \in Seq(Services(ds)) /\ Len(b) = s + e + c /\ s \in Nat /\ e \in Nat /\ c \in Nat
      /\ \A i \in 1 .. s : b[i] = StoreModule(OfKind(ds, "store")[i])
      /\ \A i \in 1 .. e : b[s + i] = EntityModule(OfKind(ds, "entity")[i], ds)
      /\ \A i \in 1 .. c : b[s + e + i] = ChannelModule(OfKind(ds, "channel")[i])
  BY ModulesFacts
<1>2. ASSUME NEW kind, NEW d \in AllOf(ds, kind)
      PROVE  \E i \in 1 .. Count(ds, kind) : OfKind(ds, kind)[i] = d
  BY OfKindFacts DEF Range, Count
<1> HIDE DEF s, e, c, b
<1>3. DOMAIN b = 1 .. s + e + c
  BY <1>1
<1>4. ASSUME NEW d \in AllOf(ds, "store")
      PROVE  StoreModule(d) \in Range(b)
  <2>1. PICK i \in 1 .. s : OfKind(ds, "store")[i] = d
    BY <1>2 DEF s
  <2>2. i \in 1 .. s + e + c
    BY <1>1
  <2>3. QED
    BY <1>1, <1>3, <2>1, <2>2 DEF Range
<1>5. ASSUME NEW d \in AllOf(ds, "entity")
      PROVE  EntityModule(d, ds) \in Range(b)
  <2>1. PICK i \in 1 .. e : OfKind(ds, "entity")[i] = d
    BY <1>2 DEF e
  <2>2. s + i \in 1 .. s + e + c
    BY <1>1
  <2>3. QED
    BY <1>1, <1>3, <2>1, <2>2 DEF Range
<1>6. ASSUME NEW d \in AllOf(ds, "channel")
      PROVE  ChannelModule(d) \in Range(b)
  <2>1. PICK i \in 1 .. c : OfKind(ds, "channel")[i] = d
    BY <1>2 DEF c
  <2>2. s + e + i \in 1 .. s + e + c
    BY <1>1
  <2>3. QED
    BY <1>1, <1>3, <2>1, <2>2 DEF Range
<1>7. Range(b) = Services(ds)
  <2>1. Range(b) \subseteq Services(ds)
    BY <1>1 DEF Range
  <2>2. QED
    BY <1>4, <1>5, <1>6, <2>1 DEF Services
<1>8. \A m \in Services(ds) \cup {Gateway(b)} : Shape(m) /\ m \in ModuleType
  BY ServicesShape, GatewayShape DEF b, Shape
<1>9. Modules(ds) = Append(b, Gateway(b)) /\ b \in Seq(ModuleType)
  BY <1>1, <1>8, ModulesFacts DEF b
<1>10. Modules(ds) \in Seq(ModuleType) /\ Range(Modules(ds)) = Range(b) \cup {Gateway(b)}
  <2>1. Gateway(b) \in ModuleType
    BY <1>8
  <2>2. Modules(ds) \in Seq(ModuleType) /\ DOMAIN Modules(ds) = 1 .. Len(b) + 1 /\ Len(b) \in Nat
    BY <1>9, <2>1, AppendProperties
  <2>3. /\ \A i \in 1 .. Len(b) : Modules(ds)[i] = b[i]
        /\ Modules(ds)[Len(b) + 1] = Gateway(b)
    BY <1>9, <2>1, AppendProperties
  <2>4. DOMAIN b = 1 .. Len(b)
    BY <1>1
  <2>5. Range(Modules(ds)) \subseteq Range(b) \cup {Gateway(b)}
    BY <2>2, <2>3, <2>4 DEF Range
  <2>6. Range(b) \cup {Gateway(b)} \subseteq Range(Modules(ds))
    BY <2>2, <2>3, <2>4 DEF Range
  <2>7. QED
    BY <2>2, <2>5, <2>6
<1>11. QED
  BY <1>7, <1>8, <1>10 DEF b

-----------------------------------------------------------------------------
(* The optimizer *)

ModuleIds(mods) == {m.id : m \in Range(mods)}

Seeds(mods) == {m.id : m \in {m \in Range(mods) : m.kind # "data_store"}}

Closed(mods) ==
  {S \in SUBSET (ModuleIds(mods) \ Seeds(mods)) :
     \A m \in Range(mods) : m.id \in Seeds(mods) \cup S =>
       m.deps \cap (ModuleIds(mods) \ Seeds(mods)) \subseteq S}

\* The places of the modules that are not eliminated.
Kept(mods) ==
  {i \in DOMAIN mods : mods[i].id \in Seeds(mods) \/ \A S \in Closed(mods) : mods[i].id \in S}

LEMMA KeptFacts ==
  ASSUME NEW mods \in Seq(ModuleType)
  PROVE  /\ DeadModuleElimination(mods) = Only(mods, Kept(mods))
         /\ \A i \in DOMAIN mods : mods[i].kind # "data_store" => i \in Kept(mods)
         /\ \A i \in Kept(mods), j \in DOMAIN mods :
              mods[j].id \in mods[i].deps => j \in Kept(mods)
<1>1. DeadModuleElimination(mods) = Only(mods, Kept(mods))
  BY DEF DeadModuleElimination, Kept, Closed, Seeds, ModuleIds
<1>2. \A i \in DOMAIN mods : mods[i] \in Range(mods) /\ mods[i].id \in ModuleIds(mods)
  BY DEF Range, ModuleIds
<1>3. ASSUME NEW i \in DOMAIN mods, mods[i].kind # "data_store"
      PROVE  i \in Kept(mods)
  BY <1>2, <1>3 DEF Kept, Seeds
<1>4. ASSUME NEW i \in Kept(mods), NEW j \in DOMAIN mods, mods[j].id \in mods[i].deps
      PROVE  j \in Kept(mods)
  <2>1. CASE mods[j].id \in Seeds(mods)
    BY <2>1 DEF Kept
  <2>2. CASE mods[j].id \notin Seeds(mods)
    <3>1. mods[j].id \in mods[i].deps \cap (ModuleIds(mods) \ Seeds(mods))
      BY <1>2, <1>4, <2>2
    <3>2. mods[i] \in Range(mods) /\ \A S \in Closed(mods) : mods[i].id \in Seeds(mods) \cup S
      BY <1>2 DEF Kept
    <3>3. \A S \in Closed(mods) : mods[j].id \in S
      BY <3>1, <3>2 DEF Closed
    <3>4. QED
      BY <3>3 DEF Kept
  <2>3. QED
    BY <2>1, <2>2
<1>5. QED
  BY <1>1, <1>3, <1>4

\* Dependencies are dropped, and nothing else of a module.
LEMMA MinimizationFacts ==
  ASSUME NEW mods \in Seq(ModuleType)
  PROVE  /\ DependencyMinimization(mods) \in Seq(ModuleType)
         /\ DOMAIN DependencyMinimization(mods) = DOMAIN mods
         /\ Len(DependencyMinimization(mods)) = Len(mods)
         /\ \A i \in DOMAIN mods :
              LET m == DependencyMinimization(mods)[i]
              IN  /\ m.id = mods[i].id /\ m.kind = mods[i].kind /\ m.model = mods[i].model
                  /\ m.methods = mods[i].methods /\ m.deps \subseteq mods[i].deps
<1> DEFINE Deps(d) == UNION {m.deps : m \in {m \in Range(mods) : m.id = d}}
           Less(m) == {d \in m.deps \ {m.id} : ~\E e \in m.deps \ {m.id} : d \in Deps(e) \ {m.id}}
<1>1. DependencyMinimization(mods) = [i \in DOMAIN mods |-> [mods[i] EXCEPT !.deps = Less(mods[i])]]
  BY DEF DependencyMinimization
<1>2. \A i \in DOMAIN mods : Less(mods[i]) \subseteq mods[i].deps
  OBVIOUS
<1> HIDE DEF Less
<1>3. ASSUME NEW i \in DOMAIN mods, NEW m, m = [mods[i] EXCEPT !.deps = Less(mods[i])]
      PROVE  /\ m.id = mods[i].id /\ m.kind = mods[i].kind /\ m.model = mods[i].model
             /\ m.methods = mods[i].methods /\ m.deps \subseteq mods[i].deps /\ m \in ModuleType
  <2>1. mods[i] \in ModuleType
    OBVIOUS
  <2>2. QED
    BY <1>2, <1>3, <2>1 DEF ModuleType
<1>4. Len(mods) \in Nat /\ DOMAIN mods = 1 .. Len(mods)
  OBVIOUS
<1>5. DependencyMinimization(mods) \in [1 .. Len(mods) -> ModuleType]
  BY <1>1, <1>3, <1>4
<1>6. DependencyMinimization(mods) \in Seq(ModuleType)
      /\ Len(DependencyMinimization(mods)) = Len(mods)
  BY <1>4, <1>5
<1>7. \A i \in DOMAIN mods : DependencyMinimization(mods)[i] = [mods[i] EXCEPT !.deps = Less(mods[i])]
  BY <1>1
<1>8. QED
  BY <1>1, <1>3, <1>6, <1>7

Optimized(ds) == DependencyMinimization(DeadModuleElimination(Modules(ds)))

\* Where the modules that are left come from.
LEMMA OptimizedFacts ==
  ASSUME NEW ds \in Seq(Declarations)
  PROVE  LET mods == Modules(ds)
             K == Kept(mods)
             left == Optimized(ds)
         IN  /\ left \in Seq(ModuleType) /\ K \in SUBSET DOMAIN mods
             /\ \A k \in DOMAIN left :
                  LET m == mods[Nth(K, k)]
                  IN  /\ Nth(K, k) \in K /\ left[k].id = m.id /\ left[k].kind = m.kind
                      /\ left[k].model = m.model /\ left[k].methods = m.methods
                      /\ left[k].deps \subseteq m.deps
             /\ \A i \in K : \E k \in DOMAIN left : Nth(K, k) = i
             /\ \A k, l \in DOMAIN left : k < l => Nth(K, k) < Nth(K, l)
<1> DEFINE mods == Modules(ds)
           K == Kept(mods)
           dead == DeadModuleElimination(mods)
           left == Optimized(ds)
<1>1. mods \in Seq(ModuleType) /\ K \in SUBSET DOMAIN mods /\ dead = Only(mods, K)
  BY ModulesRange, KeptFacts DEF Kept
<1>2. left = DependencyMinimization(dead)
  BY DEF Optimized
<1> HIDE DEF mods, K, dead, left
<1>3. /\ dead \in Seq(ModuleType)
      /\ \A k \in DOMAIN dead : Nth(K, k) \in K /\ dead[k] = mods[Nth(K, k)]
      /\ \A i \in K : \E k \in DOMAIN dead : Nth(K, k) = i
      /\ \A k, l \in DOMAIN dead : k < l => Nth(K, k) < Nth(K, l)
  BY <1>1, OnlyFacts
<1>4. left \in Seq(ModuleType) /\ DOMAIN left = DOMAIN dead
      /\ \A k \in DOMAIN dead :
           /\ left[k].id = dead[k].id /\ left[k].kind = dead[k].kind /\ left[k].model = dead[k].model
           /\ left[k].methods = dead[k].methods /\ left[k].deps \subseteq dead[k].deps
  BY <1>2, <1>3, MinimizationFacts
<1>5. QED
  BY <1>1, <1>3, <1>4 DEF mods, K, left

-----------------------------------------------------------------------------
(* The verifier *)

LEMMA NoDanglingDependency ==
  ASSUME NEW ds \in Seq(Declarations)
  PROVE  ~DanglingDependencies(Optimized(ds))
<1> DEFINE mods == Modules(ds)
           K == Kept(mods)
           left == Optimized(ds)
<1>1. /\ mods \in Seq(ModuleType) /\ K \in SUBSET DOMAIN mods
      /\ \A i \in K, j \in DOMAIN mods : mods[j].id \in mods[i].deps => j \in K
  BY ModulesRange, KeptFacts, OptimizedFacts
<1>2. /\ \A k \in DOMAIN left : Nth(K, k) \in K /\ left[k].id = mods[Nth(K, k)].id
                                /\ left[k].deps \subseteq mods[Nth(K, k)].deps
      /\ \A i \in K : \E k \in DOMAIN left : Nth(K, k) = i
  BY OptimizedFacts
<1>3. ASSUME NEW m \in Range(mods), NEW d \in m.deps
      PROVE  \E o \in Range(mods) : o.id = d
  <2>1. Range(mods) = Services(ds) \cup {Gateway(Built(ds))} /\ Range(Built(ds)) = Services(ds)
    BY ModulesRange
  <2>2. CASE m = Gateway(Built(ds))
    BY <1>3, <2>1, <2>2 DEF Gateway
  <2>3. CASE \E e \in AllOf(ds, "entity") : m = EntityModule(e, ds)
    <3>1. PICK e \in AllOf(ds, "entity") : m = EntityModule(e, ds)
      BY <2>3
    <3>2. e \in Declarations
      BY DEF AllOf, Range
    <3>3. PICK s \in AllOf(ds, "store") : StoreModule(s).id = d
      BY <1>3, <3>1, <3>2, EntityShape
    <3>4. StoreModule(s) \in Services(ds)
      BY DEF Services
    <3>5. QED
      BY <2>1, <3>3, <3>4
  <2>4. CASE m \in Services(ds) /\ m.id[1] \in {"store", "channel"}
    BY <1>3, <2>1, <2>4, ServicesShape DEF Shape
  <2>5. m \in Services(ds) => \/ m.id[1] \in {"store", "channel"}
                              \/ \E e \in AllOf(ds, "entity") : m = EntityModule(e, ds)
    BY DEF Services, StoreModule, ChannelModule
  <2>6. QED
    BY <2>1, <2>2, <2>3, <2>4, <2>5
<1> HIDE DEF mods, K, left
<1>4. ASSUME NEW k \in DOMAIN left, NEW d \in left[k].deps
      PROVE  \E o \in Range(left) : o.id = d
  <2> DEFINE i == Nth(K, k)
  <2>1. i \in K /\ i \in DOMAIN mods /\ d \in mods[i].deps
    BY <1>1, <1>2
  <2>2. PICK j \in DOMAIN mods : mods[j].id = d
    BY <1>3, <2>1 DEF Range
  <2>3. j \in K
    BY <1>1, <2>1, <2>2
  <2>4. PICK l \in DOMAIN left : Nth(K, l) = j
    BY <1>2, <2>3
  <2>5. left[l].id = d
    BY <1>2, <2>2, <2>4
  <2>6. QED
    BY <2>5 DEF Range
<1>5. QED
  BY <1>4 DEF DanglingDependencies, Range, left

LEMMA NoCircularDependency ==
  ASSUME NEW ds \in Seq(Declarations)
  PROVE  ~CircularDependencies(Optimized(ds))
<1>1. ASSUME NEW m \in Range(Optimized(ds))
      PROVE  /\ m.id[1] \in {"store", "channel"} => m.deps = {}
             /\ m.id[1] = "entity" => \A d \in m.deps : d[1] = "store"
             /\ m.id[1] = "gateway" => \A d \in m.deps : d[1] \in {"entity", "channel"}
             /\ m.id[1] \in {"store", "channel", "entity", "gateway"}
  <2>1. PICK o \in Range(Modules(ds)) : m.id = o.id /\ m.deps \subseteq o.deps
    BY OptimizedFacts DEF Range
  <2>2. Shape(o)
    BY ModulesRange
  <2>3. QED
    BY <2>1, <2>2 DEF Shape, ModuleType, Ids
<1>2. ASSUME NEW M \in SUBSET Range(Optimized(ds)), NEW m \in M,
             \A n \in M : \E o \in M : o.id \in n.deps
      PROVE  FALSE
  <2>1. PICK o \in M : o.id \in m.deps
    BY <1>2
  <2>2. PICK p \in M : p.id \in o.deps
    BY <1>2
  <2>3. PICK q \in M : q.id \in p.deps
    BY <1>2
  <2>4. o.id[1] \notin {"store", "channel"} /\ p.id[1] \notin {"store", "channel"}
    BY <1>1, <2>2, <2>3
  <2>5. m.id[1] = "gateway" /\ o.id[1] = "entity"
    BY <1>1, <2>1, <2>4
  <2>6. p.id[1] = "store"
    BY <1>1, <2>2, <2>5
  <2>7. QED
    BY <2>4, <2>6
<1>3. QED
  BY <1>2 DEF CircularDependencies

LEMMA WhichModule ==
  ASSUME NEW ds \in Seq(Declarations), NEW i \in DOMAIN Modules(ds)
  PROVE  LET s == Count(ds, "store")
             e == Count(ds, "entity")
             c == Count(ds, "channel")
             m == Modules(ds)[i]
         IN  /\ s \in Nat /\ e \in Nat /\ c \in Nat /\ i \in 1 .. s + e + c + 1
             /\ i \in 1 .. s => m = StoreModule(OfKind(ds, "store")[i])
             /\ i - s \in 1 .. e => m = EntityModule(OfKind(ds, "entity")[i - s], ds)
             /\ i - s - e \in 1 .. c => m = ChannelModule(OfKind(ds, "channel")[i - s - e])
             /\ i = s + e + c + 1 => m = Gateway(Built(ds))
<1> DEFINE s == Count(ds, "store")
           e == Count(ds, "entity")
           c == Count(ds, "channel")
           b == Built(ds)
           T == Services(ds) \cup {Gateway(Built(ds))}
<1>1. /\ b \in Seq(T) /\ Len(b) = s + e + c /\ s \in Nat /\ e \in Nat /\ c \in Nat
      /\ Modules(ds) = Append(b, Gateway(b))
      /\ \A n \in 1 .. s : b[n] = StoreModule(OfKind(ds, "store")[n])
      /\ \A n \in 1 .. e : b[s + n] = EntityModule(OfKind(ds, "entity")[n], ds)
      /\ \A n \in 1 .. c : b[s + e + n] = ChannelModule(OfKind(ds, "channel")[n])
  BY ModulesFacts
<1>2. Gateway(b) \in T
  OBVIOUS
<1> HIDE DEF s, e, c, b, T
<1>3. /\ DOMAIN Modules(ds) = 1 .. Len(b) + 1 /\ Modules(ds)[Len(b) + 1] = Gateway(b)
      /\ \A n \in 1 .. Len(b) : Modules(ds)[n] = b[n]
  BY <1>1, <1>2, AppendProperties
<1>4. i \in 1 .. s + e + c + 1 /\ i \in Nat
  BY <1>1, <1>3
<1>5. ASSUME i \in 1 .. s
      PROVE  Modules(ds)[i] = StoreModule(OfKind(ds, "store")[i])
  BY <1>1, <1>3, <1>5
<1>6. ASSUME i - s \in 1 .. e
      PROVE  Modules(ds)[i] = EntityModule(OfKind(ds, "entity")[i - s], ds)
  <2>1. s + (i - s) = i /\ i \in 1 .. Len(b)
    BY <1>1, <1>4, <1>6
  <2>2. b[s + (i - s)] = EntityModule(OfKind(ds, "entity")[i - s], ds)
    BY <1>1, <1>6
  <2>3. QED
    BY <1>3, <2>1, <2>2
<1>7. ASSUME i - s - e \in 1 .. c
      PROVE  Modules(ds)[i] = ChannelModule(OfKind(ds, "channel")[i - s - e])
  <2>1. s + e + (i - s - e) = i /\ i \in 1 .. Len(b)
    BY <1>1, <1>4, <1>7
  <2>2. b[s + e + (i - s - e)] = ChannelModule(OfKind(ds, "channel")[i - s - e])
    BY <1>1, <1>7
  <2>3. QED
    BY <1>3, <2>1, <2>2
<1>8. i = s + e + c + 1 => Modules(ds)[i] = Gateway(b)
  BY <1>1, <1>3
<1>9. QED
  BY <1>1, <1>4, <1>5, <1>6, <1>7, <1>8 DEF s, e, c, b

\* Of each kind no two declarations have the same name.
LEMMA DistinctOfKind ==
  ASSUME NEW ds \in Seq(Declarations), Distinct(ds), NEW kind,
         NEW k \in 1 .. Count(ds, kind), NEW l \in 1 .. Count(ds, kind),
         OfKind(ds, kind)[k].name = OfKind(ds, kind)[l].name
  PROVE  k = l
<1> DEFINE I == {i \in DOMAIN ds : ds[i].kind = kind}
<1>1. I \in SUBSET DOMAIN ds /\ OfKind(ds, kind) = Only(ds, I)
  BY DEF OfKind
<1> HIDE DEF I
<1>2. /\ \A n \in DOMAIN Only(ds, I) : Nth(I, n) \in I /\ Only(ds, I)[n] = ds[Nth(I, n)]
      /\ \A n, o \in DOMAIN Only(ds, I) : n < o => Nth(I, n) < Nth(I, o)
      /\ Only(ds, I) \in Seq(Declarations)
  BY <1>1, OnlyFacts
<1>3. k \in DOMAIN Only(ds, I) /\ l \in DOMAIN Only(ds, I)
  BY <1>1, <1>2 DEF Count
<1>4. Nth(I, k) \in I /\ Nth(I, l) \in I /\ ds[Nth(I, k)].name = ds[Nth(I, l)].name
  BY <1>1, <1>2, <1>3
<1>5. Nth(I, k) = Nth(I, l)
  BY <1>4 DEF Distinct, I
<1>6. Nth(I, k) \in Nat /\ ~(k < l) /\ ~(l < k)
  BY <1>1, <1>2, <1>3, <1>4, <1>5
<1>7. QED
  BY <1>6

LEMMA NoDuplicateId ==
  ASSUME NEW ds \in Seq(Declarations), Distinct(ds)
  PROVE  ~DuplicateIds(Optimized(ds))
<1> DEFINE mods == Modules(ds)
           s == Count(ds, "store")
           e == Count(ds, "entity")
           c == Count(ds, "channel")
<1>1. ASSUME NEW i \in DOMAIN mods
      PROVE  \/ i \in 1 .. s /\ mods[i].id[1] = "store"
                             /\ mods[i].id[2] = OfKind(ds, "store")[i].name
             \/ i - s \in 1 .. e /\ mods[i].id[1] = "entity"
                                 /\ mods[i].id[2] = OfKind(ds, "entity")[i - s].name
             \/ i - s - e \in 1 .. c /\ mods[i].id[1] = "channel"
                                     /\ mods[i].id[2] = OfKind(ds, "channel")[i - s - e].name
             \/ i = s + e + c + 1 /\ mods[i].id[1] = "gateway"
                                  /\ mods[i].id[2] = "APIGateway"
  <2>1. s \in Nat /\ e \in Nat /\ c \in Nat /\ i \in 1 .. s + e + c + 1
    BY WhichModule
  <2> HIDE DEF s, e, c, mods
  <2>2. i \in 1 .. s \/ i - s \in 1 .. e \/ i - s - e \in 1 .. c \/ i = s + e + c + 1
    BY <2>1
  <2>3. i \in 1 .. s => mods[i].id[1] = "store"
                        /\ mods[i].id[2] = OfKind(ds, "store")[i].name
    BY <1>1, WhichModule DEF s, mods, StoreModule
  <2>4. i - s \in 1 .. e => mods[i].id[1] = "entity"
                            /\ mods[i].id[2] = OfKind(ds, "entity")[i - s].name
    BY <1>1, WhichModule DEF s, e, mods, EntityModule
  <2>5. i - s - e \in 1 .. c => mods[i].id[1] = "channel"
                                /\ mods[i].id[2] = OfKind(ds, "channel")[i - s - e].name
    BY <1>1, WhichModule DEF s, e, c, mods, ChannelModule
  <2>6. i = s + e + c + 1 => mods[i].id[1] = "gateway" /\ mods[i].id[2] = "APIGateway"
    BY <1>1, WhichModule DEF s, e, c, mods, Gateway
  <2>7. QED
    BY <2>2, <2>3, <2>4, <2>5, <2>6
<1>2. ASSUME NEW i \in DOMAIN mods, NEW j \in DOMAIN mods, mods[i].id = mods[j].id
      PROVE  i = j
  <2>1. s \in Nat /\ e \in Nat /\ c \in Nat /\ i \in Nat /\ j \in Nat
    BY WhichModule
  <2> HIDE DEF s, e, c, mods
  <2>2. CASE i \in 1 .. s /\ mods[i].id[1] = "store"
                          /\ mods[i].id[2] = OfKind(ds, "store")[i].name
    <3>1. j \in 1 .. s /\ mods[j].id[1] = "store"
                       /\ mods[j].id[2] = OfKind(ds, "store")[j].name
      BY <1>1, <1>2, <2>2
    <3>2. OfKind(ds, "store")[i].name = OfKind(ds, "store")[j].name
      BY <1>2, <2>2, <3>1
    <3>3. QED
      BY <2>2, <3>1, <3>2, DistinctOfKind DEF s
  <2>3. CASE i - s \in 1 .. e /\ mods[i].id[1] = "entity"
                              /\ mods[i].id[2] = OfKind(ds, "entity")[i - s].name
    <3>1. j - s \in 1 .. e /\ mods[j].id[1] = "entity"
                           /\ mods[j].id[2] = OfKind(ds, "entity")[j - s].name
      BY <1>1, <1>2, <2>3
    <3>2. OfKind(ds, "entity")[i - s].name = OfKind(ds, "entity")[j - s].name
      BY <1>2, <2>3, <3>1
    <3>3. i - s = j - s
      BY <2>3, <3>1, <3>2, DistinctOfKind DEF e
    <3>4. QED
      BY <2>1, <3>3
  <2>4. CASE i - s - e \in 1 .. c /\ mods[i].id[1] = "channel"
                                  /\ mods[i].id[2] = OfKind(ds, "channel")[i - s - e].name
    <3>1. j - s - e \in 1 .. c /\ mods[j].id[1] = "channel"
                               /\ mods[j].id[2] = OfKind(ds, "channel")[j - s - e].name
      BY <1>1, <1>2, <2>4
    <3>2. OfKind(ds, "channel")[i - s - e].name = OfKind(ds, "channel")[j - s - e].name
      BY <1>2, <2>4, <3>1
    <3>3. i - s - e = j - s - e
      BY <2>4, <3>1, <3>2, DistinctOfKind DEF c
    <3>4. QED
      BY <2>1, <3>3
  <2>5. CASE i = s + e + c + 1 /\ mods[i].id[1] = "gateway" /\ mods[i].id[2] = "APIGateway"
    <3>1. mods[j].id[1] = "gateway" /\ mods[j].id[2] = "APIGateway"
      BY <1>2, <2>5
    <3>2. j = s + e + c + 1
      BY <1>1, <3>1
    <3>3. QED
      BY <2>5, <3>2
  <2>6. QED
    BY <1>1, <2>2, <2>3, <2>4, <2>5
<1> DEFINE K == Kept(mods)
           left == Optimized(ds)
<1>3. /\ mods \in Seq(ModuleType) /\ K \in SUBSET DOMAIN mods
      /\ \A k \in DOMAIN left : Nth(K, k) \in K /\ left[k].id = mods[Nth(K, k)].id
      /\ \A k, l \in DOMAIN left : k < l => Nth(K, k) < Nth(K, l)
  BY ModulesRange, OptimizedFacts
<1> HIDE DEF mods, K, left
<1>4. ASSUME NEW k \in DOMAIN left, NEW l \in DOMAIN left, k < l
      PROVE  left[k].id # left[l].id
  <2>1. Nth(K, k) \in DOMAIN mods /\ Nth(K, l) \in DOMAIN mods /\ Nth(K, k) < Nth(K, l)
    BY <1>3, <1>4
  <2>2. Nth(K, k) # Nth(K, l)
    <3>1. Nth(K, k) \in Nat
      BY <1>3, <2>1
    <3>2. QED
      BY <2>1, <3>1
  <2>3. QED
    BY <1>2, <1>3, <2>1, <2>2
<1>5. QED
  BY <1>4 DEF DuplicateIds, left

-----------------------------------------------------------------------------
(* What the checker accepts *)

\* A capability is a method of the service of every entity it takes.
LEMMA MethodsStay ==
  ASSUME NEW ds \in Seq(Declarations), NEW c \in AllOf(ds, "capability"),
         NEW e \in c.params \cap Names(ds, "entity")
  PROVE  \E m \in Range(Optimized(ds)) : m.id = <<"entity", e>> /\ c.name \in m.methods
<1>1. PICK d \in AllOf(ds, "entity") : d.name = e
  BY DEF Names
<1>2. EntityModule(d, ds) \in Range(Modules(ds))
  BY ModulesRange DEF Services
<1>3. PICK i \in DOMAIN Modules(ds) : Modules(ds)[i] = EntityModule(d, ds)
  BY <1>2 DEF Range
<1>4. /\ EntityModule(d, ds).id = <<"entity", e>> /\ EntityModule(d, ds).kind = "api_service"
      /\ EntityModule(d, ds).methods = {f.name : f \in {f \in AllOf(ds, "capability") : d.name \in f.params}}
  BY <1>1 DEF EntityModule
<1>5. c.name \in EntityModule(d, ds).methods
  BY <1>1, <1>4
<1>6. i \in Kept(Modules(ds))
  BY <1>3, <1>4, ModulesRange, KeptFacts
<1>7. PICK k \in DOMAIN Optimized(ds) : Nth(Kept(Modules(ds)), k) = i
  BY <1>6, OptimizedFacts
<1>8. Optimized(ds)[k].id = <<"entity", e>> /\ c.name \in Optimized(ds)[k].methods
  BY <1>3, <1>4, <1>5, <1>7, OptimizedFacts
<1>9. QED
  BY <1>8 DEF Range

\* What the type checker accepts, lowering accepts; every reference the checker
\* looks up is there in the IR after the optimizer, a capability is a method of
\* the service of every declared entity it takes, and without duplicate names
\* the verifier finds nothing.
THEOREM AcceptedIsCompiled == CompileSpec => []AcceptedCompiles
<1>1. CompileInv => AcceptedCompiles
  <2> SUFFICES ASSUME CompileInv, exit # "none", complaints = {},
                      \A d \in Range(ast) : d.defect # "unreported"
               PROVE  /\ exit = "failed" => Missing # {}
                      /\ \A p \in ir.prompts \cup ir.routers : \A r \in p.refs :
                           r[2] \in (CASE r[1] = "model" -> ir.models
                                       [] r[1] = "router" -> {x.name : x \in ir.routers}
                                       [] r[1] = "capability" -> ir.tools
                                       [] r[1] = "ext" -> {x.name : x \in Range(ir.exts)})
                      /\ \A c \in AllOf(ast, "capability") :
                           /\ \A r \in c.refs : r[2] \in ir.events
                           /\ \A e \in c.params \cap Names(ast, "entity") :
                                \E m \in Range(ir.mods) : m.id = <<"entity", e>> /\ c.name \in m.methods
                      /\ Distinct(ast) => Verify(ir.mods) = {}
    BY DEF AcceptedCompiles
  <2>1. ~Thrown /\ ir = Optimize(Lower(ast)) /\ ast \in Seq(Declarations) /\ Complaints(ast) = {}
    BY AcceptedLowers
  <2>2. exit = "failed" => Missing # {}
    BY <2>1 DEF CompileInv
  <2>3. /\ ir.prompts = AllOf(ast, "prompt") /\ ir.routers = AllOf(ast, "router")
        /\ ir.models = Names(ast, "model") /\ ir.events = Names(ast, "event") /\ ir.tools = Tools(ast)
        /\ {x.name : x \in ir.routers} = Names(ast, "router")
        /\ {x.name : x \in Range(ir.exts)} = Names(ast, "ext")
        /\ ir.mods = Optimized(ast)
    BY <2>1, OptimizedFields, OfKindFacts DEF Names, Optimized
  <2>4. ASSUME NEW p \in ir.prompts \cup ir.routers, NEW r \in p.refs
        PROVE  r[2] \in (CASE r[1] = "model" -> ir.models
                           [] r[1] = "router" -> {x.name : x \in ir.routers}
                           [] r[1] = "capability" -> ir.tools
                           [] r[1] = "ext" -> {x.name : x \in Range(ir.exts)})
    <3>1. p \in AllOf(ast, "prompt") \cup AllOf(ast, "router")
      BY <2>3
    <3>2. r[2] \in (CASE r[1] = "model" -> Names(ast, "model")
                      [] r[1] = "router" -> Names(ast, "router")
                      [] r[1] = "capability" -> Tools(ast)
                      [] r[1] = "ext" -> Names(ast, "ext"))
      BY <2>1, <3>1, RefsResolve
    <3>3. QED
      BY <2>3, <3>2
  <2>5. ASSUME NEW c \in AllOf(ast, "capability"), NEW r \in c.refs
        PROVE  r[2] \in ir.events
    <3>1. c \in Range(ast) /\ c.kind = "capability"
      BY DEF AllOf
    <3>2. r[1] \in LookedUp("capability") /\ r[2] \in Names(ast, r[1])
      BY <2>1, <3>1, NoComplaints, RefDeclared
    <3>3. QED
      BY <2>3, <3>2 DEF LookedUp
  <2>6. Distinct(ast) => Verify(ir.mods) = {}
    BY <2>1, <2>3, NoDanglingDependency, NoCircularDependency, NoDuplicateId DEF Verify
  <2>7. ASSUME NEW c \in AllOf(ast, "capability"), NEW e \in c.params \cap Names(ast, "entity")
        PROVE  \E m \in Range(ir.mods) : m.id = <<"entity", e>> /\ c.name \in m.methods
    BY <2>1, <2>3, MethodsStay
  <2>8. QED
    BY <2>2, <2>4, <2>5, <2>6, <2>7
<1>2. QED
  BY <1>1, CompileInvAlways, PTL

-----------------------------------------------------------------------------
(* The schema files *)

Tabled(ds) == OfKind(ds, "store") \o OfKind(ds, "entity")

\* The place in the IR of the module that the schema file q is of.
WithModel(mods) == {k \in DOMAIN mods : mods[k].model # NoModel}
Origin(ds, q) == Nth(Kept(Modules(ds)), Nth(WithModel(Optimized(ds)), q))

LEMMA NoModelApart == \A m \in Models : m # NoModel
<1> SUFFICES ASSUME NEW m \in Models
             PROVE  m # NoModel
  OBVIOUS
<1>1. "name" \in DOMAIN m
  BY DEF Models
<1>2. DOMAIN <<>> = {}
  OBVIOUS
<1>3. QED
  BY <1>1, <1>2 DEF NoModel

LEMMA TablesFacts ==
  ASSUME NEW ds \in Seq(Declarations)
  PROVE  LET s == Count(ds, "store")
             e == Count(ds, "entity")
         IN  /\ Tabled(ds) \in Seq(Declarations) /\ DOMAIN Tabled(ds) = 1 .. s + e
             /\ s \in Nat /\ e \in Nat
             /\ \A i \in 1 .. s : Tabled(ds)[i] = OfKind(ds, "store")[i]
             /\ \A i \in 1 .. e : Tabled(ds)[s + i] = OfKind(ds, "entity")[i]
<1>1. OfKind(ds, "store") \in Seq(Declarations) /\ OfKind(ds, "entity") \in Seq(Declarations)
  BY OfKindFacts
<1>2. Tabled(ds) \in Seq(Declarations)
  BY <1>1, Joined DEF Tabled
<1>3. Len(Tabled(ds)) = Count(ds, "store") + Count(ds, "entity")
      /\ Count(ds, "store") \in Nat /\ Count(ds, "entity") \in Nat
  BY <1>1, Joined DEF Tabled, Count
<1>4. \A i \in 1 .. Count(ds, "store") : Tabled(ds)[i] = OfKind(ds, "store")[i]
  BY <1>1, Joined DEF Tabled, Count
<1>5. \A i \in 1 .. Count(ds, "entity") : Tabled(ds)[Count(ds, "store") + i] = OfKind(ds, "entity")[i]
  BY <1>1, Joined DEF Tabled, Count
<1>6. DOMAIN Tabled(ds) = 1 .. Count(ds, "store") + Count(ds, "entity")
  BY <1>2, <1>3
<1>7. QED
  BY <1>2, <1>3, <1>4, <1>5, <1>6

\* The models of the IR are those of the stores and entities, in this order.
LEMMA ModelFacts ==
  ASSUME NEW ds \in Seq(Declarations), NEW i \in DOMAIN Modules(ds)
  PROVE  /\ Modules(ds)[i].model # NoModel <=> i \in DOMAIN Tabled(ds)
         /\ i \in DOMAIN Tabled(ds) =>
              /\ Modules(ds)[i].model \in Models
              /\ Modules(ds)[i].model.name = Tabled(ds)[i].table
              /\ Modules(ds)[i].model.owner = Tabled(ds)[i].name
              /\ i <= Count(ds, "store") => Modules(ds)[i].model.fks = {}
              /\ i > Count(ds, "store") => /\ Modules(ds)[i].model.fks = Tabled(ds)[i].rels
                                           /\ Modules(ds)[i].kind = "api_service"
<1> DEFINE s == Count(ds, "store")
           e == Count(ds, "entity")
           c == Count(ds, "channel")
           m == Modules(ds)[i]
<1>1. s \in Nat /\ e \in Nat /\ c \in Nat /\ i \in 1 .. s + e + c + 1 /\ DOMAIN Tabled(ds) = 1 .. s + e
  BY WhichModule, TablesFacts
<1>2. m \in Range(Modules(ds)) /\ Shape(m)
  BY ModulesRange DEF Range
<1>3. CASE i \in 1 .. s
  <2>1. m = StoreModule(Tabled(ds)[i])
    BY <1>3, WhichModule, TablesFacts
  <2>2. /\ m.id[1] = "store"
        /\ m.model = [name |-> Tabled(ds)[i].table, owner |-> Tabled(ds)[i].name, fks |-> {}]
    BY <2>1 DEF StoreModule
  <2>3. /\ m.model \in Models /\ m.model.name = Tabled(ds)[i].table
        /\ m.model.owner = Tabled(ds)[i].name /\ m.model.fks = {}
    BY <1>2, <2>2 DEF Shape
  <2> HIDE DEF s, e, c, m
  <2>4. i \in DOMAIN Tabled(ds) /\ i <= s /\ ~(i > s)
    BY <1>1, <1>3
  <2>5. QED
    BY <2>3, <2>4, NoModelApart DEF s, m
<1>4. CASE i - s \in 1 .. e
  <2> DEFINE d == Tabled(ds)[i]
  <2>1. m = EntityModule(d, ds)
    <3>1. m = EntityModule(OfKind(ds, "entity")[i - s], ds)
      BY <1>4, WhichModule
    <3>2. Tabled(ds)[s + (i - s)] = OfKind(ds, "entity")[i - s]
      BY <1>4, TablesFacts
    <3> HIDE DEF s, e, c
    <3>3. s + (i - s) = i
      BY <1>1
    <3>4. QED
      BY <3>1, <3>2, <3>3
  <2>2. /\ m.id[1] = "entity" /\ m.kind = "api_service"
        /\ m.model = [name |-> d.table, owner |-> d.name, fks |-> d.rels]
    BY <2>1 DEF EntityModule
  <2>3. m.model \in Models
    BY <1>2, <2>2 DEF Shape
  <2> HIDE DEF s, e, c, m
  <2>4. i \in DOMAIN Tabled(ds) /\ ~(i <= s)
    BY <1>1, <1>4
  <2>5. QED
    BY <2>2, <2>3, <2>4, NoModelApart DEF s, m
<1>5. CASE i - s - e \in 1 .. c \/ i = s + e + c + 1
  <2>1. m.id[1] \in {"channel", "gateway"}
    <3>1. CASE i - s - e \in 1 .. c
      <4>1. m = ChannelModule(OfKind(ds, "channel")[i - s - e])
        BY <3>1, WhichModule
      <4>2. QED
        BY <4>1 DEF ChannelModule
    <3>2. CASE i = s + e + c + 1
      <4>1. m = Gateway(Built(ds))
        BY <3>2, WhichModule
      <4>2. QED
        BY <4>1 DEF Gateway
    <3>3. QED
      BY <1>5, <3>1, <3>2
  <2>2. m.model = NoModel
    BY <1>2, <2>1 DEF Shape
  <2> HIDE DEF s, e, c
  <2>3. i \notin DOMAIN Tabled(ds)
    BY <1>1, <1>5
  <2>4. QED
    BY <2>2, <2>3
<1>6. QED
  <2> HIDE DEF s, e, c, m
  <2>1. i \in 1 .. s \/ i - s \in 1 .. e \/ i - s - e \in 1 .. c \/ i = s + e + c + 1
    BY <1>1
  <2>2. QED
    BY <1>3, <1>4, <1>5, <2>1

\* Schema files are written in the order of the modules.
LEMMA FilesFacts ==
  ASSUME NEW ds \in Seq(Declarations)
  PROVE  LET files == SchemaFiles(Optimized(ds))
         IN  /\ files \in Seq(Models)
             /\ \A q \in DOMAIN files :
                  /\ Origin(ds, q) \in DOMAIN Tabled(ds) /\ Origin(ds, q) \in DOMAIN Modules(ds)
                  /\ files[q] = Modules(ds)[Origin(ds, q)].model
             /\ \A q, r \in DOMAIN files : q < r => Origin(ds, q) < Origin(ds, r)
             /\ \A i \in DOMAIN Tabled(ds) \cap Kept(Modules(ds)) :
                  \E q \in DOMAIN files : Origin(ds, q) = i
<1> DEFINE mods == Modules(ds)
           K == Kept(mods)
           left == Optimized(ds)
           P == WithModel(left)
           drafts == [k \in DOMAIN left |-> left[k].model]
           files == SchemaFiles(left)
           T == Models \cup {NoModel}
<1>1. /\ left \in Seq(ModuleType) /\ K \in SUBSET DOMAIN mods /\ mods \in Seq(ModuleType)
      /\ \A k \in DOMAIN left : Nth(K, k) \in K /\ left[k].model = mods[Nth(K, k)].model
      /\ \A i \in K : \E k \in DOMAIN left : Nth(K, k) = i
      /\ \A k, l \in DOMAIN left : k < l => Nth(K, k) < Nth(K, l)
  BY OptimizedFacts, ModulesRange
<1>2. /\ files = Only(drafts, P) /\ P = {k \in DOMAIN left : left[k].model # NoModel}
      /\ \A q : Origin(ds, q) = Nth(K, Nth(P, q))
  BY DEF SchemaFiles, WithModel, Origin
<1>3. \A i \in DOMAIN mods : /\ mods[i].model # NoModel <=> i \in DOMAIN Tabled(ds)
                             /\ i \in DOMAIN Tabled(ds) => mods[i].model \in Models
  BY ModelFacts
<1> HIDE DEF mods, K, left, files, P
<1>4. drafts \in Seq(T) /\ DOMAIN drafts = DOMAIN left
  <2>1. \A k \in DOMAIN left : left[k].model \in T
    <3>1. \A k \in DOMAIN left : left[k] \in ModuleType
      BY <1>1
    <3>2. QED
      BY <3>1 DEF ModuleType
  <2>2. Len(left) \in Nat /\ DOMAIN left = 1 .. Len(left)
    BY <1>1
  <2>3. drafts \in [1 .. Len(left) -> T]
    BY <2>1, <2>2
  <2> HIDE DEF drafts, T
  <2>4. QED
    BY <2>2, <2>3
<1>5. \A k \in DOMAIN left : drafts[k] = left[k].model
  OBVIOUS
<1> HIDE DEF drafts, T
<1>6. /\ files \in Seq(T)
      /\ \A q \in DOMAIN files : Nth(P, q) \in P /\ files[q] = drafts[Nth(P, q)]
      /\ \A k \in P : \E q \in DOMAIN files : Nth(P, q) = k
      /\ \A q, r \in DOMAIN files : q < r => Nth(P, q) < Nth(P, r)
  <2>1. P \in SUBSET DOMAIN drafts
    BY <1>2, <1>4
  <2>2. files = Only(drafts, P) /\ drafts \in Seq(T)
    BY <1>2, <1>4
  <2>3. QED
    BY <2>1, <2>2, OnlyFacts
<1>7. ASSUME NEW q \in DOMAIN files
      PROVE  /\ Origin(ds, q) \in DOMAIN Tabled(ds) /\ Origin(ds, q) \in DOMAIN mods
             /\ files[q] = mods[Origin(ds, q)].model /\ files[q] \in Models
  <2>1. Nth(P, q) \in DOMAIN left /\ left[Nth(P, q)].model # NoModel /\ files[q] = left[Nth(P, q)].model
    BY <1>2, <1>5, <1>6
  <2>2. Origin(ds, q) \in DOMAIN mods /\ left[Nth(P, q)].model = mods[Origin(ds, q)].model
    <3>1. /\ Nth(K, Nth(P, q)) \in DOMAIN mods
          /\ left[Nth(P, q)].model = mods[Nth(K, Nth(P, q))].model
      BY <1>1, <2>1
    <3>2. QED
      BY <1>2, <3>1
  <2>3. QED
    BY <1>3, <2>1, <2>2
<1>8. files \in Seq(Models)
  <2>1. Len(files) \in Nat /\ files \in [1 .. Len(files) -> T]
    BY <1>6
  <2>2. files \in [1 .. Len(files) -> Models]
    BY <1>7, <2>1
  <2>3. QED
    BY <2>1, <2>2
<1>9. ASSUME NEW q \in DOMAIN files, NEW r \in DOMAIN files, q < r
      PROVE  Origin(ds, q) < Origin(ds, r)
  <2>1. Nth(P, q) < Nth(P, r) /\ Nth(P, q) \in DOMAIN left /\ Nth(P, r) \in DOMAIN left
    BY <1>2, <1>6, <1>9
  <2>2. Nth(K, Nth(P, q)) < Nth(K, Nth(P, r))
    BY <1>1, <2>1
  <2>3. QED
    BY <1>2, <2>2
<1>10. ASSUME NEW i \in DOMAIN Tabled(ds) \cap K
       PROVE  \E q \in DOMAIN files : Origin(ds, q) = i
  <2>1. PICK k \in DOMAIN left : Nth(K, k) = i
    BY <1>1
  <2>2. k \in P
    BY <1>1, <1>2, <1>3, <2>1
  <2>3. PICK q \in DOMAIN files : Nth(P, q) = k
    BY <1>6, <2>2
  <2>4. QED
    BY <1>2, <2>1, <2>3
<1>11. QED
  BY <1>7, <1>8, <1>9, <1>10 DEF mods, K, left, files

\* Where no name contains a later one, every model gets its own file.
LEMMA MigrationsAreFiles ==
  ASSUME NEW mods, SchemaFiles(mods) \in Seq(Models),
         \A i, j \in DOMAIN SchemaFiles(mods) :
           i < j => ~Within(SchemaFiles(mods)[j].name, SchemaFiles(mods)[i].name)
  PROVE  Migrations(mods) = SchemaFiles(mods)
<1> DEFINE files == SchemaFiles(mods)
           found == [i \in DOMAIN files |-> SchemaFileOf(files[i], files)]
           I == {i \in DOMAIN found : ~\E j \in 1 .. i - 1 : found[j].name = found[i].name}
<1>1. Migrations(mods) = Only(found, I)
  BY DEF Migrations
<1>2. Len(files) \in Nat /\ DOMAIN files = 1 .. Len(files) /\ files \in Seq(Models)
  OBVIOUS
<1>3. \A i, j \in DOMAIN files : i < j => ~Within(files[j].name, files[i].name)
  OBVIOUS
<1> HIDE DEF files
<1>4. ASSUME NEW i \in DOMAIN files
      PROVE  SchemaFileOf(files[i], files) = files[i]
  <2> DEFINE S == {j \in DOMAIN files : Within(files[i].name, files[j].name)}
  <2>1. S \in SUBSET (1 .. Len(files)) /\ i \in S
    BY <1>2 DEF Within
  <2>2. \A j \in S : ~(j < i)
    BY <1>3
  <2>3. SchemaFileOf(files[i], files) = files[Min(S)]
    BY DEF SchemaFileOf
  <2> HIDE DEF S
  <2>4. Min(S) \in S /\ Min(S) <= i
    BY <1>2, <2>1, MinFacts
  <2>5. Min(S) = i
    BY <1>2, <2>1, <2>2, <2>4
  <2>6. QED
    BY <2>3, <2>5
<1>5. found = files
  <2>1. files = [i \in DOMAIN files |-> files[i]]
    BY <1>2
  <2>2. QED
    BY <1>4, <2>1
<1>6. I = DOMAIN files
  <2>1. ASSUME NEW i \in DOMAIN files, NEW j \in 1 .. i - 1
        PROVE  files[j].name # files[i].name
    <3>1. j \in DOMAIN files /\ j < i
      BY <1>2
    <3>2. QED
      BY <1>3, <3>1 DEF Within
  <2> HIDE DEF found
  <2>2. QED
    BY <1>5, <2>1
<1> HIDE DEF found, I
<1>7. QED
  BY <1>1, <1>2, <1>5, <1>6, OnlyAll DEF files

\* What a compile writes for a program whose names do not contain each other.
LEMMA OrderlyMigrations ==
  ASSUME NEW ds \in Seq(Declarations),
         \A i, j \in DOMAIN Tabled(ds) : i < j => ~Within(Tabled(ds)[j].table, Tabled(ds)[i].table)
  PROVE  Migrations(Optimized(ds)) = SchemaFiles(Optimized(ds))
<1> DEFINE files == SchemaFiles(Optimized(ds))
<1>1. /\ files \in Seq(Models)
      /\ \A q \in DOMAIN files : Origin(ds, q) \in DOMAIN Tabled(ds)
                                 /\ files[q].name = Tabled(ds)[Origin(ds, q)].table
      /\ \A q, r \in DOMAIN files : q < r => Origin(ds, q) < Origin(ds, r)
  BY FilesFacts, ModelFacts
<1>2. \A q, r \in DOMAIN files : q < r => ~Within(files[r].name, files[q].name)
  BY <1>1
<1>3. QED
  BY <1>1, <1>2, MigrationsAreFiles

\* The table of every entity is in the migrations.
LEMMA EntityHasFile ==
  ASSUME NEW ds \in Seq(Declarations), NEW l \in 1 .. Count(ds, "entity")
  PROVE  LET files == SchemaFiles(Optimized(ds))
             i == Count(ds, "store") + l
         IN  /\ i \in DOMAIN Tabled(ds) /\ Tabled(ds)[i] = OfKind(ds, "entity")[l]
             /\ \E q \in DOMAIN files : Origin(ds, q) = i /\ files[q] = Modules(ds)[i].model
             /\ i \in DOMAIN Modules(ds) /\ i > Count(ds, "store")
<1> DEFINE s == Count(ds, "store")
           e == Count(ds, "entity")
           i == s + l
<1>1. /\ s \in Nat /\ e \in Nat /\ DOMAIN Tabled(ds) = 1 .. s + e
      /\ Tabled(ds)[i] = OfKind(ds, "entity")[l]
  BY TablesFacts
<1>2. /\ Modules(ds) = Append(Built(ds), Gateway(Built(ds))) /\ Count(ds, "channel") \in Nat
      /\ Len(Built(ds)) = s + e + Count(ds, "channel") /\ Modules(ds) \in Seq(ModuleType)
  BY ModulesFacts, ModulesRange
<1>3. Len(Modules(ds)) = Len(Built(ds)) + 1
  <2>1. Gateway(Built(ds)) \in Services(ds) \cup {Gateway(Built(ds))}
    OBVIOUS
  <2>2. Built(ds) \in Seq(Services(ds) \cup {Gateway(Built(ds))})
    BY ModulesFacts
  <2>3. Modules(ds) = Append(Built(ds), Gateway(Built(ds)))
    BY ModulesFacts
  <2>4. QED
    BY <2>1, <2>2, <2>3, AppendProperties
<1>4. DOMAIN Modules(ds) = 1 .. s + e + Count(ds, "channel") + 1
  BY <1>2, <1>3
<1>5. i \in DOMAIN Tabled(ds) /\ i \in DOMAIN Modules(ds) /\ i > s
  <2> HIDE DEF s, e
  <2>1. i \in 1 .. s + e /\ i \in 1 .. s + e + Count(ds, "channel") + 1 /\ i > s
    BY <1>1, <1>2 DEF e
  <2>2. QED
    BY <1>1, <1>4, <2>1
<1>6. Modules(ds)[i].kind # "data_store"
  BY <1>5, ModelFacts
<1>7. i \in Kept(Modules(ds))
  BY <1>5, <1>6, ModulesRange, KeptFacts
<1>8. \E q \in DOMAIN SchemaFiles(Optimized(ds)) :
         Origin(ds, q) = i /\ SchemaFiles(Optimized(ds))[q] = Modules(ds)[i].model
  <2> HIDE DEF i
  <2>1. QED
    BY <1>5, <1>7, FilesFacts
<1>9. QED
  BY <1>1, <1>5, <1>8

\* The migrations can be run in their order and hold a table for every entity,
\* as the entity declares it, if nothing is lost to the parser, no name is
\* declared twice, no name contains one that is declared later, and belongs_to
\* points back to an entity.
THEOREM SchemaAlwaysInstalls == CompileSpec => []SchemaInstalls
<1>1. CompileInv => SchemaInstalls
  <2> SUFFICES ASSUME CompileInv, exit = "ok", Orderly
               PROVE  /\ \A i \in DOMAIN migrations :
                           migrations[i].fks \subseteq {migrations[j].name : j \in 1 .. i}
                      /\ \A e \in AllOf(Written, "entity") :
                           [name |-> e.table, owner |-> e.name, fks |-> e.rels] \in Range(migrations)
    BY DEF SchemaInstalls
  <2> DEFINE ds == Written
             files == SchemaFiles(Optimized(ds))
             s == Count(ds, "store")
  <2>1. ds \in Seq(Declarations) /\ ast = ds /\ migrations = Migrations(Optimized(ds))
    <3>1. main \in Seq(Declarations) /\ ast = Load(main) /\ ast \in Seq(Declarations)
          /\ ~ParseErrors /\ ~Thrown /\ migrations = Migrations(ir.mods)
      BY DEF CompileInv, Orderly
    <3>2. ast = ds
      BY <3>1, LoadsWhatIsWritten
    <3>3. ir = Optimize(Lower(ds))
      BY <3>1, <3>2 DEF CompileInv
    <3>4. ir.mods = Optimized(ds)
      BY <3>3, OptimizedFields DEF Optimized
    <3>5. QED
      BY <3>1, <3>2, <3>4
  <2>2. /\ \A i, j \in DOMAIN Tabled(ds) :
             /\ i < j => ~Within(Tabled(ds)[j].table, Tabled(ds)[i].table)
             /\ Tabled(ds)[j].table \in Tabled(ds)[i].rels => j <= i
        /\ \A t \in Range(Tabled(ds)) : t.rels \subseteq {e.table : e \in AllOf(ds, "entity")}
    BY DEF Orderly, TableDecls, Tabled
  <2> HIDE DEF ds, files, s
  <2>3. migrations = files
    BY <2>1, <2>2, OrderlyMigrations DEF files
  <2>4. /\ files \in Seq(Models)
        /\ \A q \in DOMAIN files :
             /\ Origin(ds, q) \in DOMAIN Tabled(ds) /\ Origin(ds, q) \in DOMAIN Modules(ds)
             /\ files[q] = Modules(ds)[Origin(ds, q)].model
        /\ \A q, r \in DOMAIN files : q < r => Origin(ds, q) < Origin(ds, r)
    BY <2>1, FilesFacts DEF files
  <2>5. ASSUME NEW e \in AllOf(ds, "entity")
        PROVE  \E q \in DOMAIN files :
                 /\ files[q] = [name |-> e.table, owner |-> e.name, fks |-> e.rels]
                 /\ Tabled(ds)[Origin(ds, q)].table = e.table
    <3>1. PICK l \in 1 .. Count(ds, "entity") : OfKind(ds, "entity")[l] = e
      BY <2>1, OfKindFacts DEF Range, Count
    <3> DEFINE i == s + l
    <3>2. /\ i \in DOMAIN Tabled(ds) /\ Tabled(ds)[i] = e /\ i > s /\ i \in DOMAIN Modules(ds)
          /\ \E q \in DOMAIN files : Origin(ds, q) = i /\ files[q] = Modules(ds)[i].model
      BY <2>1, <3>1, EntityHasFile DEF s, files
    <3> HIDE DEF i
    <3>3. /\ Modules(ds)[i].model \in Models /\ Modules(ds)[i].model.name = e.table
          /\ Modules(ds)[i].model.owner = e.name /\ Modules(ds)[i].model.fks = e.rels
      BY <2>1, <3>2, ModelFacts DEF s
    <3>4. Modules(ds)[i].model = [name |-> e.table, owner |-> e.name, fks |-> e.rels]
      BY <3>3 DEF Models
    <3>5. QED
      BY <3>2, <3>4
  <2>6. ASSUME NEW q \in DOMAIN files, NEW x \in files[q].fks
        PROVE  x \in {files[r].name : r \in 1 .. q}
    <3> DEFINE i == Origin(ds, q)
    <3>1. i \in DOMAIN Tabled(ds) /\ i \in DOMAIN Modules(ds) /\ x \in Modules(ds)[i].model.fks
      BY <2>4
    <3> HIDE DEF i
    <3>2. x \in Tabled(ds)[i].rels
      <4>1. s \in Nat /\ i \in Nat
        BY <2>1, <3>1, TablesFacts DEF s
      <4>2. i <= s \/ i > s
        BY <4>1
      <4>3. QED
        BY <2>1, <3>1, <4>2, ModelFacts DEF s
    <3>3. PICK e \in AllOf(ds, "entity") : x = e.table
      BY <2>2, <3>1, <3>2 DEF Range
    <3>4. PICK r \in DOMAIN files : files[r].name = x /\ Tabled(ds)[Origin(ds, r)].table = x
      BY <2>5, <3>3
    <3>5. Origin(ds, r) \in DOMAIN Tabled(ds)
      BY <2>4
    <3>6. Origin(ds, r) <= i
      BY <2>2, <3>1, <3>2, <3>4, <3>5
    <3>7. q \in Nat /\ r \in Nat /\ 1 <= r
      BY <2>4
    <3>8. i \in Nat /\ Origin(ds, r) \in Nat
      BY <2>1, <3>1, <3>5, TablesFacts
    <3>9. ~(q < r)
      BY <2>4, <3>6, <3>8 DEF i
    <3>10. r \in 1 .. q
      BY <3>7, <3>9
    <3>11. QED
      BY <3>4, <3>10
  <2>7. \A i \in DOMAIN migrations : migrations[i].fks \subseteq {migrations[j].name : j \in 1 .. i}
    BY <2>3, <2>6
  <2>8. \A e \in AllOf(ds, "entity") :
          [name |-> e.table, owner |-> e.name, fks |-> e.rels] \in Range(migrations)
    BY <2>3, <2>5 DEF Range
  <2>9. QED
    BY <2>7, <2>8 DEF ds
<1>2. QED
  BY <1>1, CompileInvAlways, PTL

-----------------------------------------------------------------------------
(* Types *)

LEMMA MigrationsType ==
  ASSUME NEW ds \in Seq(Declarations)
  PROVE  Migrations(Optimized(ds)) \in Seq(Models)
<1> DEFINE files == SchemaFiles(Optimized(ds))
           found == [i \in DOMAIN files |-> SchemaFileOf(files[i], files)]
           I == {i \in DOMAIN found : ~\E j \in 1 .. i - 1 : found[j].name = found[i].name}
<1>1. Migrations(Optimized(ds)) = Only(found, I) /\ I \in SUBSET DOMAIN found
  BY DEF Migrations
<1>2. files \in Seq(Models)
  BY FilesFacts
<1> HIDE DEF files, I
<1>3. Len(files) \in Nat /\ DOMAIN files = 1 .. Len(files)
  BY <1>2
<1>4. ASSUME NEW i \in 1 .. Len(files)
      PROVE  SchemaFileOf(files[i], files) \in Models
  <2> DEFINE S == {j \in DOMAIN files : Within(files[i].name, files[j].name)}
  <2>1. S \in SUBSET (1 .. Len(files)) /\ i \in S
    BY <1>3 DEF Within
  <2>2. SchemaFileOf(files[i], files) = files[Min(S)]
    BY DEF SchemaFileOf
  <2> HIDE DEF S
  <2>3. Min(S) \in 1 .. Len(files)
    BY <1>3, <2>1, MinFacts
  <2>4. QED
    BY <1>2, <2>2, <2>3
<1>5. found \in [1 .. Len(files) -> Models]
  BY <1>3, <1>4
<1> HIDE DEF found
<1>6. found \in Seq(Models)
  BY <1>3, <1>5
<1>7. QED
  BY <1>1, <1>6, OnlyFacts

\* Every variable of Compiler has its type.
THEOREM CompileTypesOK == CompileSpec => []CompileTypeOK
<1>1. CompileInit => migrations \in Seq(Models)
  BY DEF CompileInit
<1>2. CompileInv /\ migrations \in Seq(Models) /\ [CompileNext]_compileVars => migrations' \in Seq(Models)
  <2> SUFFICES ASSUME CompileInv, migrations \in Seq(Models), [CompileNext]_compileVars
               PROVE  migrations' \in Seq(Models)
    OBVIOUS
  <2>1. CASE Emit
    <3>1. ir = Optimize(Lower(ast)) /\ ast \in Seq(Declarations)
      BY <2>1 DEF CompileInv, Emit
    <3>2. ir.mods = Optimized(ast)
      BY <3>1, OptimizedFields DEF Optimized
    <3>3. QED
      BY <2>1, <3>1, <3>2, MigrationsType DEF Emit
  <2>2. CASE ~Emit
    <3>1. migrations' = migrations
      BY <2>2 DEF CompileNext, compileVars, Repair, Delete, Break, Implement, Edited, Parse, Check,
                  LowerProgram, LoweringThrows, OptimizeIR
    <3>2. QED
      BY <3>1
  <2>3. QED
    BY <2>1, <2>2
<1>3. CompileInv /\ migrations \in Seq(Models) => CompileTypeOK
  BY DEF CompileInv, CompileTypeOK, Sections, Models
<1>4. QED
  <2> DEFINE Typed == migrations \in Seq(Models)
  <2>1. CompileInit => Typed
    BY <1>1
  <2>2. CompileInv /\ Typed /\ [CompileNext]_compileVars => Typed'
    BY <1>2
  <2>3. CompileInv /\ Typed => CompileTypeOK
    BY <1>3
  <2> HIDE DEF Typed
  <2>4. QED
    BY <2>1, <2>2, <2>3, CompileInvAlways, PTL DEF CompileSpec

=============================================================================
