------------------------- MODULE EventOutboxProofs -------------------------
(***************************************************************************)
(* Proofs about EventOutbox for every set of events and workers, every     *)
(* assignment of delivery modes, any number of handlers, any attempt       *)
(* limits and any number of lost flush transactions.                       *)
(***************************************************************************)
EXTENDS EventOutbox, TLAPS

(* The inductive invariant: TypeOK, RowsExclusive, AttemptLimit, DedupAgrees *)
(* and, for what is in flight, the three predicates below.                   *)

\* What the row loop of flush() maintains: a row it has left carries the
\* statement that settles it, a row marked delivered had all its handlers run,
\* and the handlers before nextHandler have run for the current row.
LoopShape ==
  \A w \in Workers :
    /\ todo[w] \subseteq locked[w]
    /\ cur[w] # NoEvent => /\ cur[w] \in locked[w] \ todo[w]
                           /\ \A h \in Handlers : h < nextHandler[w] => runs[cur[w]][h] > 0
    /\ \A e \in Events :
         /\ wrote[w][e] \in {"deliver", "retry"} <=> e \in locked[w] \ todo[w] /\ e # cur[w]
         /\ wrote[w][e] # "skip"
         /\ wrote[w][e] = "deliver" => \A h \in Handlers : runs[e][h] > 0

\* Nothing has happened to an event that is not published yet.
UnpublishedFresh ==
  \A e \in Events : ~Committed(e) =>
    attempts[e] = 0 /\ \A h \in Handlers : runs[e][h] = 0

\* Handler h of event e has run in a flush transaction that is still open.
RunInFlight(e, h) ==
  \E w \in Workers : /\ e \in locked[w] \ todo[w]
                     /\ cur[w] = e => h < nextHandler[w]

\* DuplicatesAccounted, refined to the handlers of the current row that have
\* not run yet.
RunsAccounted ==
  \A e \in Events, h \in Handlers :
    runs[e][h] <= attempts[e] + lost[e] + (IF RunInFlight(e, h) THEN 1 ELSE 0)

IInv == /\ TypeOK
        /\ RowsExclusive
        /\ AttemptLimit
        /\ DedupAgrees
        /\ DeliveredWasHandled
        /\ LoopShape
        /\ UnpublishedFresh
        /\ RunsAccounted
-----------------------------------------------------------------------------

\* Every action keeps the tables, loop variables and counters in the domains
\* the code gives them.
LEMMA TypeStep == TypeOK /\ [Next]_vars => TypeOK'
<1> SUFFICES ASSUME TypeOK, [Next]_vars
             PROVE  TypeOK'
  OBVIOUS
<1> USE OutboxAssumption DEF TypeOK, tables, loop
<1>1. ASSUME NEW e \in Events, Publish(e) \/ PublishInTransaction(e)
      PROVE  TypeOK'
  BY <1>1 DEF Publish, PublishInTransaction, Insert
<1>2. ASSUME NEW e \in Events, NEW commits \in BOOLEAN, CallerEnds(e, commits)
      PROVE  TypeOK'
  BY <1>2 DEF CallerEnds
<1>3. ASSUME NEW e \in Events, BackoffElapses(e)
      PROVE  TypeOK'
  BY <1>3 DEF BackoffElapses
<1>4. ASSUME NEW w \in Workers, Select(w)
      PROVE  TypeOK'
  BY <1>4 DEF Select, Eligible
<1>5. ASSUME NEW w \in Workers, NEW e \in Events, TakeRow(w, e)
      PROVE  TypeOK'
  <2>1. todo' \in [Workers -> SUBSET Events]
    <3>1. todo[w] \ {e} \in SUBSET Events
      OBVIOUS
    <3>2. todo' = [todo EXCEPT ![w] = todo[w] \ {e}]
      BY <1>5 DEF TakeRow
    <3>3. QED
      BY <3>1, <3>2
  <2>2. \/ wrote' = [wrote EXCEPT ![w][e] = "skip"] /\ UNCHANGED <<cur, nextHandler>>
        \/ /\ cur' = [cur EXCEPT ![w] = e]
           /\ nextHandler' = [nextHandler EXCEPT ![w] = 1]
           /\ UNCHANGED wrote
    BY <1>5 DEF TakeRow
  <2>3. wrote' \in [Workers -> [Events -> {"none", "skip", "deliver", "retry"}]]
    <3> HIDE OutboxAssumption DEF TypeOK
    <3>1. wrote \in [Workers -> [Events -> {"none", "skip", "deliver", "retry"}]]
      BY DEF TypeOK
    <3>2. QED
      BY <2>2, <3>1
  <2>4. cur' \in [Workers -> Events \cup {NoEvent}]
    BY <2>2
  <2>5. nextHandler' \in [Workers -> 1 .. NumHandlers + 1]
    <3> HIDE OutboxAssumption DEF TypeOK
    <3>1. nextHandler \in [Workers -> 1 .. NumHandlers + 1]
      BY DEF TypeOK
    <3>2. 1 \in 1 .. NumHandlers + 1
      BY OutboxAssumption DEF OutboxAssumption
    <3>3. QED
      BY <2>2, <3>1, <3>2
  <2>6. QED
    BY <1>5, <2>1, <2>3, <2>4, <2>5 DEF TakeRow
<1>6. ASSUME NEW w \in Workers, RunHandler(w)
      PROVE  TypeOK'
  <2>1. nextHandler[w] + 1 \in 1 .. NumHandlers + 1
    BY <1>6 DEF RunHandler, Handlers
  <2>2. runs' \in [Events -> [Handlers -> Nat]]
    BY <1>6 DEF RunHandler
  <2>3. QED
    BY <1>6, <2>1, <2>2 DEF RunHandler
<1>7. ASSUME NEW w \in Workers, HandlerThrows(w) \/ MarkDelivered(w)
      PROVE  TypeOK'
  <2>1. PICK statement \in {"retry", "deliver"} : cur[w] # NoEvent /\ FinishRow(w, statement)
    BY <1>7 DEF HandlerThrows, MarkDelivered
  <2>2. cur[w] \in Events
    BY <2>1
  <2>3. wrote' \in [Workers -> [Events -> {"none", "skip", "deliver", "retry"}]]
    BY <2>1, <2>2 DEF FinishRow
  <2>4. QED
    BY <2>1, <2>3 DEF FinishRow
<1>8. ASSUME NEW w \in Workers, Commit(w)
      PROVE  TypeOK'
  BY <1>8 DEF Commit, StatusAfter, AttemptsAfter, ProcessedAfter, EndFlush,
              NothingWritten, Terminal
<1>9. ASSUME NEW w \in Workers, Abort(w)
      PROVE  TypeOK'
  BY <1>9 DEF Abort, EndFlush, NothingWritten
<1>10. CASE UNCHANGED vars
  BY <1>10 DEF vars
<1>11. QED
  BY <1>1, <1>2, <1>3, <1>4, <1>5, <1>6, <1>7, <1>8, <1>9, <1>10
     DEF Next, FlushStep

\* TypeOK is an invariant of the bus.
THEOREM TypeCorrect == Spec => []TypeOK
<1>1. Init => TypeOK
  BY OutboxAssumption DEF Init, TypeOK, Handlers, Terminal, NothingWritten
<1>2. QED
  BY <1>1, TypeStep, PTL DEF Spec

-----------------------------------------------------------------------------
(* One lemma per conjunct of IInv: no step disturbs it. *)

\* What Commit does to one row: only rows of its own transaction move, each
\* out of the pending state or into its next attempt.
LEMMA CommitRow ==
  ASSUME IInv, NEW w \in Workers, Commit(w), NEW e \in Events
  PROVE  /\ wrote[w][e] = "none" =>
              status'[e] = status[e] /\ attempts'[e] = attempts[e] /\ e \notin locked[w]
         /\ wrote[w][e] # "none" => e \in locked[w] /\ status[e] = "pending"
         /\ wrote[w][e] = "deliver" =>
              status'[e] = "delivered" /\ attempts'[e] = attempts[e] + 1
         /\ wrote[w][e] = "retry" =>
              /\ attempts'[e] = attempts[e] + 1
              /\ status'[e] = IF attempts[e] + 1 >= MaxAttempts(e)
                              THEN "dead_letter" ELSE "pending"
         /\ wrote[w][e] \in {"none", "deliver", "retry"}
<1>1. wrote[w][e] \in {"none", "deliver", "retry"}
  BY DEF IInv, TypeOK, LoopShape
<1>2. wrote[w][e] \in {"deliver", "retry"} <=> e \in locked[w]
  <2>1. todo[w] = {} /\ cur[w] = NoEvent /\ e # NoEvent
    BY OutboxAssumption DEF Commit
  <2>2. wrote[w][e] \in {"deliver", "retry"} <=> e \in locked[w] \ todo[w] /\ e # cur[w]
    BY DEF IInv, LoopShape
  <2>3. QED
    BY <2>1, <2>2
<1>3. e \in locked[w] => status[e] = "pending"
  BY DEF IInv, RowsExclusive
<1>4. /\ status'[e] = StatusAfter(e, wrote[w][e])
      /\ attempts'[e] = AttemptsAfter(e, wrote[w][e])
  BY DEF Commit
<1>5. QED
  BY <1>1, <1>2, <1>3, <1>4 DEF StatusAfter, AttemptsAfter

\* FOR UPDATE SKIP LOCKED takes only rows that nobody holds.
LEMMA RowsExclusiveStep == IInv /\ [Next]_vars => RowsExclusive'
<1> SUFFICES ASSUME IInv, [Next]_vars
             PROVE  RowsExclusive'
  OBVIOUS
<1>1. ASSUME NEW e \in Events, Publish(e) \/ PublishInTransaction(e)
      PROVE  RowsExclusive'
  BY <1>1 DEF Publish, PublishInTransaction, Insert, loop, IInv, TypeOK, RowsExclusive
<1>2. ASSUME NEW e \in Events, NEW commits \in BOOLEAN, CallerEnds(e, commits)
      PROVE  RowsExclusive'
  BY <1>2 DEF CallerEnds, loop, IInv, TypeOK, RowsExclusive
<1>3. ASSUME NEW w \in Workers, Select(w)
      PROVE  RowsExclusive'
  BY <1>3 DEF Select, Eligible, tables, IInv, TypeOK, RowsExclusive
<1>4. ASSUME NEW w \in Workers, Commit(w)
      PROVE  RowsExclusive'
  <2> SUFFICES ASSUME NEW v \in Workers, NEW e \in locked'[v]
               PROVE  /\ status'[e] = "pending"
                      /\ \A u \in Workers \ {v} : e \notin locked'[u]
    BY DEF RowsExclusive
  <2>1. locked' = [locked EXCEPT ![w] = {}]
    BY <1>4 DEF Commit, EndFlush
  <2>2. v # w /\ e \in locked[v] /\ e \in Events
    BY <2>1 DEF IInv, TypeOK
  <2>3. e \notin locked[w] /\ status[e] = "pending" /\ \A u \in Workers \ {v} : e \notin locked[u]
    BY <2>2 DEF IInv, RowsExclusive
  <2>4. status'[e] = status[e]
    BY <1>4, <2>2, <2>3, CommitRow
  <2>5. QED
    BY <2>1, <2>3, <2>4 DEF IInv, TypeOK
<1>5. ASSUME NEW w \in Workers, Abort(w)
      PROVE  RowsExclusive'
  BY <1>5 DEF Abort, EndFlush, tables, IInv, TypeOK, RowsExclusive
<1>6. CASE UNCHANGED <<status, locked>>
  BY <1>6 DEF IInv, RowsExclusive
<1>7. QED
  BY <1>1, <1>2, <1>3, <1>4, <1>5, <1>6
     DEF Next, FlushStep, BackoffElapses, TakeRow, RunHandler, HandlerThrows,
         MarkDelivered, FinishRow, loop, tables, vars

\* The attempt that reaches the limit is the one that settles the row.
LEMMA AttemptLimitStep == IInv /\ [Next]_vars => AttemptLimit'
<1> SUFFICES ASSUME IInv, [Next]_vars, NEW e \in Events
             PROVE  /\ status'[e] = "dead_letter" => attempts'[e] = MaxAttempts(e)
                    /\ status'[e] = "pending" => attempts'[e] < MaxAttempts(e)
  BY DEF AttemptLimit, MaxAttempts
<1>1. /\ status[e] = "dead_letter" => attempts[e] = MaxAttempts(e)
      /\ status[e] = "pending" => attempts[e] < MaxAttempts(e)
  BY DEF IInv, AttemptLimit
<1>2. MaxAttempts(e) \in Nat \ {0}
  BY OutboxAssumption DEF MaxAttempts
<1>3. ~Committed(e) => attempts[e] = 0
  BY DEF IInv, UnpublishedFresh
<1>4. attempts[e] \in Nat
  BY DEF IInv, TypeOK
<1>5. ASSUME NEW x \in Events, Publish(x) \/ PublishInTransaction(x)
      PROVE  /\ status'[e] = "dead_letter" => attempts'[e] = MaxAttempts(e)
             /\ status'[e] = "pending" => attempts'[e] < MaxAttempts(e)
  BY <1>1, <1>2, <1>3, <1>5
     DEF Publish, PublishInTransaction, Insert, Committed, Terminal, IInv, TypeOK
<1>6. ASSUME NEW x \in Events, NEW commits \in BOOLEAN, CallerEnds(x, commits)
      PROVE  /\ status'[e] = "dead_letter" => attempts'[e] = MaxAttempts(e)
             /\ status'[e] = "pending" => attempts'[e] < MaxAttempts(e)
  BY <1>1, <1>2, <1>3, <1>6 DEF CallerEnds, Committed, Terminal, IInv, TypeOK
<1>7. ASSUME NEW w \in Workers, Commit(w)
      PROVE  /\ status'[e] = "dead_letter" => attempts'[e] = MaxAttempts(e)
             /\ status'[e] = "pending" => attempts'[e] < MaxAttempts(e)
  BY <1>1, <1>2, <1>4, <1>7, CommitRow
<1>8. CASE UNCHANGED <<status, attempts>>
  BY <1>1, <1>8
<1>9. QED
  BY <1>5, <1>6, <1>7, <1>8
     DEF Next, FlushStep, BackoffElapses, Select, TakeRow, RunHandler, HandlerThrows,
         MarkDelivered, FinishRow, Abort, tables, vars

\* The deduplication row and the status are written by the same COMMIT.
LEMMA DedupAgreesStep == IInv /\ [Next]_vars => DedupAgrees'
<1> SUFFICES ASSUME IInv, [Next]_vars, NEW e \in Events
             PROVE  e \in processed' <=> /\ Delivery[e] = "exactly_once"
                                         /\ status'[e] = "delivered"
  BY DEF DedupAgrees
<1>1. e \in processed <=> Delivery[e] = "exactly_once" /\ status[e] = "delivered"
  BY DEF IInv, DedupAgrees
<1>2. ASSUME NEW x \in Events, Publish(x) \/ PublishInTransaction(x)
      PROVE  e \in processed' <=> Delivery[e] = "exactly_once" /\ status'[e] = "delivered"
  BY <1>1, <1>2 DEF Publish, PublishInTransaction, Insert, IInv, TypeOK
<1>3. ASSUME NEW x \in Events, NEW commits \in BOOLEAN, CallerEnds(x, commits)
      PROVE  e \in processed' <=> Delivery[e] = "exactly_once" /\ status'[e] = "delivered"
  BY <1>1, <1>3 DEF CallerEnds, IInv, TypeOK
<1>4. ASSUME NEW w \in Workers, Commit(w)
      PROVE  e \in processed' <=> Delivery[e] = "exactly_once" /\ status'[e] = "delivered"
  <2>1. e \in processed' <=>
          e \in processed \/ (wrote[w][e] = "deliver" /\ Delivery[e] = "exactly_once")
    BY <1>4 DEF Commit, ProcessedAfter
  <2>2. QED
    BY <1>1, <1>4, <2>1, CommitRow
<1>5. CASE UNCHANGED <<status, processed>>
  BY <1>1, <1>5
<1>6. QED
  BY <1>2, <1>3, <1>4, <1>5
     DEF Next, FlushStep, BackoffElapses, Select, TakeRow, RunHandler, HandlerThrows,
         MarkDelivered, FinishRow, Abort, tables, vars

\* Completed runs are never forgotten: only RunHandler changes them.
LEMMA RunsGrow ==
  ASSUME IInv, [Next]_vars, NEW e \in Events, NEW h \in Handlers
  PROVE  runs'[e][h] \in Nat /\ runs'[e][h] >= runs[e][h]
<1>1. runs[e][h] \in Nat
  BY DEF IInv, TypeOK
<1>2. ASSUME NEW w \in Workers, RunHandler(w)
      PROVE  runs'[e][h] \in Nat /\ runs'[e][h] >= runs[e][h]
  <2>1. runs' = [runs EXCEPT ![cur[w]][nextHandler[w]] = @ + 1]
    BY <1>2 DEF RunHandler
  <2>2. runs'[e][h] = IF e = cur[w] /\ h = nextHandler[w] THEN runs[e][h] + 1 ELSE runs[e][h]
    BY <2>1 DEF IInv, TypeOK
  <2>3. QED
    BY <1>1, <2>2
<1>3. CASE UNCHANGED runs
  BY <1>1, <1>3
<1>4. QED
  BY <1>2, <1>3
     DEF Next, FlushStep, Publish, PublishInTransaction, Insert, CallerEnds,
         BackoffElapses, Select, TakeRow, HandlerThrows, MarkDelivered, FinishRow,
         Commit, Abort, vars

\* Only a row whose handlers have all run is marked delivered.
LEMMA DeliveredWasHandledStep == IInv /\ [Next]_vars => DeliveredWasHandled'
<1> SUFFICES ASSUME IInv, [Next]_vars, NEW e \in Events, status'[e] = "delivered",
                    NEW h \in Handlers
             PROVE  runs'[e][h] > 0
  BY DEF DeliveredWasHandled, Handlers
<1>1. runs[e][h] \in Nat /\ runs'[e][h] \in Nat /\ runs'[e][h] >= runs[e][h]
  BY RunsGrow DEF IInv, TypeOK
<1>2. CASE status[e] = "delivered"
  BY <1>1, <1>2 DEF IInv, DeliveredWasHandled
<1>3. CASE status[e] # "delivered"
  <2>1. PICK w \in Workers : Commit(w)
    <3>1. ASSUME NEW x \in Events, \/ Publish(x) \/ PublishInTransaction(x)
                                   \/ \E commits \in BOOLEAN : CallerEnds(x, commits)
          PROVE  FALSE
      BY <1>3, <3>1 DEF Publish, PublishInTransaction, Insert, CallerEnds, IInv, TypeOK
    <3>2. QED
      BY <1>3, <3>1
         DEF Next, FlushStep, BackoffElapses, Select, TakeRow, RunHandler, HandlerThrows,
             MarkDelivered, FinishRow, Abort, tables, vars
  <2>2. wrote[w][e] = "deliver"
    BY <1>3, <2>1, CommitRow
  <2>3. runs[e][h] > 0
    BY <2>2 DEF IInv, LoopShape
  <2>4. QED
    BY <1>1, <2>3
<1>4. QED
  BY <1>2, <1>3

\* A flush never reads a row that is not committed.
LEMMA UnpublishedFreshStep == IInv /\ [Next]_vars => UnpublishedFresh'
<1> SUFFICES ASSUME IInv, [Next]_vars, NEW e \in Events, ~Committed(e)'
             PROVE  attempts'[e] = 0 /\ \A h \in Handlers : runs'[e][h] = 0
  BY DEF UnpublishedFresh, Handlers
<1>1. ~Committed(e) => attempts[e] = 0 /\ \A h \in Handlers : runs[e][h] = 0
  BY DEF IInv, UnpublishedFresh
<1>2. ASSUME NEW x \in Events, Publish(x) \/ PublishInTransaction(x)
      PROVE  attempts'[e] = 0 /\ \A h \in Handlers : runs'[e][h] = 0
  BY <1>1, <1>2 DEF Publish, PublishInTransaction, Insert, IInv, TypeOK, Committed, Terminal
<1>3. ASSUME NEW x \in Events, NEW commits \in BOOLEAN, CallerEnds(x, commits)
      PROVE  attempts'[e] = 0 /\ \A h \in Handlers : runs'[e][h] = 0
  BY <1>1, <1>3 DEF CallerEnds, IInv, TypeOK, Committed, Terminal
<1>4. ASSUME NEW w \in Workers, RunHandler(w)
      PROVE  attempts'[e] = 0 /\ \A h \in Handlers : runs'[e][h] = 0
  <2>1. status' = status /\ attempts' = attempts
    BY <1>4 DEF RunHandler, tables
  <2>2. cur[w] \in Events /\ Committed(cur[w])
    BY <1>4 DEF RunHandler, IInv, TypeOK, LoopShape, RowsExclusive, Committed
  <2>3. e # cur[w]
    BY <2>1, <2>2 DEF Committed
  <2>4. runs'[e] = runs[e]
    BY <1>4, <2>3 DEF RunHandler, IInv, TypeOK
  <2>5. QED
    BY <1>1, <2>1, <2>4 DEF Committed
<1>5. ASSUME NEW w \in Workers, Commit(w)
      PROVE  attempts'[e] = 0 /\ \A h \in Handlers : runs'[e][h] = 0
  <2>1. wrote[w][e] = "none"
    BY <1>5, CommitRow DEF Committed, Terminal
  <2>2. status'[e] = status[e] /\ attempts'[e] = attempts[e] /\ runs' = runs
    BY <1>5, <2>1, CommitRow DEF Commit
  <2>3. QED
    BY <1>1, <2>2 DEF Committed
<1>6. CASE UNCHANGED <<status, attempts, runs>>
  BY <1>1, <1>6 DEF Committed
<1>7. QED
  BY <1>2, <1>3, <1>4, <1>5, <1>6
     DEF Next, FlushStep, BackoffElapses, Select, TakeRow, HandlerThrows,
         MarkDelivered, FinishRow, Abort, tables, vars

\* A row that a flush has taken up again was pending, so the deduplication
\* table cannot know it: the lookup in the loop never finds anything.
LEMMA LookupNeverHits ==
  ASSUME IInv, NEW w \in Workers, NEW e \in todo[w]
  PROVE  ~AlreadyProcessed(e)
<1>1. e \in Events /\ status[e] = "pending"
  BY DEF IInv, TypeOK, LoopShape, RowsExclusive
<1>2. QED
  BY <1>1 DEF IInv, DedupAgrees, AlreadyProcessed

\* The row loop: what is locked, taken and written belongs together.
LEMMA LoopShapeStep == IInv /\ [Next]_vars => LoopShape'
<1> SUFFICES ASSUME IInv, [Next]_vars, NEW v \in Workers
             PROVE  /\ todo'[v] \subseteq locked'[v]
                    /\ cur'[v] # NoEvent =>
                         /\ cur'[v] \in locked'[v] \ todo'[v]
                         /\ \A h \in Handlers : h < nextHandler'[v] => runs'[cur'[v]][h] > 0
                    /\ \A e \in Events :
                         /\ wrote'[v][e] \in {"deliver", "retry"}
                              <=> e \in locked'[v] \ todo'[v] /\ e # cur'[v]
                         /\ wrote'[v][e] # "skip"
                         /\ wrote'[v][e] = "deliver" => \A h \in Handlers : runs'[e][h] > 0
  BY DEF LoopShape, Handlers
<1> DEFINE Shape == /\ todo[v] \subseteq locked[v]
                    /\ cur[v] # NoEvent =>
                         /\ cur[v] \in locked[v] \ todo[v]
                         /\ \A h \in Handlers : h < nextHandler[v] => runs[cur[v]][h] > 0
                    /\ \A e \in Events :
                         /\ wrote[v][e] \in {"deliver", "retry"}
                              <=> e \in locked[v] \ todo[v] /\ e # cur[v]
                         /\ wrote[v][e] # "skip"
                         /\ wrote[v][e] = "deliver" => \A h \in Handlers : runs[e][h] > 0
<1>1. Shape
  BY DEF IInv, LoopShape
<1>2. \A e \in Events, h \in Handlers : runs[e][h] > 0 => runs'[e][h] > 0
  <2>1. ASSUME NEW e \in Events, NEW h \in Handlers, runs[e][h] > 0
        PROVE  runs'[e][h] > 0
    BY <2>1, RunsGrow DEF IInv, TypeOK
  <2>2. QED
    BY <2>1
<1>3. locked[v] \subseteq Events /\ NoEvent \notin Events
  BY OutboxAssumption DEF IInv, TypeOK
<1>4. CASE UNCHANGED <<locked[v], todo[v], cur[v], nextHandler[v], wrote[v]>>
  BY <1>1, <1>2, <1>3, <1>4
<1>5. CASE Select(v)
  BY <1>1, <1>3, <1>5 DEF Select, IInv, TypeOK
<1>6. ASSUME NEW e \in Events, TakeRow(v, e)
      PROVE  Shape'
  <2>1. e \in todo[v] /\ cur[v] = NoEvent
    BY <1>6 DEF TakeRow
  <2>2. /\ cur' = [cur EXCEPT ![v] = e]
        /\ nextHandler' = [nextHandler EXCEPT ![v] = 1]
        /\ UNCHANGED <<locked, wrote, runs>>
    BY <1>6, <2>1, LookupNeverHits DEF TakeRow
  <2>3. /\ todo'[v] = todo[v] \ {e}
        /\ cur'[v] = e
        /\ nextHandler'[v] = 1
    BY <1>6, <2>2 DEF TakeRow, IInv, TypeOK
  <2>4. \A h \in Handlers : ~(h < 1)
    BY OutboxAssumption DEF OutboxAssumption, Handlers
  <2>5. QED
    BY <1>1, <1>3, <2>1, <2>2, <2>3, <2>4 DEF Handlers
<1>7. CASE RunHandler(v)
  <2>1. cur[v] # NoEvent /\ cur[v] \in Events /\ nextHandler[v] \in Handlers
    BY <1>7 DEF RunHandler, IInv, TypeOK
  <2>2. UNCHANGED <<locked, todo, cur, wrote>>
    BY <1>7 DEF RunHandler
  <2>3. nextHandler'[v] = nextHandler[v] + 1
    BY <1>7 DEF RunHandler, IInv, TypeOK
  <2>4. runs'[cur[v]][nextHandler[v]] > 0
    <3>1. runs' = [runs EXCEPT ![cur[v]][nextHandler[v]] = @ + 1]
      BY <1>7 DEF RunHandler
    <3>2. runs \in [Events -> [Handlers -> Nat]]
      BY DEF IInv, TypeOK
    <3>3. runs'[cur[v]][nextHandler[v]] = runs[cur[v]][nextHandler[v]] + 1
      BY <2>1, <3>1, <3>2
    <3>4. QED
      BY <2>1, <3>2, <3>3
  <2>5. \A h \in Handlers : h < nextHandler[v] + 1 => h < nextHandler[v] \/ h = nextHandler[v]
    BY <2>1, OutboxAssumption DEF OutboxAssumption, Handlers
  <2>6. \A h \in Handlers : h < nextHandler'[v] => runs'[cur'[v]][h] > 0
    BY <1>1, <1>2, <2>1, <2>2, <2>3, <2>4, <2>5
  <2>7. QED
    BY <1>1, <1>2, <2>1, <2>2, <2>6 DEF Handlers
<1>8. CASE HandlerThrows(v)
  BY <1>1, <1>3, <1>8 DEF HandlerThrows, FinishRow, IInv, TypeOK
<1>9. CASE MarkDelivered(v)
  <2>1. cur[v] # NoEvent /\ cur[v] \in Events /\ nextHandler[v] \notin Handlers
    BY <1>9 DEF MarkDelivered, IInv, TypeOK
  <2>2. UNCHANGED <<locked, todo, runs>>
    BY <1>9 DEF MarkDelivered, FinishRow
  <2>3. cur'[v] = NoEvent
    BY <1>9 DEF MarkDelivered, FinishRow, IInv, TypeOK
  <2>4. \A e \in Events : wrote'[v][e] = IF e = cur[v] THEN "deliver" ELSE wrote[v][e]
    <3>1. wrote' = [wrote EXCEPT ![v][cur[v]] = "deliver"]
      BY <1>9 DEF MarkDelivered, FinishRow
    <3>2. wrote \in [Workers -> [Events -> {"none", "skip", "deliver", "retry"}]]
      BY DEF IInv, TypeOK
    <3>3. QED
      BY <3>1, <3>2
  <2>5. \A h \in Handlers : h < nextHandler[v]
    <3>1. nextHandler[v] \in 1 .. NumHandlers + 1
      BY DEF IInv, TypeOK
    <3>2. QED
      BY <2>1, <3>1, OutboxAssumption DEF OutboxAssumption, Handlers
  <2>6. \A h \in Handlers : runs[cur[v]][h] > 0
    BY <1>1, <2>1, <2>5
  <2>7. QED
    BY <1>1, <1>3, <2>1, <2>2, <2>3, <2>4, <2>6 DEF Handlers
<1>10. CASE Commit(v) \/ Abort(v)
  BY <1>1, <1>3, <1>10 DEF Commit, Abort, EndFlush, NothingWritten, IInv, TypeOK
<1>11. ASSUME NEW w \in Workers \ {v}, FlushStep(w) \/ Abort(w)
       PROVE  UNCHANGED <<locked[v], todo[v], cur[v], nextHandler[v], wrote[v]>>
  BY <1>11 DEF FlushStep, Select, TakeRow, RunHandler, HandlerThrows, MarkDelivered,
               FinishRow, Commit, Abort, EndFlush, IInv, TypeOK
<1>12. QED
  BY <1>4, <1>5, <1>6, <1>7, <1>8, <1>9, <1>10, <1>11
     DEF Next, FlushStep, Publish, PublishInTransaction, Insert, CallerEnds,
         BackoffElapses, loop, vars

\* The accounting of duplicate runs survives every step: a run that leaves the
\* open transaction is either counted as an attempt or as a lost transaction.
LEMMA RunsAccountedStep == IInv /\ [Next]_vars => RunsAccounted'
<1> SUFFICES ASSUME IInv, [Next]_vars, NEW e \in Events, NEW h \in Handlers
             PROVE  runs'[e][h] <= attempts'[e] + lost'[e]
                                   + (IF RunInFlight(e, h)' THEN 1 ELSE 0)
  BY DEF RunsAccounted, Handlers
<1> DEFINE Accounted == runs[e][h] <= attempts[e] + lost[e]
                                      + (IF RunInFlight(e, h) THEN 1 ELSE 0)
<1>1. Accounted
  BY DEF IInv, RunsAccounted
<1>2. runs[e][h] \in Nat /\ attempts[e] \in Nat /\ lost[e] \in Nat
  BY DEF IInv, TypeOK
<1>3. ASSUME runs'[e][h] = runs[e][h], attempts'[e] = attempts[e], lost'[e] = lost[e],
             RunInFlight(e, h) => RunInFlight(e, h)'
      PROVE  Accounted'
  BY <1>1, <1>2, <1>3
<1>4. CASE UNCHANGED <<attempts, loop, runs, lost>>
  BY <1>3, <1>4 DEF loop, RunInFlight
<1>5. ASSUME NEW w \in Workers, Select(w)
      PROVE  Accounted'
  <2>1. \A u \in Workers : u # w => UNCHANGED <<locked[u], todo[u]>>
    BY <1>5 DEF Select, IInv, TypeOK
  <2>2. RunInFlight(e, h) => RunInFlight(e, h)'
    BY <1>5, <2>1 DEF Select, RunInFlight
  <2>3. QED
    BY <1>3, <1>5, <2>2 DEF Select, tables
<1>6. ASSUME NEW w \in Workers, NEW x \in Events, TakeRow(w, x)
      PROVE  Accounted'
  <2>1. /\ UNCHANGED <<tables, locked, runs, lost>>
        /\ todo' = [todo EXCEPT ![w] = todo[w] \ {x}]
        /\ cur' = [cur EXCEPT ![w] = x]
        /\ nextHandler' = [nextHandler EXCEPT ![w] = 1]
    BY <1>6, LookupNeverHits DEF TakeRow
  <2>2. \A u \in Workers : u # w => UNCHANGED <<todo[u], cur[u], nextHandler[u]>>
    BY <2>1 DEF IInv, TypeOK
  <2>3. todo'[w] = todo[w] \ {x} /\ cur'[w] = x /\ x \in todo[w]
    BY <1>6, <2>1 DEF TakeRow, IInv, TypeOK
  <2>4. RunInFlight(e, h) => RunInFlight(e, h)'
    BY <2>1, <2>2, <2>3 DEF RunInFlight
  <2>5. QED
    BY <1>3, <2>1, <2>4 DEF tables
<1>7. ASSUME NEW w \in Workers, RunHandler(w)
      PROVE  Accounted'
  <2>1. /\ UNCHANGED <<tables, locked, todo, cur, lost>>
        /\ cur[w] \in Events /\ cur[w] \in locked[w] \ todo[w]
    BY <1>7 DEF RunHandler, IInv, TypeOK, LoopShape
  <2>2. \A u \in Workers :
          nextHandler'[u] = IF u = w THEN nextHandler[w] + 1 ELSE nextHandler[u]
    BY <1>7 DEF RunHandler, IInv, TypeOK
  <2>3. nextHandler[w] \in Int /\ h \in Int
    BY OutboxAssumption DEF OutboxAssumption, IInv, TypeOK, Handlers
  <2>4. CASE e = cur[w] /\ h = nextHandler[w]
    <3>1. \A u \in Workers : e \in locked[u] => u = w
      BY <2>1, <2>4 DEF IInv, RowsExclusive
    <3>2. ~RunInFlight(e, h)
      BY <2>3, <2>4, <3>1 DEF RunInFlight
    <3>3. RunInFlight(e, h)'
      BY <2>1, <2>2, <2>3, <2>4 DEF RunInFlight
    <3>4. runs' = [runs EXCEPT ![cur[w]][nextHandler[w]] = @ + 1]
      BY <1>7 DEF RunHandler
    <3>5. runs'[e][h] = runs[e][h] + 1
      BY <2>4, <3>4 DEF IInv, TypeOK
    <3>6. QED
      BY <1>1, <1>2, <2>1, <3>2, <3>3, <3>5 DEF tables
  <2>5. CASE ~(e = cur[w] /\ h = nextHandler[w])
    <3>1. runs' = [runs EXCEPT ![cur[w]][nextHandler[w]] = @ + 1]
      BY <1>7 DEF RunHandler
    <3>2. runs'[e][h] = runs[e][h]
      BY <2>5, <3>1 DEF IInv, TypeOK
    <3>3. RunInFlight(e, h) => RunInFlight(e, h)'
      BY <2>1, <2>2, <2>3 DEF RunInFlight
    <3>4. QED
      BY <1>3, <2>1, <3>2, <3>3 DEF tables
  <2>6. QED
    BY <2>4, <2>5
<1>8. ASSUME NEW w \in Workers, HandlerThrows(w) \/ MarkDelivered(w)
      PROVE  Accounted'
  <2>1. /\ UNCHANGED <<tables, locked, todo, nextHandler, runs, lost>>
        /\ cur' = [cur EXCEPT ![w] = NoEvent]
    BY <1>8 DEF HandlerThrows, MarkDelivered, FinishRow
  <2>2. \A u \in Workers : cur'[u] = IF u = w THEN NoEvent ELSE cur[u]
    BY <2>1 DEF IInv, TypeOK
  <2>3. RunInFlight(e, h) => RunInFlight(e, h)'
    BY <2>1, <2>2, OutboxAssumption DEF OutboxAssumption, RunInFlight
  <2>4. QED
    BY <1>3, <2>1, <2>3 DEF tables
<1>9. ASSUME NEW w \in Workers, EndFlush(w), e \notin locked[w] \ todo[w]
      PROVE  RunInFlight(e, h) => RunInFlight(e, h)'
  <2>1. \A u \in Workers : u # w => UNCHANGED <<locked[u], todo[u], cur[u], nextHandler[u]>>
    BY <1>9 DEF EndFlush, IInv, TypeOK
  <2>2. QED
    BY <1>9, <2>1 DEF RunInFlight
<1>10. ASSUME NEW w \in Workers, Commit(w)
       PROVE  Accounted'
  <2>1. UNCHANGED <<runs, lost>> /\ EndFlush(w)
    BY <1>10 DEF Commit
  <2>2. CASE wrote[w][e] = "none"
    BY <1>3, <1>9, <1>10, <2>1, <2>2, CommitRow
  <2>3. CASE wrote[w][e] # "none"
    <3>1. attempts'[e] = attempts[e] + 1
      BY <1>10, <2>3, CommitRow
    <3>2. QED
      BY <1>1, <1>2, <2>1, <3>1
  <2>4. QED
    BY <2>2, <2>3
<1>11. ASSUME NEW w \in Workers, Abort(w)
       PROVE  Accounted'
  <2>1. /\ UNCHANGED <<runs, tables>> /\ EndFlush(w)
        /\ lost'[e] = IF e \in locked[w] \ todo[w] THEN lost[e] + 1 ELSE lost[e]
    BY <1>11 DEF Abort
  <2>2. CASE e \in locked[w] \ todo[w]
    BY <1>1, <1>2, <2>1, <2>2 DEF tables
  <2>3. CASE e \notin locked[w] \ todo[w]
    BY <1>3, <1>9, <2>1, <2>3 DEF tables
  <2>4. QED
    BY <2>2, <2>3
<1>12. QED
  BY <1>4, <1>5, <1>6, <1>7, <1>8, <1>10, <1>11
     DEF Next, FlushStep, Publish, PublishInTransaction, Insert, CallerEnds,
         BackoffElapses, tables, vars

-----------------------------------------------------------------------------
(* The invariants of the bus. *)

\* IInv is inductive: it holds initially and every step keeps it.
THEOREM Inductive == Spec => []IInv
<1>1. Init => IInv
  <2> SUFFICES ASSUME Init
               PROVE  IInv
    OBVIOUS
  <2>1. TypeOK
    BY OutboxAssumption DEF Init, TypeOK, Handlers, Terminal, NothingWritten
  <2>2. RowsExclusive /\ AttemptLimit /\ DedupAgrees /\ DeliveredWasHandled
    BY DEF Init, RowsExclusive, AttemptLimit, DedupAgrees, DeliveredWasHandled
  <2>3. LoopShape
    BY DEF Init, LoopShape, NothingWritten
  <2>4. UnpublishedFresh
    BY DEF Init, UnpublishedFresh
  <2>5. RunsAccounted
    <3>1. \A e \in Events, h \in Handlers : runs[e][h] = 0 /\ attempts[e] = 0 /\ lost[e] = 0
      BY DEF Init
    <3>2. QED
      BY <3>1 DEF RunsAccounted
  <2>6. QED
    BY <2>1, <2>2, <2>3, <2>4, <2>5 DEF IInv
<1>2. IInv /\ [Next]_vars => IInv'
  <2>1. IInv /\ [Next]_vars => TypeOK'
    BY TypeStep DEF IInv
  <2>2. QED
    BY <2>1, RowsExclusiveStep, AttemptLimitStep, DedupAgreesStep, DeliveredWasHandledStep,
       LoopShapeStep, UnpublishedFreshStep, RunsAccountedStep DEF IInv
<1>3. QED
  BY <1>1, <1>2, PTL DEF Spec

\* FOR UPDATE SKIP LOCKED in flush(): no two flushes ever hold the same row.
THEOREM RowsAlwaysExclusive == Spec => []RowsExclusive
<1>1. IInv => RowsExclusive
  BY DEF IInv
<1>2. QED
  BY <1>1, Inductive, PTL

\* The retry arithmetic of the catch in flush(): an event is dead-lettered at
\* its attempt limit and at no other count.
THEOREM AttemptsWithinLimit == Spec => []AttemptLimit
<1>1. IInv => AttemptLimit
  BY DEF IInv
<1>2. QED
  BY <1>1, Inductive, PTL

\* flush() reports an event delivered only when all its handlers completed,
\* and its deduplication row says the same.
THEOREM DeliveredIsTrue == Spec => [](DeliveredWasHandled /\ DedupAgrees)
<1>1. IInv => DeliveredWasHandled /\ DedupAgrees
  BY DEF IInv
<1>2. QED
  BY <1>1, Inductive, PTL

\* publish() inside a caller's transaction: no handler ever runs for an event
\* whose publication did not commit.
THEOREM NothingPhantom == Spec => []NoPhantomDelivery
<1>1. IInv => NoPhantomDelivery
  BY DEF IInv, UnpublishedFresh, NoPhantomDelivery
<1>2. QED
  BY <1>1, Inductive, PTL

\* Every completed run of a handler is a counted attempt, part of a lost flush
\* transaction, or in a flush that is still open.
THEOREM DuplicatesAreAccounted == Spec => []DuplicatesAccounted
<1>1. IInv => DuplicatesAccounted
  <2> SUFFICES ASSUME IInv, NEW e \in Events, NEW h \in Handlers
               PROVE  runs[e][h] <= attempts[e] + lost[e] + (IF TakenUp(e) THEN 1 ELSE 0)
    BY DEF DuplicatesAccounted, Handlers
  <2>1. RunInFlight(e, h) => TakenUp(e)
    BY DEF RunInFlight, TakenUp
  <2>2. runs[e][h] \in Nat /\ attempts[e] \in Nat /\ lost[e] \in Nat
    BY DEF IInv, TypeOK
  <2>3. runs[e][h] <= attempts[e] + lost[e] + (IF RunInFlight(e, h) THEN 1 ELSE 0)
    BY DEF IInv, RunsAccounted
  <2>4. QED
    BY <2>1, <2>2, <2>3
<1>2. QED
  BY <1>1, Inductive, PTL

-----------------------------------------------------------------------------
(* The bus implements OutboxContract. *)

\* A completed run adds exactly its handler to what the contract calls done.
LEMMA HandlerCompletes ==
  ASSUME IInv, NEW w \in Workers, RunHandler(w)
  PROVE  Contract!Handle(cur[w], nextHandler[w])
<1>1. cur[w] \in Events /\ nextHandler[w] \in Handlers /\ status[cur[w]] = "pending"
  BY DEF RunHandler, IInv, TypeOK, LoopShape, RowsExclusive
<1>2. runs' = [runs EXCEPT ![cur[w]][nextHandler[w]] = @ + 1] /\ status' = status
  BY DEF RunHandler, tables
<1>3. runs \in [Events -> [Handlers -> Nat]]
  BY DEF IInv, TypeOK
<1>4. \A e \in Events, h \in Handlers :
        runs'[e][h] = IF e = cur[w] /\ h = nextHandler[w] THEN runs[e][h] + 1 ELSE runs[e][h]
  BY <1>1, <1>2, <1>3
<1>5. \A e \in Events, h \in Handlers :
        runs'[e][h] > 0 <=> runs[e][h] > 0 \/ (e = cur[w] /\ h = nextHandler[w])
  BY <1>3, <1>4
<1>6. \A e \in Events : {h \in Handlers : runs'[e][h] > 0}
         = {h \in Handlers : runs[e][h] > 0} \cup (IF e = cur[w] THEN {nextHandler[w]} ELSE {})
  BY <1>1, <1>5
<1>7. HandlersDone' = [HandlersDone EXCEPT ![cur[w]] = @ \cup {nextHandler[w]}]
  BY <1>1, <1>6 DEF HandlersDone, Handlers
<1>8. VisibleState[cur[w]] = "pending" /\ VisibleState' = VisibleState
  BY <1>1, <1>2 DEF VisibleState, Committed
<1>9. QED
  BY <1>7, <1>8 DEF Contract!Handle

\* The COMMIT of a flush is one Settle of the contract: the rows it delivers
\* and the rows it gives up; rows put back to pending do not show.
LEMMA CommitSettles ==
  ASSUME IInv, NEW w \in Workers, Commit(w)
  PROVE  \E D, G \in SUBSET Events : Contract!Settle(D, G)
<1> DEFINE D == {e \in Events : wrote[w][e] = "deliver"}
           G == {e \in Events : wrote[w][e] = "retry" /\ status'[e] = "dead_letter"}
<1>1. D \cap G = {}
  OBVIOUS
<1>2. \A e \in D \cup G : VisibleState[e] = "pending"
  BY CommitRow DEF VisibleState, Committed
<1>3. \A e \in D : HandlersDone[e] = Handlers
  <2>1. \A e \in D, h \in Handlers : runs[e][h] > 0
    BY DEF IInv, LoopShape
  <2>2. QED
    BY <2>1 DEF HandlersDone
<1>4. HandlersDone' = HandlersDone
  BY DEF Commit, HandlersDone, Handlers
<1>5. ASSUME NEW e \in Events
      PROVE  VisibleState'[e] = IF e \in D THEN "delivered"
                                ELSE IF e \in G THEN "dead_letter" ELSE VisibleState[e]
  <2>1. VisibleState'[e] = IF status'[e] \in {"pending"} \cup Terminal
                           THEN status'[e] ELSE "unpublished"
    BY DEF VisibleState, Committed, Terminal
  <2>2. VisibleState[e] = IF status[e] \in {"pending"} \cup Terminal
                          THEN status[e] ELSE "unpublished"
    BY DEF VisibleState, Committed
  <2>3. QED
    BY <2>1, <2>2, CommitRow DEF Terminal
<1>6. VisibleState' = [e \in Events |-> IF e \in D THEN "delivered"
                                         ELSE IF e \in G THEN "dead_letter" ELSE VisibleState[e]]
  BY <1>5 DEF VisibleState
<1>7. Contract!Settle(D, G)
  BY <1>1, <1>2, <1>3, <1>4, <1>6 DEF Contract!Settle
<1>8. QED
  BY <1>7

\* Every step of the bus is a step of the contract or changes nothing that a
\* publisher or a subscriber can see.
LEMMA StepRefines == IInv /\ [Next]_vars => [Contract!Next]_(Contract!vars)
<1> SUFFICES ASSUME IInv, [Next]_vars
             PROVE  Contract!Next \/ UNCHANGED <<VisibleState, HandlersDone>>
  BY DEF Contract!vars
<1>1. ASSUME UNCHANGED <<status, runs>>
      PROVE  UNCHANGED <<VisibleState, HandlersDone>>
  BY <1>1 DEF VisibleState, HandlersDone, Committed, Handlers, Terminal
<1>2. ASSUME UNCHANGED runs
      PROVE  UNCHANGED HandlersDone
  BY <1>2 DEF HandlersDone, Handlers
<1>3. ASSUME NEW e \in Events, status[e] \in {"absent", "uncommitted"},
             status' = [status EXCEPT ![e] = "pending"], UNCHANGED runs
      PROVE  Contract!Publish(e)
  <2>1. VisibleState[e] = "unpublished"
    BY <1>3 DEF VisibleState, Committed, Terminal
  <2>2. VisibleState' = [VisibleState EXCEPT ![e] = "pending"]
    BY <1>3 DEF VisibleState, Committed, Terminal, IInv, TypeOK
  <2>3. QED
    BY <1>2, <1>3, <2>1, <2>2 DEF Contract!Publish
<1>4. ASSUME NEW e \in Events, NEW st \in {"absent", "uncommitted"},
             status[e] \in {"absent", "uncommitted"},
             status' = [status EXCEPT ![e] = st], UNCHANGED runs
      PROVE  UNCHANGED <<VisibleState, HandlersDone>>
  <2>1. VisibleState' = VisibleState
    BY <1>4 DEF VisibleState, Committed, Terminal, IInv, TypeOK
  <2>2. QED
    BY <1>2, <1>4, <2>1
<1>5. ASSUME NEW e \in Events, Publish(e)
      PROVE  Contract!Next
  BY <1>3, <1>5 DEF Publish, Insert, Contract!Next
<1>6. ASSUME NEW e \in Events, PublishInTransaction(e)
      PROVE  UNCHANGED <<VisibleState, HandlersDone>>
  BY <1>4, <1>6 DEF PublishInTransaction, Insert
<1>7. ASSUME NEW e \in Events, NEW commits \in BOOLEAN, CallerEnds(e, commits)
      PROVE  Contract!Next \/ UNCHANGED <<VisibleState, HandlersDone>>
  <2>1. CASE commits
    BY <1>3, <1>7, <2>1 DEF CallerEnds, Contract!Next
  <2>2. CASE ~commits
    BY <1>4, <1>7, <2>2 DEF CallerEnds
  <2>3. QED
    BY <2>1, <2>2
<1>8. ASSUME NEW w \in Workers, RunHandler(w)
      PROVE  Contract!Next
  <2>1. cur[w] \in Events /\ nextHandler[w] \in Handlers
    BY <1>8 DEF RunHandler, IInv, TypeOK
  <2>2. QED
    BY <1>8, <2>1, HandlerCompletes DEF Contract!Next
<1>9. ASSUME NEW w \in Workers, Commit(w)
      PROVE  Contract!Next
  BY <1>9, CommitSettles DEF Contract!Next
<1>10. QED
  BY <1>1, <1>5, <1>6, <1>7, <1>8, <1>9
     DEF Next, FlushStep, BackoffElapses, Select, TakeRow, HandlerThrows,
         MarkDelivered, FinishRow, Abort, tables, vars

\* EventOutbox implements OutboxContract under the mapping VisibleState,
\* HandlersDone: whatever the flush transactions do, an observer sees events
\* published, handled while pending, and settled once.
THEOREM ImplementsContract == Spec => ContractSpec
<1>1. Init => Contract!Init
  <2> SUFFICES ASSUME Init
               PROVE  Contract!Init
    OBVIOUS
  <2>1. VisibleState = [e \in Events |-> "unpublished"]
    BY DEF Init, VisibleState, Committed, Terminal
  <2>2. HandlersDone = [e \in Events |-> {}]
    <3>1. \A e \in Events : {h \in Handlers : runs[e][h] > 0} = {}
      BY DEF Init
    <3>2. QED
      BY <3>1 DEF HandlersDone
  <2>3. QED
    BY <2>1, <2>2 DEF Contract!Init
<1>2. QED
  BY <1>1, StepRefines, Inductive, PTL DEF Spec, ContractSpec, Contract!Spec

\* A settled row is invisible to the WHERE clause of flush() and locked by
\* nobody: it never changes and its handlers never run again.
THEOREM SettledStaysFinal == Spec => SettledIsFinal
<1>1. IInv /\ [Next]_vars => [\A e \in Events : status[e] \in Terminal =>
                               /\ runs'[e] = runs[e]
                               /\ status'[e] = status[e]
                               /\ attempts'[e] = attempts[e]]_vars
  <2> SUFFICES ASSUME IInv, [Next]_vars, NEW e \in Events, status[e] \in Terminal
               PROVE  runs'[e] = runs[e] /\ status'[e] = status[e] /\ attempts'[e] = attempts[e]
    OBVIOUS
  <2>1. ASSUME NEW x \in Events, \/ Publish(x) \/ PublishInTransaction(x)
                                 \/ \E commits \in BOOLEAN : CallerEnds(x, commits)
        PROVE  runs' = runs /\ status'[e] = status[e] /\ attempts' = attempts
    BY <2>1 DEF Publish, PublishInTransaction, Insert, CallerEnds, Terminal, IInv, TypeOK
  <2>2. ASSUME NEW w \in Workers, RunHandler(w)
        PROVE  runs'[e] = runs[e] /\ status' = status /\ attempts' = attempts
    <3>1. status[cur[w]] = "pending" /\ cur[w] \in Events
      BY <2>2 DEF RunHandler, IInv, TypeOK, LoopShape, RowsExclusive
    <3>2. e # cur[w]
      BY <3>1 DEF Terminal
    <3>3. QED
      BY <2>2, <3>2 DEF RunHandler, tables, IInv, TypeOK
  <2>3. ASSUME NEW w \in Workers, Commit(w)
        PROVE  runs' = runs /\ status'[e] = status[e] /\ attempts'[e] = attempts[e]
    <3>1. wrote[w][e] = "none"
      BY <2>3, CommitRow DEF Terminal
    <3>2. QED
      BY <2>3, <3>1, CommitRow DEF Commit
  <2>4. QED
    BY <2>1, <2>2, <2>3
       DEF Next, FlushStep, BackoffElapses, Select, TakeRow, HandlerThrows,
           MarkDelivered, FinishRow, Abort, tables, vars
<1>2. QED
  BY <1>1, Inductive, PTL DEF Spec, SettledIsFinal
=============================================================================
