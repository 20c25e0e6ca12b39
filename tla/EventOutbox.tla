---------------------------- MODULE EventOutbox ----------------------------
(***************************************************************************)
(* The durable event bus of a generated service: the event_outbox and      *)
(* event_processed tables, publish() with and without the caller's         *)
(* transaction, and the flush() transactions that background workers run.  *)
(* A worker stands for one flush() in flight: overlapping setInterval      *)
(* ticks of one process and other replicas of the service are alike, since *)
(* they meet only through the row locks of FOR UPDATE SKIP LOCKED.         *)
(*                                                                         *)
(* A flush transaction's writes become visible at COMMIT; until then they  *)
(* are kept in wrote[w].  Handlers act outside the database, so their      *)
(* completed runs (runs) survive a rollback.                               *)
(***************************************************************************)
EXTENDS Integers, FiniteSets

CONSTANTS Events,             \* outbox rows (row id = payload._event_id)
          Workers,            \* flush() calls in flight
          Delivery,           \* the declared delivery mode of each event
          NumHandlers,        \* subscribers of an event
          BatchLimit,         \* LIMIT 50 in flush()
          AtLeastOnceMax,     \* attempts before dead_letter, at_least_once: 10
          OtherMax,           \* attempts before dead_letter, other modes: 3
          MaxAborts,          \* bound: flush transactions that do not commit
          NoEvent             \* a worker between two rows

ASSUME OutboxAssumption ==
  /\ Delivery \in [Events -> {"at_least_once", "at_most_once", "exactly_once"}]
  /\ NumHandlers \in Nat
  /\ BatchLimit \in Nat \ {0}
  /\ AtLeastOnceMax \in Nat \ {0} /\ OtherMax \in Nat \ {0}
  /\ MaxAborts \in Nat
  /\ NoEvent \notin Events

VARIABLES
  status,     \* event_outbox.status; "absent": no row, "uncommitted": inserted
              \* by a caller's transaction that is still open
  attempts,   \* event_outbox.attempts
  due,        \* event_outbox.scheduled_at <= NOW()
  processed,  \* event_processed: the committed deduplication rows
  locked,     \* rows a worker's transaction holds FOR UPDATE ({}: no flush)
  todo,       \* locked rows whose loop iteration has not started
  cur,        \* the row whose handlers a worker is running
  nextHandler,\* index of the handler to run next
  wrote,      \* the statements a worker's open transaction has run on a row
  runs,       \* history: completed runs of each handler for each event
  lost,       \* history: aborted transactions that had taken the event up
  aborts      \* history: aborted transactions

tables == <<status, attempts, due, processed>>
loop == <<locked, todo, cur, nextHandler, wrote>>
vars == <<tables, loop, runs, lost, aborts>>

Handlers == 1 .. NumHandlers
Terminal == {"delivered", "dead_letter"}
MaxAttempts(e) == IF Delivery[e] = "at_least_once" THEN AtLeastOnceMax ELSE OtherMax
Committed(e) == status[e] \in {"pending"} \cup Terminal
NothingWritten == [e \in Events |-> "none"]

Init ==
  /\ status = [e \in Events |-> "absent"]
  /\ attempts = [e \in Events |-> 0]
  /\ due = [e \in Events |-> FALSE]
  /\ processed = {}
  /\ locked = [w \in Workers |-> {}]
  /\ todo = [w \in Workers |-> {}]
  /\ cur = [w \in Workers |-> NoEvent]
  /\ nextHandler = [w \in Workers |-> 1]
  /\ wrote = [w \in Workers |-> NothingWritten]
  /\ runs = [e \in Events |-> [h \in Handlers |-> 0]]
  /\ lost = [e \in Events |-> 0]
  /\ aborts = 0

-----------------------------------------------------------------------------
(* publish(): with a client the INSERT belongs to the caller's transaction. *)

Insert(e, st) == /\ status' = [status EXCEPT ![e] = st]
                 /\ due' = [due EXCEPT ![e] = TRUE]
                 /\ UNCHANGED <<attempts, processed, loop, runs, lost, aborts>>

Publish(e) == status[e] = "absent" /\ Insert(e, "pending")

PublishInTransaction(e) == status[e] = "absent" /\ Insert(e, "uncommitted")

CallerEnds(e, commits) ==
  /\ status[e] = "uncommitted"
  /\ status' = [status EXCEPT ![e] = IF commits THEN "pending" ELSE "absent"]
  /\ UNCHANGED <<attempts, due, processed, loop, runs, lost, aborts>>

-----------------------------------------------------------------------------
(* flush() *)

\* Mutants of Eligible: no SKIP LOCKED; rows of open transactions are read.
EligibleUnlocked == {e \in Events : status[e] = "pending" /\ due[e]}
EligibleDirty == {e \in Events : /\ status[e] \in {"pending", "uncommitted"}
                                 /\ due[e]
                                 /\ \A w \in Workers : e \notin locked[w]}

Eligible == {e \in Events : /\ status[e] = "pending"
                            /\ due[e]
                            /\ \A w \in Workers : e \notin locked[w]}

\* BEGIN; SELECT ... FOR UPDATE SKIP LOCKED.  The ORDER BY decides which rows
\* a full batch takes; any choice of that size stands for it.
Select(w) ==
  /\ locked[w] = {}
  /\ \E batch \in SUBSET Eligible :
       /\ batch # {}
       /\ \/ batch = Eligible /\ Cardinality(batch) <= BatchLimit
          \/ Cardinality(batch) = BatchLimit
       /\ locked' = [locked EXCEPT ![w] = batch]
       /\ todo' = [todo EXCEPT ![w] = batch]
  /\ UNCHANGED <<tables, cur, nextHandler, wrote, runs, lost, aborts>>

AlreadyProcessed(e) == Delivery[e] = "exactly_once" /\ e \in processed

\* The head of the row loop, with the exactly_once lookup.
TakeRow(w, e) ==
  /\ cur[w] = NoEvent
  /\ e \in todo[w]
  /\ todo' = [todo EXCEPT ![w] = @ \ {e}]
  /\ IF AlreadyProcessed(e)
       THEN /\ wrote' = [wrote EXCEPT ![w][e] = "skip"]
            /\ UNCHANGED <<cur, nextHandler>>
       ELSE /\ cur' = [cur EXCEPT ![w] = e]
            /\ nextHandler' = [nextHandler EXCEPT ![w] = 1]
            /\ UNCHANGED wrote
  /\ UNCHANGED <<tables, locked, runs, lost, aborts>>

RunHandler(w) ==
  /\ cur[w] # NoEvent
  /\ nextHandler[w] \in Handlers
  /\ runs' = [runs EXCEPT ![cur[w]][nextHandler[w]] = @ + 1]
  /\ nextHandler' = [nextHandler EXCEPT ![w] = @ + 1]
  /\ UNCHANGED <<tables, locked, todo, cur, wrote, lost, aborts>>

FinishRow(w, statement) ==
  /\ cur' = [cur EXCEPT ![w] = NoEvent]
  /\ wrote' = [wrote EXCEPT ![w][cur[w]] = statement]
  /\ UNCHANGED <<tables, locked, todo, nextHandler, runs, lost, aborts>>

\* Mutant of HandlerThrows: the exception is swallowed.
HandlerThrowsSwallowed(w) ==
  /\ cur[w] # NoEvent
  /\ nextHandler[w] \in Handlers
  /\ FinishRow(w, "deliver")

\* The catch of the row loop: a handler threw.
HandlerThrows(w) ==
  /\ cur[w] # NoEvent
  /\ nextHandler[w] \in Handlers
  /\ FinishRow(w, "retry")

\* Mutant of MarkDelivered: the last handler is not awaited.
MarkDeliveredEarly(w) ==
  /\ cur[w] # NoEvent
  /\ nextHandler[w] >= NumHandlers
  /\ FinishRow(w, "deliver")

MarkDelivered(w) ==
  /\ cur[w] # NoEvent
  /\ nextHandler[w] \notin Handlers
  /\ FinishRow(w, "deliver")

\* The committed row after the statements of the flush transaction.
StatusAfter(e, statement) ==
  CASE statement \in {"deliver", "skip"} -> "delivered"
    [] statement = "retry" ->
         IF attempts[e] + 1 >= MaxAttempts(e) THEN "dead_letter" ELSE "pending"
    [] OTHER -> status[e]

AttemptsAfter(e, statement) ==
  IF statement \in {"deliver", "retry"} THEN attempts[e] + 1 ELSE attempts[e]

ProcessedAfter(w) ==
  processed \cup {e \in Events : /\ wrote[w][e] = "deliver"
                                 /\ Delivery[e] = "exactly_once"}

\* Mutant of EndFlush: the connection is never released, its locks stay.
EndFlushKeepsLocks(w) ==
  /\ UNCHANGED <<locked, cur, nextHandler, wrote>>
  /\ todo' = [todo EXCEPT ![w] = {}]

EndFlush(w) ==
  /\ locked' = [locked EXCEPT ![w] = {}]
  /\ todo' = [todo EXCEPT ![w] = {}]
  /\ cur' = [cur EXCEPT ![w] = NoEvent]
  /\ nextHandler' = [nextHandler EXCEPT ![w] = 1]
  /\ wrote' = [wrote EXCEPT ![w] = NothingWritten]

Commit(w) ==
  /\ locked[w] # {} /\ todo[w] = {} /\ cur[w] = NoEvent
  /\ status' = [e \in Events |-> StatusAfter(e, wrote[w][e])]
  /\ attempts' = [e \in Events |-> AttemptsAfter(e, wrote[w][e])]
  /\ due' = [e \in Events |-> due[e] /\ wrote[w][e] # "retry"]
  /\ processed' = ProcessedAfter(w)
  /\ EndFlush(w)
  /\ UNCHANGED <<runs, lost, aborts>>

\* A statement fails (the catch's UPDATE then fails too, in the same aborted
\* transaction), the connection drops, COMMIT fails or the process dies:
\* nothing of the transaction remains but the handlers' effects.
Abort(w) ==
  /\ locked[w] # {}
  /\ aborts < MaxAborts
  /\ aborts' = aborts + 1
  /\ lost' = [e \in Events |-> IF e \in locked[w] \ todo[w] THEN lost[e] + 1 ELSE lost[e]]
  /\ EndFlush(w)
  /\ UNCHANGED <<tables, runs>>

\* scheduled_at of a row put back to pending is reached.
BackoffElapses(e) ==
  /\ status[e] = "pending" /\ ~due[e]
  /\ due' = [due EXCEPT ![e] = TRUE]
  /\ UNCHANGED <<status, attempts, processed, loop, runs, lost, aborts>>

-----------------------------------------------------------------------------

FlushStep(w) == \/ Select(w)
                \/ \E e \in Events : TakeRow(w, e)
                \/ RunHandler(w)
                \/ HandlerThrows(w)
                \/ MarkDelivered(w)
                \/ Commit(w)

Next == \/ \E e \in Events : \/ Publish(e)
                             \/ PublishInTransaction(e)
                             \/ \E commits \in BOOLEAN : CallerEnds(e, commits)
                             \/ BackoffElapses(e)
        \/ \E w \in Workers : FlushStep(w) \/ Abort(w)

Spec == Init /\ [][Next]_vars

\* The interval timer keeps starting flushes, handlers return or throw, and
\* time passes.  Nothing forces a publisher to publish or a flush to abort.
Fairness == /\ \A w \in Workers : WF_vars(FlushStep(w))
            /\ \A e \in Events : WF_vars(BackoffElapses(e))

FairSpec == Spec /\ Fairness
-----------------------------------------------------------------------------
(* Properties *)

TakenUp(e) == \E w \in Workers : e \in locked[w] \ todo[w]

\* The tables, the loop variables of every flush and the histories stay in their
\* domains.
TypeOK ==
  /\ status \in [Events -> {"absent", "uncommitted", "pending"} \cup Terminal]
  /\ attempts \in [Events -> Nat]
  /\ due \in [Events -> BOOLEAN]
  /\ processed \subseteq Events
  /\ locked \in [Workers -> SUBSET Events]
  /\ todo \in [Workers -> SUBSET Events]
  /\ cur \in [Workers -> Events \cup {NoEvent}]
  /\ nextHandler \in [Workers -> 1 .. NumHandlers + 1]
  /\ wrote \in [Workers -> [Events -> {"none", "skip", "deliver", "retry"}]]
  /\ runs \in [Events -> [Handlers -> Nat]]
  /\ lost \in [Events -> Nat]
  /\ aborts \in Nat

\* Two flushes never work on the same row, and a row a flush holds is still
\* pending: the row locks of FOR UPDATE SKIP LOCKED.
RowsExclusive ==
  \A w \in Workers : \A e \in locked[w] :
    /\ status[e] = "pending"
    /\ \A v \in Workers \ {w} : e \notin locked[v]

\* attempts, dead_letter and pending agree with the attempt limit of the
\* event's delivery mode: an event is given up after exactly that many
\* recorded failures, never before and never retried beyond it.
AttemptLimit ==
  \A e \in Events :
    /\ status[e] = "dead_letter" => attempts[e] = MaxAttempts(e)
    /\ status[e] = "pending" => attempts[e] < MaxAttempts(e)

\* An event is marked delivered only if every handler completed for it, over
\* whatever number of flushes, throws and rollbacks.
DeliveredWasHandled ==
  \A e \in Events : status[e] = "delivered" => \A h \in Handlers : runs[e][h] > 0

\* A transactional publisher that rolls back leaves no trace: handlers only
\* ever run for events whose publication committed.
NoPhantomDelivery ==
  \A e \in Events : (\E h \in Handlers : runs[e][h] > 0) => Committed(e)

\* The deduplication table and the outbox say the same of exactly_once events.
DedupAgrees ==
  \A e \in Events : e \in processed <=> /\ Delivery[e] = "exactly_once"
                                        /\ status[e] = "delivered"

\* A handler runs again only because of a recorded attempt that failed or a
\* flush transaction that did not commit: duplicates are bounded by both, and
\* flushes that overlap add none.
DuplicatesAccounted ==
  \A e \in Events, h \in Handlers :
    runs[e][h] <= attempts[e] + lost[e] + (IF TakenUp(e) THEN 1 ELSE 0)

\* Once delivered or dead-lettered, an event is never touched again: no later
\* flush reruns its handlers or changes its row.
SettledIsFinal ==
  [][\A e \in Events : status[e] \in Terminal =>
       /\ runs'[e] = runs[e]
       /\ status'[e] = status[e]
       /\ attempts'[e] = attempts[e]]_vars

\* Every event whose publication commits is eventually delivered or
\* dead-lettered, despite throwing handlers and MaxAborts lost transactions.
EventuallySettled ==
  \A e \in Events : status[e] = "pending" ~> status[e] \in Terminal

\* EventOutbox implements what OutboxContract promises.
VisibleState == [e \in Events |-> IF Committed(e) THEN status[e] ELSE "unpublished"]
HandlersDone == [e \in Events |-> {h \in Handlers : runs[e][h] > 0}]

Contract == INSTANCE OutboxContract WITH state <- VisibleState, done <- HandlersDone
ContractSpec == Contract!Spec
=============================================================================
