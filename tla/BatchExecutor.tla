--------------------------- MODULE BatchExecutor ---------------------------
(***************************************************************************)
(* The batch executor that is emitted for the capabilities with            *)
(* `sync: batch`, and the routes that enqueue for it.  A request waits on  *)
(* the promise of its queue item; the callback of an interval drains one   *)
(* queue after the other and runs what it drained in one transaction.      *)
(* setInterval does not wait for a callback to end, so several of them run *)
(* at the same time; Ticks bounds how many.  The handlers are the user's:  *)
(* one runs SQL on the client it is given, and returns or throws.          *)
(***************************************************************************)
EXTENDS Integers, Sequences, FiniteSets, SequencesExt, FiniteSetsExt

CONSTANTS
    Requests,
    Capabilities,
    CapOf,        \* [Requests -> Capabilities]
    Order,        \* the capabilities in the order of the Map `queues`
    Registered,   \* the capabilities with a handler
    Ticks,        \* callbacks of the interval that may overlap
    Clients,      \* clients of the pool
    MaxRestarts   \* bound: restarts of the process

ASSUME BatchAssumption ==
    /\ CapOf \in [Requests -> Capabilities]
    /\ Order \in Seq(Capabilities) /\ Range(Order) = Capabilities
    /\ Len(Order) = Cardinality(Capabilities)
    /\ Registered \subseteq Capabilities
    /\ Clients \in Nat \ {0} /\ MaxRestarts \in Nat

VARIABLES
    queue,      \* the Map `queues`
    promise,    \* what has become of the promise of a request's item
    flush,      \* the callbacks: position in Order and the running flushBatch()
    free,       \* idle clients of the pool
    durable,    \* requests whose writes are committed
    flushes,    \* history: the transactions that are over
    stranded,   \* history: requests dropped by a flush that never settles them
    restarts

vars == <<queue, promise, flush, free, durable, flushes, stranded, restarts>>

Off == [pc |-> "off", at |-> 1, batch |-> <<>>, done |-> 0, wrote |-> {}, tx |-> "none"]

Init ==
    /\ queue = [c \in Capabilities |-> <<>>]
    /\ promise = [r \in Requests |-> "none"]
    /\ flush = [t \in Ticks |-> Off]
    /\ free = Clients
    /\ durable = {} /\ flushes = {} /\ stranded = {} /\ restarts = 0

Unsettled(items) == {r \in Range(items) : promise[r] = "pending"}

Scan(t) == [Off EXCEPT !.pc = "scan", !.at = flush[t].at]

-----------------------------------------------------------------------------
(* enqueueBatch(), awaited by the route of the capability.                 *)
Enqueue(r) ==
    /\ promise[r] = "none"
    /\ promise' = [promise EXCEPT ![r] = "pending"]
    /\ queue' = [queue EXCEPT ![CapOf[r]] = Append(@, r)]
    /\ UNCHANGED <<flush, free, durable, flushes, stranded, restarts>>

(* Mutant of Drain: the queue is emptied only when the flush is over.      *)
DrainCopy(t) ==
    /\ flush[t].pc \in {"off", "scan"}
    /\ LET from == IF flush[t].pc = "off" THEN 1 ELSE flush[t].at
           waiting == {i \in from .. Len(Order) : queue[Order[i]] # <<>>}
       IN  IF waiting = {}
           THEN flush' = [flush EXCEPT ![t] = Off]
           ELSE flush' = [flush EXCEPT ![t] =
                    [Off EXCEPT !.pc = "connect", !.at = Min(waiting) + 1,
                                !.batch = queue[Order[Min(waiting)]]]]
    /\ UNCHANGED <<queue, promise, free, durable, flushes, stranded, restarts>>

(* The interval fires, or a callback goes on after a flush: the next queue *)
(* that is not empty is drained; the callback ends when there is none.     *)
Drain(t) ==
    /\ flush[t].pc \in {"off", "scan"}
    /\ LET from == IF flush[t].pc = "off" THEN 1 ELSE flush[t].at
           waiting == {i \in from .. Len(Order) : queue[Order[i]] # <<>>}
       IN  IF waiting = {}
           THEN flush' = [flush EXCEPT ![t] = Off] /\ UNCHANGED queue
           ELSE LET c == Order[Min(waiting)]
                IN  /\ flush' = [flush EXCEPT ![t] =
                           [Off EXCEPT !.pc = "connect", !.at = Min(waiting) + 1,
                                       !.batch = queue[c]]]
                    /\ queue' = [queue EXCEPT ![c] = <<>>]
    /\ UNCHANGED <<promise, free, durable, flushes, stranded, restarts>>

Connect(t) ==
    /\ flush[t].pc = "connect" /\ free > 0
    /\ free' = free - 1
    /\ flush' = [flush EXCEPT ![t].pc = "begin"]
    /\ UNCHANGED <<queue, promise, durable, flushes, stranded, restarts>>

(* pool.connect() is in front of the try block: its failure reaches the    *)
(* catch of the worker, which logs it and knows nothing of the items.      *)
ConnectFails(t) ==
    /\ flush[t].pc = "connect"
    /\ stranded' = stranded \cup Unsettled(flush[t].batch)
    /\ flush' = [flush EXCEPT ![t] = Scan(t)]
    /\ UNCHANGED <<queue, promise, free, durable, flushes, restarts>>

Begin(t) ==
    /\ flush[t].pc = "begin"
    /\ \/ flush' = [flush EXCEPT ![t].pc = "items", ![t].tx = "ok"]
       \/ flush' = [flush EXCEPT ![t].pc = "rollback"]
    /\ UNCHANGED <<queue, promise, free, durable, flushes, stranded, restarts>>

(* What a handler can do with its item: whether it writes, how its promise *)
(* is settled, and the state of the transaction after it.  A statement     *)
(* that fails aborts the transaction, and from then on each fails; a       *)
(* handler may swallow the error and return.                               *)
Outcomes(t, r) ==
    IF CapOf[r] \notin Registered
    THEN {[writes |-> FALSE, settles |-> "rejected", tx |-> flush[t].tx]}
    ELSE {o \in [writes : BOOLEAN, settles : {"resolved", "rejected"}, tx : {"ok", "aborted"}] :
              flush[t].tx = "aborted" => ~o.writes /\ o.tx = "aborted"}

(* Mutant of Item: the handler writes through query(), on another client.  *)
ItemOnPool(t, o) ==
    /\ flush[t].pc = "items" /\ flush[t].done < Len(flush[t].batch)
    /\ LET r == flush[t].batch[flush[t].done + 1]
       IN  /\ o \in Outcomes(t, r)
           /\ promise' = [promise EXCEPT ![r] = o.settles]
           /\ durable' = IF o.writes THEN durable \cup {r} ELSE durable
           /\ flush' = [flush EXCEPT ![t].done = @ + 1, ![t].tx = o.tx,
                                     ![t].wrote = IF o.writes THEN @ \cup {r} ELSE @]
    /\ UNCHANGED <<queue, free, flushes, stranded, restarts>>

(* One item: a settled promise stays as it is, which here it never is yet. *)
Item(t, o) ==
    /\ flush[t].pc = "items" /\ flush[t].done < Len(flush[t].batch)
    /\ LET r == flush[t].batch[flush[t].done + 1]
       IN  /\ o \in Outcomes(t, r)
           /\ promise' = [promise EXCEPT ![r] = o.settles]
           /\ flush' = [flush EXCEPT ![t].done = @ + 1, ![t].tx = o.tx,
                                     ![t].wrote = IF o.writes THEN @ \cup {r} ELSE @]
    /\ UNCHANGED <<queue, free, durable, flushes, stranded, restarts>>

Over(t, committed) ==
    flushes' = flushes \cup {[wrote |-> flush[t].wrote, tx |-> flush[t].tx,
                              committed |-> committed]}

(* Mutant of Commit: the client is not released.                           *)
CommitKeepsClient(t) ==
    /\ flush[t].pc = "items" /\ flush[t].done = Len(flush[t].batch)
    /\ durable' = IF flush[t].tx = "ok" THEN durable \cup flush[t].wrote ELSE durable
    /\ Over(t, flush[t].tx = "ok")
    /\ flush' = [flush EXCEPT ![t] = Scan(t)]
    /\ UNCHANGED <<queue, promise, free, stranded, restarts>>

(* COMMIT of an aborted transaction rolls it back and reports no error.    *)
Commit(t) ==
    /\ flush[t].pc = "items" /\ flush[t].done = Len(flush[t].batch)
    /\ durable' = IF flush[t].tx = "ok" THEN durable \cup flush[t].wrote ELSE durable
    /\ Over(t, flush[t].tx = "ok")
    /\ free' = free + 1
    /\ flush' = [flush EXCEPT ![t] = Scan(t)]
    /\ UNCHANGED <<queue, promise, stranded, restarts>>

(* COMMIT fails: refused by the server, or the connection is lost before   *)
(* or after the server has carried it out.                                 *)
CommitFails(t) ==
    /\ flush[t].pc = "items" /\ flush[t].done = Len(flush[t].batch)
    /\ \E kept \in {flush[t].tx = "ok", FALSE} :
          /\ durable' = IF kept THEN durable \cup flush[t].wrote ELSE durable
          /\ Over(t, kept)
    /\ flush' = [flush EXCEPT ![t].pc = "rollback"]
    /\ UNCHANGED <<queue, promise, free, stranded, restarts>>

(* Mutant of Rollback: the items are left to the log.                      *)
RollbackOnly(t) ==
    /\ flush[t].pc = "rollback"
    /\ free' = free + 1
    /\ flush' = [flush EXCEPT ![t] = Scan(t)]
    /\ UNCHANGED <<queue, promise, durable, flushes, stranded, restarts>>

(* The catch block: ROLLBACK, then reject() on every item, which changes   *)
(* nothing for those that are settled.                                     *)
Rollback(t) ==
    /\ flush[t].pc = "rollback"
    /\ promise' = [r \in Requests |->
                      IF r \in Unsettled(flush[t].batch) THEN "rejected" ELSE promise[r]]
    /\ free' = free + 1
    /\ flush' = [flush EXCEPT ![t] = Scan(t)]
    /\ UNCHANGED <<queue, durable, flushes, stranded, restarts>>

(* ROLLBACK fails as well and the loop behind it is not reached.           *)
RollbackFails(t) ==
    /\ flush[t].pc = "rollback"
    /\ stranded' = stranded \cup Unsettled(flush[t].batch)
    /\ free' = free + 1
    /\ flush' = [flush EXCEPT ![t] = Scan(t)]
    /\ UNCHANGED <<queue, promise, durable, flushes, restarts>>

(* The process dies: queues and promises are in its memory only.           *)
Restart ==
    /\ restarts < MaxRestarts /\ restarts' = restarts + 1
    /\ queue' = [c \in Capabilities |-> <<>>]
    /\ promise' = [r \in Requests |-> IF promise[r] = "pending" THEN "gone" ELSE promise[r]]
    /\ flushes' = flushes \cup {[wrote |-> flush[t].wrote, tx |-> flush[t].tx,
                                 committed |-> FALSE] :
                                t \in {u \in Ticks : flush[u].pc = "items"}}
    /\ flush' = [t \in Ticks |-> Off]
    /\ free' = Clients
    /\ UNCHANGED <<durable, stranded>>

Work(t) ==
    \/ Drain(t) \/ Begin(t) \/ Commit(t) \/ CommitFails(t) \/ Rollback(t) \/ RollbackFails(t)
    \/ \E r \in Requests : \E o \in Outcomes(t, r) : Item(t, o)

Next ==
    \/ \E r \in Requests : Enqueue(r)
    \/ \E t \in Ticks : Work(t) \/ Connect(t) \/ ConnectFails(t)
    \/ Restart

(* The interval fires for ever, statements and handlers return, and pg     *)
(* serves the callers that wait for a client in their order.  Nothing      *)
(* makes a connect() fail.                                                 *)
Fairness == \A t \in Ticks : WF_vars(Work(t)) /\ SF_vars(Connect(t))

Spec == Init /\ [][Next]_vars /\ Fairness

-----------------------------------------------------------------------------
(* The types of the variables.                                             *)
TypeOK ==
    /\ queue \in [Capabilities -> Seq(Requests)]
    /\ promise \in [Requests -> {"none", "pending", "resolved", "rejected", "gone"}]
    /\ flush \in [Ticks ->
          [pc : {"off", "scan", "connect", "begin", "items", "rollback"},
           at : 1 .. Len(Order) + 1, batch : Seq(Requests), done : Nat,
           wrote : SUBSET Requests, tx : {"none", "ok", "aborted"}]]
    /\ free \in 0 .. Clients
    /\ durable \subseteq Requests /\ stranded \subseteq Requests
    /\ restarts \in 0 .. MaxRestarts

(* "Process items in a single DB transaction" (emit_batch.ts:71): what the *)
(* items of a flush have written is kept for all of them or for none, and  *)
(* for none once a statement of one of them has failed.                    *)
FlushIsAtomic ==
    \A f \in flushes :
        /\ f.wrote \subseteq durable \/ f.wrote \cap durable = {}
        /\ f.wrote # {} => (f.committed <=> f.wrote \subseteq durable)
        /\ f.committed => f.tx = "ok"

(* A promise that is not settled is in one place only - its queue or the   *)
(* rest of one flush - so that no overlapping callback handles the item a  *)
(* second time; and it is somewhere, unless a connect() or a ROLLBACK that *)
(* failed has stranded it.                                                 *)
PendingIsTracked ==
    \A r \in Requests :
        LET queued == {i \in DOMAIN queue[CapOf[r]] : queue[CapOf[r]][i] = r}
            held == {t \in Ticks : r \in Range(SubSeq(flush[t].batch, flush[t].done + 1,
                                                      Len(flush[t].batch)))}
        IN  Cardinality(queued) + Cardinality(held) =
                IF promise[r] = "pending" /\ r \notin stranded THEN 1 ELSE 0

(* Every request that is enqueued is answered, unless it is stranded or    *)
(* the process dies under it.                                              *)
EveryRequestSettles ==
    \A r \in Requests :
        promise[r] = "pending" ~> (promise[r] # "pending" \/ r \in stranded)

=============================================================================
