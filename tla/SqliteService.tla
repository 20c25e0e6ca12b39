--------------------------- MODULE SqliteService ---------------------------
(***************************************************************************)
(* The service that is emitted for the SQLite target: the routes and the   *)
(* batch executor of the Express target on a db.ts with one connection for *)
(* all.  The client of pool.connect() hands BEGIN, COMMIT and ROLLBACK to  *)
(* that connection, so a transaction takes in whatever anybody writes      *)
(* until it ends, and release() does nothing.                              *)
(*                                                                         *)
(* better-sqlite3 is synchronous: between its statements a handler awaits  *)
(* settled promises only, and other requests cannot run.  A handler gives  *)
(* way in two places: eventBus.publish(), which awaits the subscribers of  *)
(* its event (the effects come before it, the response and COMMIT after),  *)
(* and the promise of a batch item; a flush gives way to what the handler  *)
(* of an item waits for.  An action is what runs without giving way, or a  *)
(* part of it that the rest follows at once (HandlersTurn, ExecutorsTurn). *)
(* What subscribers and batch handlers wait for is each settled in a turn  *)
(* of the event loop of its own.                                           *)
(*                                                                         *)
(* As in CapabilityRoute the guarded requests look at the same entities,   *)
(* and the first effect of any of them makes the precondition false.       *)
(***************************************************************************)
EXTENDS Integers

CONSTANTS
    Requests,
    Routes,       \* what a request may call, see RouteType
    Flushes,      \* the flushBatch() that may run at the same time
    MaxFailures,  \* bound: effects that fail
    MaxRestarts   \* bound: restarts of the process

(* kind: a capability with sync: transactional or sync: batch, the update  *)
(* route of an entity, or any other route that writes; guarded: it has     *)
(* preconditions; waits: a subscriber of its event, or its batch handler,  *)
(* really waits; effects: the statements that write; attempts:             *)
(* retry.max_attempts, 1 without a retry clause.                           *)
RouteType ==
    [kind : {"transactional", "batch", "update", "plain"}, guarded : BOOLEAN,
     waits : BOOLEAN, effects : Nat \ {0}, attempts : Nat \ {0}]

ASSUME SqliteAssumption ==
    Routes \subseteq RouteType /\ MaxFailures \in Nat /\ MaxRestarts \in Nat

VARIABLES
    route,     \* what each request calls
    pc,        \* of its handler: "new", "again" before a later attempt, "waiting",
               \* "queued" or "drained" as a batch item, or "done"
    attempt,   \* __attempt
    response,  \* what its client was told
    flush,     \* the items of each running flushBatch(), and those it is through with
    tx,        \* the transaction of the connection: "none" or "open"
    pending,   \* the writes in it
    durable,   \* the writes in the database file
    failures, restarts

handlers == <<route, pc, attempt, response>>
db == <<tx, pending, durable>>
bounds == <<failures, restarts>>
vars == <<handlers, flush, db, bounds>>

Upto(r, n, k) == {<<r, n, i>> : i \in 1 .. k}
Writes(r, n) == Upto(r, n, route[r].effects)
Visible == durable \cup pending

Kind(r) == route[r].kind
Transactional(r) == Kind(r) = "transactional"
Sent(r) == response[r] # "none"

NoFlush == [items |-> {}, done |-> {}]

Init ==
    /\ route \in [Requests -> Routes]
    /\ pc = [r \in Requests |-> "new"] /\ attempt = [r \in Requests |-> 1]
    /\ response = [r \in Requests |-> "none"]
    /\ flush = [f \in Flushes |-> NoFlush]
    /\ tx = "none" /\ pending = {} /\ durable = {}
    /\ failures = 0 /\ restarts = 0

-----------------------------------------------------------------------------
(* The connection *)

(* query() in the open transaction, else committed by itself.              *)
Write(ws) ==
    /\ pending' = IF tx = "open" THEN pending \cup ws ELSE pending
    /\ durable' = IF tx = "open" THEN durable ELSE durable \cup ws
    /\ UNCHANGED tx

(* COMMIT, of whatever is in the transaction that is open now.  When there *)
(* is none it is an error, and the ROLLBACK after it does nothing.         *)
Commit == tx' = "none" /\ pending' = {} /\ durable' = Visible

(* ROLLBACK of a client; without a transaction its error is swallowed.     *)
Rollback == tx' = "none" /\ pending' = {} /\ UNCHANGED durable

-----------------------------------------------------------------------------
(* The routes *)

(* An attempt of the handlers in S is over, and they answer unless they    *)
(* have before.  Nothing leaves the retry loop but its end, also after     *)
(* success: the next attempt begins, or enqueues the batch item again.     *)
EndAttempt(S, answer) ==
    LET Again(r) == attempt[r] < route[r].attempts
        Entry(r) == IF Kind(r) = "batch" THEN "queued" ELSE "again"
    IN  /\ response' = [r \in Requests |->
               IF r \in S /\ ~Sent(r) THEN answer ELSE response[r]]
        /\ pc' = [r \in Requests |->
               IF r \notin S THEN pc[r] ELSE IF Again(r) THEN Entry(r) ELSE "done"]
        /\ attempt' = [r \in Requests |->
               IF r \in S /\ Again(r) THEN attempt[r] + 1 ELSE attempt[r]]
        /\ UNCHANGED route

(* return res...: out of the handler.                                      *)
Return(r, answer) ==
    /\ pc' = [pc EXCEPT ![r] = "done"]
    /\ response' = [response EXCEPT ![r] = answer]
    /\ UNCHANGED <<route, attempt>>

Wait(r) == pc' = [pc EXCEPT ![r] = "waiting"] /\ UNCHANGED <<route, attempt, response>>

Enters(r) == pc[r] \in {"new", "again"} /\ Kind(r) # "batch"

(* BEGIN is an error within a transaction, whose ever it is, and the catch *)
(* clause rolls that transaction back.                                     *)
BeginFails(r) ==
    /\ Enters(r) /\ Transactional(r) /\ tx = "open"
    /\ Rollback /\ EndAttempt({r}, "failed")
    /\ UNCHANGED <<flush, bounds>>

Starts(r) == Enters(r) /\ (Transactional(r) => tx = "none")

Holds(r) == route[r].guarded =>
    \A q \in Requests : route[q].guarded =>
        \A n \in 1 .. attempt[q] : <<q, n, 1>> \notin Visible

(* return res.status(404 or 422) out of the try block: BEGIN stays.        *)
Refuse(r) ==
    /\ Starts(r) /\ ~Holds(r) /\ ~Sent(r)
    /\ tx' = IF Transactional(r) THEN "open" ELSE tx
    /\ Return(r, "refused")
    /\ UNCHANGED <<pending, durable, flush, bounds>>

(* An error is thrown after k effects: an effect fails, or it is that of a *)
(* second response.  A transaction is rolled back, other effects stay.     *)
Throws(r, k) ==
    /\ IF Transactional(r) THEN Rollback ELSE Write(Upto(r, attempt[r], k))
    /\ EndAttempt({r}, "failed")
    /\ UNCHANGED flush

(* A later attempt refuses: the response throws, and the loop goes on.     *)
RefuseAgain(r) ==
    /\ Starts(r) /\ ~Holds(r) /\ Sent(r)
    /\ Throws(r, 0)
    /\ UNCHANGED bounds

EffectFails(r, k) ==
    /\ Starts(r) /\ Holds(r) /\ Kind(r) # "update"
    /\ failures < MaxFailures /\ failures' = failures + 1
    /\ Throws(r, k - 1)
    /\ UNCHANGED restarts

(* Mutant of Body: BEGIN discards a transaction it finds open.             *)
BodyBeginsAfresh(r) ==
    /\ Enters(r) /\ Holds(r)
    /\ \/ /\ route[r].waits
          /\ IF Transactional(r)
               THEN tx' = "open" /\ pending' = Writes(r, attempt[r]) /\ UNCHANGED durable
               ELSE Write(Writes(r, attempt[r]))
          /\ Wait(r) /\ UNCHANGED flush
       \/ /\ ~route[r].waits /\ ~Sent(r)
          /\ IF Transactional(r)
               THEN /\ tx' = "none" /\ pending' = {}
                    /\ durable' = durable \cup Writes(r, attempt[r])
               ELSE Write(Writes(r, attempt[r]))
          /\ EndAttempt({r}, "ok") /\ UNCHANGED flush
       \/ ~route[r].waits /\ Sent(r) /\ Throws(r, route[r].effects)
    /\ UNCHANGED bounds

(* Mutant of Body: the last effect is left for after the event, and lost.  *)
BodyPublishesEarly(r) ==
    /\ Starts(r) /\ Holds(r)
    /\ IF Transactional(r)
         THEN /\ tx' = "open" /\ UNCHANGED durable
              /\ pending' = Upto(r, attempt[r], route[r].effects - 1)
         ELSE Write(Upto(r, attempt[r], route[r].effects - 1))
    /\ Wait(r) /\ UNCHANGED <<flush, bounds>>

(* All effects and the event.  If no subscriber waits, the response and    *)
(* COMMIT follow at once; a second response throws.                        *)
Body(r) ==
    /\ Starts(r) /\ Holds(r)
    /\ \/ /\ route[r].waits
          /\ IF Transactional(r)
               THEN tx' = "open" /\ pending' = Writes(r, attempt[r]) /\ UNCHANGED durable
               ELSE Write(Writes(r, attempt[r]))
          /\ Wait(r) /\ UNCHANGED flush
       \/ /\ ~route[r].waits /\ ~Sent(r)
          /\ IF Transactional(r)
               THEN durable' = durable \cup Writes(r, attempt[r]) /\ UNCHANGED <<tx, pending>>
               ELSE Write(Writes(r, attempt[r]))
          /\ EndAttempt({r}, "ok") /\ UNCHANGED flush
       \/ ~route[r].waits /\ Sent(r) /\ Throws(r, route[r].effects)
    /\ UNCHANGED bounds

(* Mutant of Finish: COMMIT is left to release().                          *)
FinishWithoutCommit(r) ==
    /\ pc[r] = "waiting" /\ Kind(r) # "batch"
    /\ UNCHANGED db
    /\ EndAttempt({r}, "ok")
    /\ UNCHANGED <<flush, bounds>>

(* Mutant of Finish: a second response is left out instead of throwing.    *)
FinishCommitsLate(r) ==
    /\ pc[r] = "waiting" /\ Kind(r) # "batch"
    /\ IF Transactional(r) THEN Commit ELSE UNCHANGED db
    /\ EndAttempt({r}, "ok")
    /\ UNCHANGED <<flush, bounds>>

(* res.json() and COMMIT.  After a timeout, or in a later attempt,         *)
(* res.json() throws and the catch clause rolls back.                      *)
Finish(r) ==
    /\ pc[r] = "waiting" /\ Kind(r) # "batch"
    /\ \/ Transactional(r) /\ ~Sent(r) /\ Commit
       \/ Transactional(r) /\ Sent(r) /\ Rollback
       \/ ~Transactional(r) /\ UNCHANGED db
    /\ EndAttempt({r}, "ok")
    /\ UNCHANGED <<flush, bounds>>

TimeOut(r) ==
    /\ pc[r] \in {"waiting", "queued", "drained"} /\ ~Sent(r)
    /\ response' = [response EXCEPT ![r] = "timeout"]
    /\ UNCHANGED <<route, pc, attempt, flush, db, bounds>>

-----------------------------------------------------------------------------
(* The batch executor *)

(* The route of a batch capability waits on the promise of its item.       *)
Enqueue(r) ==
    /\ pc[r] = "new" /\ Kind(r) = "batch"
    /\ pc' = [pc EXCEPT ![r] = "queued"]
    /\ UNCHANGED <<route, attempt, response, flush, db, bounds>>

Queue(c) == {r \in Requests : pc[r] = "queued" /\ route[r] = c}

(* The queue of capability c is drained, and the flush begins.             *)
Drain(f, c) ==
    /\ flush[f] = NoFlush /\ Queue(c) # {} /\ tx = "none"
    /\ tx' = "open"
    /\ flush' = [flush EXCEPT ![f] = [items |-> Queue(c), done |-> {}]]
    /\ pc' = [r \in Requests |-> IF r \in Queue(c) THEN "drained" ELSE pc[r]]
    /\ UNCHANGED <<route, attempt, response, pending, durable, bounds>>

(* BEGIN within a transaction, as in BeginFails; the items are rejected.   *)
DrainFails(f, c) ==
    /\ flush[f] = NoFlush /\ Queue(c) # {} /\ tx = "open"
    /\ Rollback /\ EndAttempt(Queue(c), "failed")
    /\ UNCHANGED <<flush, bounds>>

ThroughWith(f, r) == flush' = [flush EXCEPT ![f].done = @ \cup {r}]

(* item.resolve(): the route answers and returns; if something was sent    *)
(* already its res.json() throws and the retry loop goes on.               *)
Resolve(f, r) ==
    /\ ThroughWith(f, r)
    /\ IF Sent(r) THEN EndAttempt({r}, "failed") ELSE Return(r, "ok")

NextItem(f, r) ==
    /\ r \in flush[f].items \ flush[f].done
    /\ \A q \in flush[f].items \ flush[f].done : pc[q] = "drained"

(* The handler of the capability runs its statements on the connection.    *)
Item(f, r) ==
    /\ NextItem(f, r)
    /\ Write(Writes(r, attempt[r]))
    /\ IF route[r].waits THEN Wait(r) /\ UNCHANGED flush ELSE Resolve(f, r)
    /\ UNCHANGED bounds

(* Without a handler, or when it throws, the item is rejected and the      *)
(* flush goes on.                                                          *)
ItemFails(f, r, k) ==
    /\ NextItem(f, r)
    /\ failures < MaxFailures /\ failures' = failures + 1
    /\ Write(Upto(r, attempt[r], k - 1))
    /\ ThroughWith(f, r) /\ EndAttempt({r}, "failed")
    /\ UNCHANGED restarts

ItemEnds(f, r) ==
    /\ r \in flush[f].items \ flush[f].done /\ pc[r] = "waiting"
    /\ Resolve(f, r)
    /\ UNCHANGED <<db, bounds>>

FlushEnds(f) ==
    /\ flush[f] # NoFlush /\ flush[f].done = flush[f].items
    /\ Commit
    /\ flush' = [flush EXCEPT ![f] = NoFlush]
    /\ UNCHANGED <<handlers, bounds>>

-----------------------------------------------------------------------------
(* The process *)

(* The process dies and is started again: the journal undoes the open      *)
(* transaction, and nobody answers the requests that had begun.            *)
Restart(Victims) ==
    /\ restarts < MaxRestarts /\ restarts' = restarts + 1
    /\ Rollback
    /\ pc' = [r \in Requests |-> IF pc[r] # "new" \/ r \in Victims THEN "done" ELSE pc[r]]
    /\ flush' = [f \in Flushes |-> NoFlush]
    /\ UNCHANGED <<route, attempt, response>>

(* The UPDATE of the update route is outside of a try block: its rejection *)
(* is handled by nobody and ends the process.                              *)
UpdateFails(r) ==
    /\ Starts(r) /\ Kind(r) = "update"
    /\ failures < MaxFailures /\ failures' = failures + 1
    /\ Restart({r})

(* A handler that is about to run again, or a flush that does not wait for *)
(* an item, has the processor.                                             *)
RunsAgain(r) == pc[r] = "again"
Flushing(f) == flush[f] # NoFlush /\ \A r \in flush[f].items \ flush[f].done : pc[r] # "waiting"

HandlersTurn(r) ==
    /\ \A q \in Requests \ {r} : ~RunsAgain(q)
    /\ \A f \in Flushes : ~Flushing(f)

ExecutorsTurn(f) ==
    /\ \A q \in Requests : ~RunsAgain(q)
    /\ \A g \in Flushes \ {f} : ~Flushing(g)

Handler(r) ==
    \/ BeginFails(r) \/ Refuse(r) \/ RefuseAgain(r) \/ Body(r) \/ Finish(r)
    \/ \E k \in 1 .. route[r].effects : EffectFails(r, k)
    \/ UpdateFails(r) \/ TimeOut(r) \/ Enqueue(r)

Executor(f) ==
    \/ \E c \in Routes : Drain(f, c) \/ DrainFails(f, c)
    \/ \E r \in flush[f].items :
          \/ Item(f, r) \/ ItemEnds(f, r)
          \/ \E k \in 1 .. route[r].effects : ItemFails(f, r, k)
    \/ FlushEnds(f)

Next ==
    \/ \E r \in Requests : HandlersTurn(r) /\ Handler(r)
    \/ \E f \in Flushes : ExecutorsTurn(f) /\ Executor(f)
    \/ Restart({}) /\ UNCHANGED failures

Spec == Init /\ [][Next]_vars
-----------------------------------------------------------------------------
TypeOK ==
    /\ route \in [Requests -> Routes]
    /\ pc \in [Requests -> {"new", "again", "waiting", "queued", "drained", "done"}]
    /\ attempt \in [Requests -> Nat]
    /\ \A r \in Requests : attempt[r] \in 1 .. route[r].attempts
    /\ response \in [Requests -> {"none", "ok", "refused", "failed", "timeout"}]
    /\ flush \in [Flushes -> [items : SUBSET Requests, done : SUBSET Requests]]
    /\ tx \in {"none", "open"}
    /\ tx = "none" => pending = {}
    /\ \A w \in Visible : \E r \in Requests : \E n \in 1 .. attempt[r] : w \in Writes(r, n)
    /\ failures \in 0 .. MaxFailures /\ restarts \in 0 .. MaxRestarts

(* Transactions that share the connection lose each other's writes and     *)
(* commit them, but never a part of what a request wrote in an attempt:    *)
(* its effects are not interrupted, and every rollback and commit takes    *)
(* all of them.                                                            *)
AllOrNothing ==
    \A r \in Requests : Transactional(r) =>
        \A n \in 1 .. attempt[r] : Visible \cap Writes(r, n) \in {{}, Writes(r, n)}

(* What a client was told is done is lost only if another request that     *)
(* opens transactions, or whose flush does, failed or timed out; if one    *)
(* was run again by its retry clause, also after it had succeeded; or if   *)
(* the process died.                                                       *)
LostOnlyToRollback ==
    \A r \in Requests : response[r] = "ok" /\ ~(Writes(r, 1) \subseteq Visible) =>
        \/ restarts > 0
        \/ \E q \in Requests \ {r} :
              \/ Kind(q) \in {"transactional", "batch"} /\ response[q] \in {"failed", "timeout"}
              \/ Transactional(q) /\ attempt[q] > 1

(* A transactional request leaves nothing in the file unless its client    *)
(* was told ok, and nothing of a later attempt; except that the COMMIT of  *)
(* another transactional request that was told ok, or of a flush, can have *)
(* taken in what it had written so far.                                    *)
OnlySuccessStays ==
    \A r \in Requests : Transactional(r) =>
        \A n \in 1 .. attempt[r] : durable \cap Writes(r, n) # {} =>
            \/ n = 1 /\ response[r] = "ok"
            \/ \E q \in Requests \ {r} :
                  \/ Transactional(q) /\ response[q] = "ok"
                  \/ Kind(q) = "batch" /\ Sent(q)

(* The connection is left within a transaction that nobody will end only   *)
(* by a transactional request that was refused.                            *)
StrayTransaction ==
    tx = "open" =>
        \/ \E r \in Requests : Transactional(r) /\ (pc[r] = "waiting" \/ response[r] = "refused")
        \/ \E f \in Flushes : flush[f] # NoFlush
=============================================================================
