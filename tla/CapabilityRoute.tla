-------------------------- MODULE CapabilityRoute --------------------------
(***************************************************************************)
(* The POST route the compiler emits for a capability: the transaction     *)
(* opened on one client of the pg pool, the fetch, preconditions and       *)
(* effects that run through query() on any other client of the pool, the   *)
(* event published inside the transaction, the early returns, the retry    *)
(* loop and the request timeout, for concurrent requests that share the    *)
(* pool.                                                                   *)
(*                                                                         *)
(* All requests invoke capabilities on the same entities: effect k updates *)
(* row k, and effect 1 makes the precondition false.  Write 0 is the row   *)
(* of the event in the outbox.  Two things of pg and PostgreSQL are used   *)
(* as the routes see them: release() does not end a transaction, and an    *)
(* idle client is closed after a while, which rolls back what it has open. *)
(***************************************************************************)
EXTENDS Integers, FiniteSets

CONSTANTS Requests,
          Capabilities,  \* the declarations a request may invoke:
                         \* transactional (sync: transactional), guarded (it
                         \* fetches entities and has preconditions), attempts
                         \* (retry.max_attempts; 1 without a retry clause)
          Conns,         \* the clients the pool may open (max: 20)
          NumEffects,
          MayTimeOut,    \* whether a request can outlast REQUEST_TIMEOUT_MS
          MaxFailures,   \* bound: statements that fail
          NoConn

ASSUME CapabilityAssumption ==
  /\ Capabilities \subseteq [transactional : BOOLEAN, guarded : BOOLEAN, attempts : Nat \ {0}]
  /\ NumEffects \in Nat \ {0} /\ MaxFailures \in Nat
  /\ MayTimeOut \in BOOLEAN
  /\ NoConn \notin Conns

VARIABLES
  cap,        \* the capability a request invokes
  pc, attempt, response,  \* of each request; response is what the client got
  effect,     \* the next effect of a request
  client,     \* __client of a transactional request
  stmt,       \* the client on which a pool.query() of the request is in flight
  open, idle, \* the pool: connected clients, and those nobody has checked out
  tx,         \* the transaction of a connection: none, open or aborted
  pending,    \* writes of the open transaction of a connection
  durable,    \* committed writes
  failures

request == <<cap, pc, attempt, response, effect, client, stmt>>
pool == <<open, idle>>
db == <<tx, pending, durable>>
vars == <<request, pool, db, failures>>

Effects == 1 .. NumEffects
EventRow == 0
Writes == Requests \X (Effects \cup {EventRow})
NoWrites == [w \in Writes |-> 0]

Transactional(r) == cap[r].transactional

Init ==
  /\ cap \in [Requests -> Capabilities]
  /\ pc = [r \in Requests |-> "new"]
  /\ attempt = [r \in Requests |-> 0]
  /\ response = [r \in Requests |-> "none"]
  /\ effect = [r \in Requests |-> 1]
  /\ client = [r \in Requests |-> NoConn]
  /\ stmt = [r \in Requests |-> NoConn]
  /\ open = {} /\ idle = {}
  /\ tx = [c \in Conns |-> "none"]
  /\ pending = [c \in Conns |-> NoWrites]
  /\ durable = NoWrites
  /\ failures = 0

-----------------------------------------------------------------------------
(* The pool and the connections *)

\* An idle client if there is one, else a new one while there are fewer than max.
Available(c) == IF idle # {} THEN c \in idle ELSE c \in Conns \ open

CheckOut(c) == open' = open \cup {c} /\ idle' = idle \ {c}

\* Mutant of GiveBack: release() of the transaction's client is missing.
GiveBackOne(clients) == idle' = idle \cup (clients \ {client[r] : r \in Requests})
GiveBack(clients) == idle' = idle \cup (clients \ {NoConn})

EndTx(c, keep) ==
  /\ tx' = [tx EXCEPT ![c] = "none"]
  /\ pending' = [pending EXCEPT ![c] = NoWrites]
  /\ durable' = IF keep THEN [w \in Writes |-> durable[w] + pending[c][w]] ELSE durable

\* A statement that writes w: in the connection's transaction, else autocommitted.
Write(c, w) ==
  \/ /\ tx[c] = "open"
     /\ pending' = [pending EXCEPT ![c][w] = @ + 1]
     /\ UNCHANGED <<tx, durable>>
  \/ /\ tx[c] = "none"
     /\ durable' = [durable EXCEPT ![w] = @ + 1]
     /\ UNCHANGED <<tx, pending>>

\* An error aborts the connection's transaction and gives up its writes and locks.
AbortTx(c) ==
  /\ tx' = [tx EXCEPT ![c] = IF @ = "none" THEN "none" ELSE "aborted"]
  /\ pending' = [pending EXCEPT ![c] = NoWrites]
  /\ UNCHANGED durable

\* Another connection's transaction has updated row k and not ended.
RowLocked(k, c) == \E d \in Conns \ {c}, r \in Requests : pending[d][r, k] > 0

\* What a SELECT on c sees: effect 1 of nobody has been applied.
Holds(c) == \A r \in Requests : durable[r, 1] = 0 /\ pending[c][r, 1] = 0

-----------------------------------------------------------------------------
(* The route *)

\* res.json() and res.status().json() throw once the headers are sent.
Sent(r) == response[r] # "none"
Answer(r, what) == response' = [response EXCEPT ![r] = IF Sent(r) THEN @ ELSE what]

Arrive(r) ==
  /\ pc[r] = "new"
  /\ pc' = [pc EXCEPT ![r] = "attempt"]
  /\ UNCHANGED <<cap, attempt, response, effect, client, stmt, pool, db, failures>>

\* The head of the retry loop, or of the handler.
StartAttempt(r) ==
  /\ pc[r] = "attempt"
  /\ attempt' = [attempt EXCEPT ![r] = @ + 1]
  /\ effect' = [effect EXCEPT ![r] = 1]
  /\ \/ /\ Transactional(r)
        /\ \E c \in Conns : /\ Available(c) /\ CheckOut(c)
                            /\ client' = [client EXCEPT ![r] = c]
        /\ pc' = [pc EXCEPT ![r] = "begin"]
     \/ /\ ~Transactional(r)
        /\ pc' = [pc EXCEPT ![r] = "check"]
        /\ UNCHANGED <<client, pool>>
  /\ UNCHANGED <<cap, response, stmt, db, failures>>

\* BEGIN joins a transaction that is already open on the client.
Begin(r) ==
  /\ pc[r] = "begin"
  /\ \/ /\ tx[client[r]] = "aborted"
        /\ pc' = [pc EXCEPT ![r] = "catch"]
        /\ UNCHANGED tx
     \/ /\ tx[client[r]] # "aborted"
        /\ tx' = [tx EXCEPT ![client[r]] = "open"]
        /\ pc' = [pc EXCEPT ![r] = "check"]
  /\ UNCHANGED <<cap, attempt, response, effect, client, stmt, pool, pending, durable, failures>>

\* The end of an iteration: the finally clause, and whether the loop goes on.
EndAttempt(r, returns, used) ==
  /\ client' = [client EXCEPT ![r] = NoConn]
  /\ GiveBack(used \cup {client[r]})
  /\ pc' = [pc EXCEPT ![r] = IF returns \/ attempt[r] = cap[r].attempts THEN "done" ELSE "attempt"]

\* Mutant of Refuse: the response is sent and the handler goes on.
RefuseWithoutReturn(r, c) ==
  /\ Answer(r, "refused")
  /\ pc' = [pc EXCEPT ![r] = "effect"]
  /\ GiveBack({c}) /\ UNCHANGED client

\* return res.status(404 or 422).json(...), out of the try block and the loop.
Refuse(r, c) == Answer(r, "refused") /\ EndAttempt(r, TRUE, {c})

\* Fetch the entities and evaluate the preconditions on what was fetched.
Check(r) ==
  /\ pc[r] = "check"
  /\ \/ /\ ~cap[r].guarded
        /\ pc' = [pc EXCEPT ![r] = "effect"]
        /\ UNCHANGED <<response, client, pool>>
     \/ /\ cap[r].guarded
        /\ \E c \in Conns :
             /\ Available(c)
             /\ open' = open \cup {c}
             /\ \/ /\ tx[c] # "aborted" /\ ~Holds(c) /\ ~Sent(r)
                   /\ Refuse(r, c)
                \/ /\ tx[c] # "aborted" => Holds(c) \/ Sent(r)
                   /\ pc' = [pc EXCEPT ![r] = IF tx[c] # "aborted" /\ Holds(c)
                                                THEN "effect" ELSE "catch"]
                   /\ GiveBack({c})
                   /\ UNCHANGED <<response, client>>
  /\ UNCHANGED <<cap, attempt, effect, stmt, db, failures>>

\* The SELECT of a fetch fails, on the client it has checked out.
CheckFails(r) ==
  /\ pc[r] = "check" /\ cap[r].guarded
  /\ failures < MaxFailures /\ failures' = failures + 1
  /\ \E c \in Conns : Available(c) /\ open' = open \cup {c} /\ GiveBack({c}) /\ AbortTx(c)
  /\ pc' = [pc EXCEPT ![r] = "catch"]
  /\ UNCHANGED <<cap, attempt, response, effect, client, stmt>>

\* A pool.query() takes a client and may then wait for a row lock on it.
Issue(r) ==
  /\ \/ pc[r] = "effect"
     \/ pc[r] = "publish" /\ ~Transactional(r)
  /\ stmt[r] = NoConn
  /\ \E c \in Conns : Available(c) /\ CheckOut(c) /\ stmt' = [stmt EXCEPT ![r] = c]
  /\ UNCHANGED <<cap, pc, attempt, response, effect, client, db, failures>>

\* Mutant of EffectRuns: the event is published before the last effect.
EffectRunsEarlyPublish(r) ==
  /\ pc[r] = "effect" /\ stmt[r] # NoConn
  /\ ~RowLocked(effect[r], stmt[r])
  /\ Write(stmt[r], <<r, effect[r]>>)
  /\ IF effect[r] + 1 >= NumEffects
       THEN pc' = [pc EXCEPT ![r] = "publish"] /\ UNCHANGED effect
       ELSE effect' = [effect EXCEPT ![r] = @ + 1] /\ UNCHANGED pc
  /\ GiveBack({stmt[r]}) /\ stmt' = [stmt EXCEPT ![r] = NoConn]
  /\ UNCHANGED <<cap, attempt, response, client, open, failures>>

EffectRuns(r) ==
  /\ pc[r] = "effect" /\ stmt[r] # NoConn
  /\ ~RowLocked(effect[r], stmt[r])
  /\ Write(stmt[r], <<r, effect[r]>>)
  /\ IF effect[r] = NumEffects
       THEN pc' = [pc EXCEPT ![r] = "publish"] /\ UNCHANGED effect
       ELSE effect' = [effect EXCEPT ![r] = @ + 1] /\ UNCHANGED pc
  /\ GiveBack({stmt[r]}) /\ stmt' = [stmt EXCEPT ![r] = NoConn]
  /\ UNCHANGED <<cap, attempt, response, client, open, failures>>

\* A statement of an aborted transaction fails; any other may: an SQL error,
\* the victim of a deadlock, or ("no_row") an effect that updates nothing.
StatementFails(r, how) ==
  LET c == IF stmt[r] # NoConn THEN stmt[r] ELSE client[r] IN
  /\ \/ pc[r] = "effect" /\ stmt[r] # NoConn
     \/ pc[r] = "publish" /\ c # NoConn /\ how = "error"
  /\ \/ tx[c] = "aborted" /\ how = "error" /\ UNCHANGED failures
     \/ tx[c] # "aborted" /\ failures < MaxFailures /\ failures' = failures + 1
  /\ IF how = "error" THEN AbortTx(c) ELSE UNCHANGED db
  /\ GiveBack({stmt[r]}) /\ stmt' = [stmt EXCEPT ![r] = NoConn]
  /\ pc' = [pc EXCEPT ![r] = "catch"]
  /\ UNCHANGED <<cap, attempt, response, effect, client, open>>

\* Mutant of Publish: a second response is sent instead of throwing.
PublishSendsTwice(r) ==
  LET c == IF Transactional(r) THEN client[r] ELSE stmt[r] IN
  /\ pc[r] = "publish" /\ c # NoConn
  /\ Write(c, <<r, EventRow>>)
  /\ stmt' = [stmt EXCEPT ![r] = NoConn]
  /\ Answer(r, "ok")
  /\ \/ ~Transactional(r) /\ EndAttempt(r, FALSE, {c})
     \/ Transactional(r) /\ pc' = [pc EXCEPT ![r] = "commit"] /\ UNCHANGED <<client, idle>>
  /\ UNCHANGED <<cap, attempt, effect, open, failures>>

\* eventBus.publish(), and in the same turn res.json(), which throws once the
\* headers are sent.  A transactional route goes on to COMMIT.
Publish(r) ==
  LET c == IF Transactional(r) THEN client[r] ELSE stmt[r] IN
  /\ pc[r] = "publish" /\ c # NoConn
  /\ Write(c, <<r, EventRow>>)
  /\ stmt' = [stmt EXCEPT ![r] = NoConn]
  /\ Answer(r, "ok")
  /\ \/ /\ ~Transactional(r) /\ ~Sent(r)
        /\ EndAttempt(r, FALSE, {c})
     \/ /\ Transactional(r) \/ Sent(r)
        /\ pc' = [pc EXCEPT ![r] = IF Sent(r) THEN "catch" ELSE "commit"]
        /\ GiveBack({stmt[r]}) /\ UNCHANGED client
  /\ UNCHANGED <<cap, attempt, effect, open, failures>>

Commit(r) ==
  /\ pc[r] = "commit"
  /\ EndTx(client[r], TRUE)
  /\ EndAttempt(r, FALSE, {})
  /\ UNCHANGED <<cap, attempt, response, effect, stmt, open, failures>>

\* COMMIT is refused: the server has rolled back.
CommitFails(r) ==
  /\ pc[r] = "commit" /\ failures < MaxFailures
  /\ failures' = failures + 1
  /\ EndTx(client[r], FALSE)
  /\ pc' = [pc EXCEPT ![r] = "catch"]
  /\ UNCHANGED <<cap, attempt, response, effect, client, stmt, pool>>

\* Mutant of Catch: there is no ROLLBACK.
CatchWithoutRollback(r) ==
  /\ pc[r] = "catch"
  /\ Answer(r, "failed")
  /\ EndAttempt(r, FALSE, {})
  /\ UNCHANGED <<cap, attempt, effect, stmt, open, db, failures>>

\* Mutant of Catch: the error is logged and nothing is sent.
CatchSilently(r) ==
  /\ pc[r] = "catch"
  /\ IF Transactional(r) THEN EndTx(client[r], FALSE) ELSE UNCHANGED db
  /\ EndAttempt(r, FALSE, {})
  /\ UNCHANGED <<cap, attempt, response, effect, stmt, open, failures>>

\* ROLLBACK, the 400 unless something was sent, and the finally clause.
Catch(r) ==
  /\ pc[r] = "catch"
  /\ IF Transactional(r) THEN EndTx(client[r], FALSE) ELSE UNCHANGED db
  /\ Answer(r, "failed")
  /\ EndAttempt(r, FALSE, {})
  /\ UNCHANGED <<cap, attempt, effect, stmt, open, failures>>

\* The timeout middleware answers; the handler goes on.
TimeOut(r) ==
  /\ MayTimeOut
  /\ pc[r] \notin {"new", "done"} /\ ~Sent(r)
  /\ Answer(r, "timeout")
  /\ UNCHANGED <<cap, pc, attempt, effect, client, stmt, pool, db, failures>>

CloseIdle(c) ==
  /\ c \in idle
  /\ open' = open \ {c} /\ idle' = idle \ {c}
  /\ EndTx(c, FALSE)
  /\ UNCHANGED <<request, failures>>

Handler(r) ==
  \/ StartAttempt(r) \/ Begin(r) \/ Check(r) \/ CheckFails(r) \/ Issue(r)
  \/ EffectRuns(r)
  \/ StatementFails(r, "error") \/ StatementFails(r, "no_row")
  \/ Publish(r) \/ Commit(r) \/ CommitFails(r) \/ Catch(r)

Next ==
  \/ \E r \in Requests : Arrive(r) \/ Handler(r) \/ TimeOut(r)
  \/ \E c \in Conns : CloseIdle(c)

Spec == Init /\ [][Next]_vars

(* A handler that can go on does; an idle client is closed by its timer.    *)
FairSpec == Spec /\ (\A r \in Requests : WF_vars(Handler(r)))
                 /\ (\A c \in Conns : WF_vars(CloseIdle(c)))

-----------------------------------------------------------------------------
(* Properties *)

Responses == {"none", "ok", "refused", "failed", "timeout"}

\* The request, pool and database variables stay in their domains.
TypeOK ==
  /\ pc \in [Requests -> {"new", "attempt", "begin", "check", "effect", "publish",
                          "commit", "catch", "done"}]
  /\ cap \in [Requests -> Capabilities]
  /\ attempt \in [Requests -> Nat] /\ \A r \in Requests : attempt[r] <= cap[r].attempts
  /\ response \in [Requests -> Responses]
  /\ effect \in [Requests -> Effects]
  /\ client \in [Requests -> Conns \cup {NoConn}]
  /\ stmt \in [Requests -> Conns \cup {NoConn}]
  /\ open \in SUBSET Conns /\ idle \in SUBSET Conns
  /\ tx \in [Conns -> {"none", "open", "aborted"}]
  /\ pending \in [Conns -> [Writes -> Nat]]
  /\ durable \in [Writes -> Nat]
  /\ failures \in 0 .. MaxFailures

HeldBy(r) == {client[r], stmt[r]} \ {NoConn}

\* Every connected client is either idle or held by exactly one request, for
\* its transaction or for one statement; a request that is done holds none:
\* whatever fails, times out or returns early, the pool gets its clients back.
NoClientLeaks ==
  /\ open \ idle = UNION {HeldBy(r) : r \in Requests}
  /\ idle \subseteq open
  /\ \A r, s \in Requests : r # s => HeldBy(r) \cap HeldBy(s) = {}
  /\ \A r \in Requests : client[r] = NoConn \/ client[r] # stmt[r]
  /\ \A r \in Requests : pc[r] = "done" => HeldBy(r) = {}

TransactionLeaked == \E r \in Requests : Transactional(r) /\ response[r] = "refused"

\* A client goes back to the pool with a transaction still open only after a
\* 404 or 422 of a transactional capability: every error path, a late answer
\* and a retry end theirs.
OnlyRefusalsLeak ==
  \A c \in idle : tx[c] # "none" => TransactionLeaked

\* A request that was refused has written nothing, on any connection.
RefusedChangesNothing ==
  \A r \in Requests : response[r] = "refused" =>
    \A k \in Effects \cup {EventRow} :
      durable[r, k] = 0 /\ \A c \in Conns : pending[c][r, k] = 0

\* However often the body runs again, a transactional capability leaves at most
\* one event: the second run cannot send a response, and so does not commit.
EventAtMostOnce ==
  \A r \in Requests : Transactional(r) => durable[r, EventRow] <= 1

\* As long as no transactional request has been refused, a committed event and
\* an ok response each stand for effects that are all committed.
SuccessMeansEffects ==
  ~TransactionLeaked =>
    \A r \in Requests : durable[r, EventRow] > 0 \/ response[r] = "ok" =>
      \A k \in Effects : durable[r, k] > 0

\* Every handler ends, and with an answer, unless a transactional request is
\* refused: with more clients in the pool than concurrent requests nobody waits
\* forever for a client or for a row.
EveryRequestEnds ==
  \A r \in Requests :
    pc[r] = "attempt" ~> (pc[r] = "done" /\ Sent(r)) \/ TransactionLeaked

\* README.md:102 "sync: transactional means the capability runs in a DB
\* transaction": a transactional capability that failed has changed nothing.
FailedChangesNothing ==
  \A r \in Requests : Transactional(r) /\ pc[r] = "done" /\ response[r] = "failed" =>
    \A k \in Effects : durable[r, k] = 0
=============================================================================
