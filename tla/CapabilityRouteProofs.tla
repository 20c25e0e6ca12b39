------------------------ MODULE CapabilityRouteProofs ------------------------
(***************************************************************************)
(* Proofs about CapabilityRoute for any requests, capabilities, pool size  *)
(* and number of effects, failures and retries.                            *)
(***************************************************************************)
EXTENDS CapabilityRoute, TLAPS

Types ==
  /\ cap \in [Requests -> Capabilities]
  /\ pc \in [Requests -> {"new", "attempt", "begin", "check", "effect", "publish",
                          "commit", "catch", "done"}]
  /\ response \in [Requests -> Responses]
  /\ client \in [Requests -> Conns \cup {NoConn}]
  /\ stmt \in [Requests -> Conns \cup {NoConn}]
  /\ open \in SUBSET Conns /\ idle \in SUBSET Conns

Uses(r, c) == c = client[r] \/ c = stmt[r]

\* When a request holds clients: the transaction's from its checkout to the end
\* of the attempt, a statement's while the statement runs.
Place(r) ==
  /\ client[r] = NoConn \/ client[r] # stmt[r]
  /\ pc[r] \in {"new", "attempt", "done"} => client[r] = NoConn
  /\ stmt[r] # NoConn => pc[r] \in {"effect", "publish"}

Ownership ==
  /\ idle \subseteq open
  /\ \A c \in Conns : c \in open \ idle <=> \E r \in Requests : Uses(r, c)
  /\ \A c \in Conns : \A r, s \in Requests : Uses(r, c) /\ Uses(s, c) => r = s
  /\ \A r \in Requests : Place(r)

OthersKeep(r) ==
  \A s \in Requests \ {r} : pc'[s] = pc[s] /\ client'[s] = client[s] /\ stmt'[s] = stmt[s]

Pool == Types /\ Ownership

\* No client is connected at first.
LEMMA PoolInit == Init => Pool
  BY CapabilityAssumption
  DEF Init, Pool, Types, Ownership, Place, Uses, Responses

\* A step that moves a request on and leaves all clients where they are.
LEMMA KeepClients ==
  ASSUME Pool, NEW r \in Requests,
         pc' \in [Requests -> {"new", "attempt", "begin", "check", "effect", "publish",
                               "commit", "catch", "done"}],
         \A s \in Requests \ {r} : pc'[s] = pc[s],
         pc'[r] \in {"new", "attempt", "done"} => client[r] = NoConn,
         stmt[r] # NoConn => pc'[r] \in {"effect", "publish"},
         response' \in [Requests -> Responses],
         cap' = cap, client' = client, stmt' = stmt, open' = open, idle' = idle
  PROVE  Pool'
<1>1. Types'
  BY DEF Pool, Types
<1>2. Ownership'
  <2>1. \A s \in Requests : pc'[s] \in {"new", "attempt", "done"} => client[s] = NoConn
    BY DEF Pool, Ownership, Place
  <2>2. \A s \in Requests : stmt[s] # NoConn => pc'[s] \in {"effect", "publish"}
    BY DEF Pool, Ownership, Place
  <2>3. QED
    BY <2>1, <2>2 DEF Pool, Ownership, Place, Uses
<1>3. QED
  BY <1>1, <1>2 DEF Pool

\* A step that takes an available client out, for the transaction or for a
\* statement of one request.
LEMMA TakeClient ==
  ASSUME Pool, NEW r \in Requests, NEW c \in Conns, Available(c), CheckOut(c),
         \/ /\ client[r] = NoConn /\ client' = [client EXCEPT ![r] = c] /\ stmt' = stmt
            /\ stmt[r] = NoConn
            /\ pc' = [pc EXCEPT ![r] = "begin"]
         \/ /\ stmt[r] = NoConn /\ stmt' = [stmt EXCEPT ![r] = c] /\ client' = client
            /\ pc[r] \in {"effect", "publish"} /\ pc' = pc,
         response' = response, cap' = cap
  PROVE  Pool'
<1>1. Types'
  BY DEF Pool, Types, CheckOut
<1>2. c \notin open \ idle
  BY DEF Available, Pool, Types
<1>3. \A s \in Requests : ~Uses(s, c)
  BY <1>2 DEF Pool, Ownership, Place
<1>4. c # NoConn
  BY CapabilityAssumption
<1>5. open' = open \cup {c} /\ idle' = idle \ {c}
  BY DEF CheckOut
<1>6. /\ \A d \in Conns \ {c} : \A s \in Requests : Uses(s, d)' <=> Uses(s, d)
      /\ \A s \in Requests : Uses(s, c)' <=> s = r
  BY <1>3, CapabilityAssumption DEF Uses, Pool, Types
<1>7. \A d \in Conns : d \in open' \ idle' <=> \E s \in Requests : Uses(s, d)'
  BY <1>5, <1>6 DEF Pool, Ownership, Place
<1>8. \A d \in Conns : \A s, t \in Requests : Uses(s, d)' /\ Uses(t, d)' => s = t
  BY <1>6 DEF Pool, Ownership, Place
<1>9. \A s \in Requests : client'[s] = NoConn \/ client'[s] # stmt'[s]
  BY <1>3, <1>4 DEF Pool, Types, Ownership, Place, Uses
<1>10. /\ \A s \in Requests : pc'[s] \in {"new", "attempt", "done"} => client'[s] = NoConn
       /\ \A s \in Requests : stmt'[s] # NoConn => pc'[s] \in {"effect", "publish"}
  BY DEF Pool, Types, Ownership, Place
<1>11. QED
  BY <1>1, <1>5, <1>7, <1>8, <1>9, <1>10 DEF Pool, Ownership, Place

\* A step that gives clients back: those one request no longer uses, and one it
\* has opened for the length of the step.
LEMMA ReturnClients ==
  ASSUME Pool, Types', NEW r \in Requests, OthersKeep(r), Place(r)',
         NEW back \in SUBSET Conns, idle' = idle \cup back, open' = open \cup back,
         \A d \in back : \A s \in Requests \ {r} : ~Uses(s, d),
         \A d \in Conns : Uses(r, d)' <=> Uses(r, d) /\ d \notin back
  PROVE  Pool'
<1>1. \A d \in Conns : \A s \in Requests \ {r} : Uses(s, d)' <=> Uses(s, d)
  BY DEF Uses, OthersKeep
<1>2. idle' \subseteq open'
  BY DEF Pool, Ownership
<1>3. ASSUME NEW d \in Conns
      PROVE  d \in open' \ idle' <=> \E s \in Requests : Uses(s, d)'
  <2>1. CASE d \in back
    BY <2>1, <1>1
  <2>2. CASE d \notin back
    BY <2>2, <1>1 DEF Pool, Ownership
  <2>3. QED
    BY <2>1, <2>2
<1>4. \A d \in Conns : \A s, t \in Requests : Uses(s, d)' /\ Uses(t, d)' => s = t
  BY <1>1 DEF Pool, Ownership
<1>5. \A s \in Requests : Place(s)'
  BY DEF Place, OthersKeep, Pool, Ownership
<1>6. QED
  BY <1>2, <1>3, <1>4, <1>5 DEF Pool, Ownership

-----------------------------------------------------------------------------
(* The steps of a request *)

\* An attempt of a transactional request takes the client of its transaction.
LEMMA StartAttemptPool ==
  ASSUME Pool, NEW r \in Requests, StartAttempt(r)
  PROVE  Pool'
<1>1. stmt[r] = NoConn /\ client[r] = NoConn
  BY DEF StartAttempt, Pool, Ownership, Place
<1>2. CASE Transactional(r)
  <2>1. PICK c \in Conns : /\ Available(c) /\ CheckOut(c)
                           /\ client' = [client EXCEPT ![r] = c]
    BY <1>2 DEF StartAttempt
  <2>2. pc' = [pc EXCEPT ![r] = "begin"] /\ response' = response /\ cap' = cap /\ stmt' = stmt
    BY <1>2 DEF StartAttempt
  <2>3. QED
    BY <1>1, <2>1, <2>2, TakeClient
<1>3. CASE ~Transactional(r)
  BY <1>1, <1>3, KeepClients DEF StartAttempt, pool, Pool, Types
<1>4. QED
  BY <1>2, <1>3

\* BEGIN fails on an aborted transaction with the client still held.
LEMMA BeginPool ==
  ASSUME Pool, NEW r \in Requests, Begin(r)
  PROVE  Pool'
  BY KeepClients DEF Begin, pool, Pool, Types, Ownership, Place

\* A checkout for the length of one action: the client goes straight back.
LEMMA CheckPool ==
  ASSUME Pool, NEW r \in Requests, Check(r)
  PROVE  Pool'
<1>1. stmt[r] = NoConn /\ cap' = cap /\ stmt' = stmt
  BY DEF Check, Pool, Ownership, Place
<1>2. CASE ~cap[r].guarded
  BY <1>1, <1>2, KeepClients DEF Check, pool, Pool, Types
<1>3. CASE cap[r].guarded
  <2>1. PICK c \in Conns :
          /\ Available(c)
          /\ open' = open \cup {c}
          /\ \/ Refuse(r, c)
             \/ /\ pc' = [pc EXCEPT ![r] = IF tx[c] # "aborted" /\ Holds(c)
                                             THEN "effect" ELSE "catch"]
                /\ GiveBack({c})
                /\ UNCHANGED <<response, client>>
    BY <1>3 DEF Check
  <2>2. c \notin open \ idle /\ c # NoConn
    BY <2>1, CapabilityAssumption DEF Available, Pool, Types
  <2>3. \A s \in Requests : ~Uses(s, c)
    BY <2>2 DEF Pool, Ownership, Place
  <2>4. CASE Refuse(r, c)
    <3> DEFINE back == {c, client[r]} \ {NoConn}
    <3>1. /\ client' = [client EXCEPT ![r] = NoConn]
          /\ idle' = idle \cup back
          /\ pc' = [pc EXCEPT ![r] = "done"]
          /\ response' = [response EXCEPT ![r] = IF Sent(r) THEN @ ELSE "refused"]
      <4>1. {c} \cup {client[r]} = {c, client[r]}
        OBVIOUS
      <4>2. QED
        BY <2>4, <4>1 DEF Refuse, EndAttempt, Answer, GiveBack
    <3>2. back \in SUBSET Conns
      BY DEF Pool, Types
    <3>3. \A d \in back : d = c \/ Uses(r, d)
      BY DEF Uses
    <3>4. open' = open \cup back
      BY <2>1, <2>2, <3>2, <3>3 DEF Pool, Ownership
    <3>5. \A d \in back : \A s \in Requests \ {r} : ~Uses(s, d)
      BY <2>3, <3>2, <3>3 DEF Pool, Ownership
    <3>6. Types'
      <4>1. response' \in [Requests -> Responses]
        BY <3>1 DEF Pool, Types, Responses
      <4>2. open' \in SUBSET Conns /\ idle' \in SUBSET Conns
        BY <3>1, <3>2, <3>4 DEF Pool, Types
      <4>3. QED
        BY <1>1, <3>1, <4>1, <4>2 DEF Pool, Types
    <3>7. OthersKeep(r) /\ Place(r)' /\ \A d \in Conns : ~Uses(r, d)'
      BY <1>1, <3>1, CapabilityAssumption DEF OthersKeep, Place, Uses, Pool, Types
    <3>8. \A d \in Conns : Uses(r, d) => d \in back
      BY <1>1, CapabilityAssumption DEF Uses
    <3> HIDE DEF back
    <3>9. QED
      BY <3>1, <3>2, <3>4, <3>5, <3>6, <3>7, <3>8, ReturnClients
  <2>5. CASE /\ pc' = [pc EXCEPT ![r] = IF tx[c] # "aborted" /\ Holds(c)
                                          THEN "effect" ELSE "catch"]
             /\ GiveBack({c})
             /\ UNCHANGED <<response, client>>
    <3>1. idle' = idle \cup {c} /\ {c} \in SUBSET Conns
      BY <2>2, <2>5 DEF GiveBack
    <3>2. Types'
      BY <1>1, <2>1, <2>5, <3>1 DEF Pool, Types
    <3>3. OthersKeep(r) /\ Place(r)'
      BY <1>1, <2>5 DEF OthersKeep, Place, Pool, Ownership, Types
    <3>4. \A d \in Conns : Uses(r, d)' <=> Uses(r, d) /\ d \notin {c}
      BY <1>1, <2>3, <2>5 DEF Uses
    <3>5. QED
      BY <2>1, <2>3, <3>1, <3>2, <3>3, <3>4, ReturnClients
  <2>6. QED
    BY <2>1, <2>4, <2>5
<1>4. QED
  BY <1>2, <1>3

\* So it does when the SELECT on it fails.
LEMMA CheckFailsPool ==
  ASSUME Pool, NEW r \in Requests, CheckFails(r)
  PROVE  Pool'
<1>1. PICK c \in Conns : Available(c) /\ open' = open \cup {c} /\ GiveBack({c})
  BY DEF CheckFails
<1>2. /\ stmt[r] = NoConn /\ pc[r] = "check" /\ pc' = [pc EXCEPT ![r] = "catch"]
      /\ UNCHANGED <<cap, response, client, stmt>>
  BY DEF CheckFails, Pool, Ownership, Place
<1>3. c \notin open \ idle /\ c # NoConn
  BY <1>1, CapabilityAssumption DEF Available, Pool, Types
<1>4. \A s \in Requests : ~Uses(s, c)
  BY <1>3 DEF Pool, Ownership, Place
<1>5. idle' = idle \cup {c} /\ {c} \in SUBSET Conns
  BY <1>1, <1>3 DEF GiveBack
<1>6. Types'
  BY <1>1, <1>2, <1>5 DEF Pool, Types
<1>7. OthersKeep(r) /\ Place(r)'
  BY <1>2 DEF OthersKeep, Place, Pool, Ownership, Types
<1>8. \A d \in Conns : Uses(r, d)' <=> Uses(r, d) /\ d \notin {c}
  BY <1>2, <1>4 DEF Uses
<1>9. QED
  BY <1>1, <1>4, <1>5, <1>6, <1>7, <1>8, ReturnClients

\* A statement takes a client of its own.
LEMMA IssuePool ==
  ASSUME Pool, NEW r \in Requests, Issue(r)
  PROVE  Pool'
<1>1. PICK c \in Conns : Available(c) /\ CheckOut(c) /\ stmt' = [stmt EXCEPT ![r] = c]
  BY DEF Issue
<1>2. /\ stmt[r] = NoConn /\ client' = client /\ pc[r] \in {"effect", "publish"}
      /\ pc' = pc /\ response' = response /\ cap' = cap
  BY DEF Issue
<1>3. QED
  BY <1>1, <1>2, TakeClient

\* The end of a statement: its client, if it has one, goes back and the request
\* moves on.
LEMMA StatementEnds ==
  ASSUME Pool, NEW r \in Requests, GiveBack({stmt[r]}),
         stmt' = [stmt EXCEPT ![r] = NoConn], client' = client, open' = open, cap' = cap,
         \A s \in Requests \ {r} : pc'[s] = pc[s],
         pc' \in [Requests -> {"new", "attempt", "begin", "check", "effect", "publish",
                               "commit", "catch", "done"}],
         pc'[r] \notin {"new", "attempt", "done"},
         response' \in [Requests -> Responses]
  PROVE  Pool'
<1> DEFINE back == {stmt[r]} \ {NoConn}
<1>1. idle' = idle \cup back /\ back \in SUBSET Conns
  BY DEF GiveBack, Pool, Types
<1>2. open' = open \cup back /\ \A d \in back : \A s \in Requests \ {r} : ~Uses(s, d)
  BY <1>1 DEF Pool, Ownership, Uses
<1>3. Types'
  BY <1>1 DEF Pool, Types
<1>4. OthersKeep(r) /\ Place(r)'
  BY DEF OthersKeep, Place, Pool, Types
<1>5. \A d \in Conns : Uses(r, d)' <=> Uses(r, d) /\ d \notin back
  BY CapabilityAssumption DEF Uses, Pool, Types, Ownership, Place
<1> HIDE DEF back
<1>6. QED
  BY <1>1, <1>2, <1>3, <1>4, <1>5, ReturnClients

\* The client of an effect goes back when its statement is done.
LEMMA EffectRunsPool ==
  ASSUME Pool, NEW r \in Requests, EffectRuns(r)
  PROVE  Pool'
<1>1. pc[r] = "effect" /\ (pc' = pc \/ pc' = [pc EXCEPT ![r] = "publish"])
  BY DEF EffectRuns
<1>2. QED
  BY <1>1, StatementEnds DEF EffectRuns, Pool, Types

\* The client of a statement that failed goes back too.
LEMMA StatementFailsPool ==
  ASSUME Pool, NEW r \in Requests, NEW how, StatementFails(r, how)
  PROVE  Pool'
  BY StatementEnds DEF StatementFails, Pool, Types

\* The end of an attempt, after which the request holds nothing.
LEMMA AttemptEnds ==
  ASSUME Pool, NEW r \in Requests, NEW used, EndAttempt(r, FALSE, used),
         used \ {NoConn} = {stmt[r]} \ {NoConn},
         stmt' = [stmt EXCEPT ![r] = NoConn], open' = open, cap' = cap,
         response' \in [Requests -> Responses]
  PROVE  Pool'
<1> DEFINE back == (used \cup {client[r]}) \ {NoConn}
<1>1. /\ client' = [client EXCEPT ![r] = NoConn]
      /\ idle' = idle \cup back
      /\ pc' = [pc EXCEPT ![r] = "done"] \/ pc' = [pc EXCEPT ![r] = "attempt"]
  BY DEF EndAttempt, GiveBack
<1>2. back \in SUBSET Conns
  BY DEF Pool, Types
<1>3. \A d \in Conns : d \in back <=> Uses(r, d)
  BY CapabilityAssumption DEF Uses
<1>4. open' = open \cup back /\ \A d \in back : \A s \in Requests \ {r} : ~Uses(s, d)
  BY <1>2, <1>3 DEF Pool, Ownership
<1>5. Types'
  BY <1>1, <1>2 DEF Pool, Types
<1>6. OthersKeep(r) /\ Place(r)' /\ \A d \in Conns : ~Uses(r, d)'
  BY <1>1, CapabilityAssumption DEF OthersKeep, Place, Uses, Pool, Types
<1> HIDE DEF back
<1>7. QED
  BY <1>1, <1>2, <1>3, <1>4, <1>5, <1>6, ReturnClients

\* A response is one of the responses.
LEMMA AnswerType ==
  ASSUME Types, NEW r \in Requests, NEW what \in Responses, Answer(r, what)
  PROVE  response' \in [Requests -> Responses]
  BY DEF Types, Answer

\* The event is published on the transaction's client, or on one of its own.
LEMMA PublishPool ==
  ASSUME Pool, NEW r \in Requests, Publish(r)
  PROVE  Pool'
<1>1. /\ stmt' = [stmt EXCEPT ![r] = NoConn] /\ open' = open /\ cap' = cap
      /\ response' \in [Requests -> Responses]
  BY AnswerType DEF Publish, Pool, Responses
<1>2. CASE ~Transactional(r) /\ ~Sent(r) /\ EndAttempt(r, FALSE, {stmt[r]})
  BY <1>1, <1>2, AttemptEnds
<1>3. CASE /\ pc' = [pc EXCEPT ![r] = IF Sent(r) THEN "catch" ELSE "commit"]
           /\ GiveBack({stmt[r]}) /\ UNCHANGED client
  BY <1>1, <1>3, StatementEnds DEF Pool, Types
<1>4. QED
  BY <1>2, <1>3 DEF Publish

\* COMMIT, or ROLLBACK, and then the finally clause.
LEMMA CommitPool ==
  ASSUME Pool, NEW r \in Requests, Commit(r) \/ Catch(r)
  PROVE  Pool'
<1>1. pc[r] \in {"commit", "catch"} /\ stmt' = stmt /\ open' = open /\ cap' = cap
  BY DEF Commit, Catch
<1>2. stmt[r] = NoConn /\ stmt' = [stmt EXCEPT ![r] = NoConn]
  BY <1>1 DEF Pool, Types, Ownership, Place
<1>3. response' \in [Requests -> Responses]
  BY AnswerType DEF Commit, Catch, Pool, Types, Responses
<1>4. EndAttempt(r, FALSE, {}) /\ {} \ {NoConn} = {stmt[r]} \ {NoConn}
  BY <1>2 DEF Commit, Catch
<1>5. QED
  BY <1>1, <1>2, <1>3, <1>4, AttemptEnds

\* Arrivals, refused commits and timeouts move no client.
LEMMA OtherStepsPool ==
  ASSUME Pool, NEW r \in Requests, Arrive(r) \/ CommitFails(r) \/ TimeOut(r)
  PROVE  Pool'
<1>1. CASE Arrive(r)
  BY <1>1, KeepClients DEF Arrive, pool, Pool, Types, Ownership, Place
<1>2. CASE CommitFails(r)
  BY <1>2, KeepClients DEF CommitFails, pool, Pool, Types, Ownership, Place
<1>3. CASE TimeOut(r)
  <2>1. response' \in [Requests -> Responses]
    BY <1>3, AnswerType DEF TimeOut, Pool, Responses
  <2>2. /\ pc' = pc /\ cap' = cap /\ client' = client /\ stmt' = stmt
        /\ open' = open /\ idle' = idle
    BY <1>3 DEF TimeOut, pool
  <2>3. QED
    BY <2>1, <2>2, KeepClients DEF Pool, Types, Ownership, Place
<1>4. QED
  BY <1>1, <1>2, <1>3

\* A client that is closed was idle.
LEMMA CloseIdlePool ==
  ASSUME Pool, NEW c \in Conns, CloseIdle(c)
  PROVE  Pool'
<1>1. /\ c \in idle /\ open' = open \ {c} /\ idle' = idle \ {c}
      /\ pc' = pc /\ client' = client /\ stmt' = stmt /\ response' = response /\ cap' = cap
  BY DEF CloseIdle, request
<1>2. Types'
  BY <1>1 DEF Pool, Types
<1>3. Ownership'
  BY <1>1 DEF Pool, Ownership, Place, Uses
<1>4. QED
  BY <1>2, <1>3 DEF Pool

-----------------------------------------------------------------------------
(* The theorem *)

\* Every step keeps the pool's books.
LEMMA PoolStep == Pool /\ [Next]_vars => Pool'
<1> SUFFICES ASSUME Pool, [Next]_vars
             PROVE  Pool'
  OBVIOUS
<1>1. ASSUME NEW r \in Requests, Arrive(r) \/ Handler(r) \/ TimeOut(r)
      PROVE  Pool'
  BY <1>1, StartAttemptPool, BeginPool, CheckPool, CheckFailsPool, IssuePool,
     EffectRunsPool, StatementFailsPool, PublishPool, CommitPool, OtherStepsPool DEF Handler
<1>2. ASSUME NEW c \in Conns, CloseIdle(c)
      PROVE  Pool'
  BY <1>2, CloseIdlePool
<1>3. CASE UNCHANGED vars
  BY <1>3 DEF vars, request, pool, Pool, Types, Ownership, Place, Uses
<1>4. QED
  BY <1>1, <1>2, <1>3 DEF Next

\* The books are those that the property speaks of.
LEMMA PoolShows == Pool => NoClientLeaks
<1> SUFFICES ASSUME Pool
             PROVE  NoClientLeaks
  OBVIOUS
<1>1. \A c \in Conns : \A r \in Requests : c \in HeldBy(r) <=> Uses(r, c)
  BY CapabilityAssumption DEF HeldBy, Uses
<1>2. \A r \in Requests : HeldBy(r) \subseteq Conns
  BY DEF HeldBy, Pool, Types
<1>3. open \ idle = UNION {HeldBy(r) : r \in Requests}
  BY <1>1, <1>2 DEF Pool, Types, Ownership, Place
<1>4. \A r, s \in Requests : r # s => HeldBy(r) \cap HeldBy(s) = {}
  BY <1>1, <1>2 DEF Pool, Ownership, Place
<1>5. \A r \in Requests : pc[r] = "done" => HeldBy(r) = {}
  BY DEF Pool, Ownership, Place, HeldBy
<1>6. QED
  BY <1>3, <1>4, <1>5 DEF NoClientLeaks, Pool, Ownership, Place

\* Whatever fails, times out, returns early or is retried, every client of the
\* pool is idle or held by exactly one running request, and a request that is
\* done holds none.
THEOREM ClientsNeverLeak == Spec => []NoClientLeaks
  BY PoolInit, PoolStep, PoolShows, PTL DEF Spec

-----------------------------------------------------------------------------
(* Refused requests and their writes *)

Rows == Effects \cup {EventRow}

\* A request that has written nothing, on any connection.
Clean(r) ==
  \A k \in Rows : durable[<<r, k>>] = 0 /\ \A c \in Conns : pending[c][<<r, k>>] = 0

\* Until a request has an answer, or reaches its effects, it is clean: an attempt
\* that wrote something ends with an answer, so a retry cannot be refused.
Turn(r) ==
  /\ pc[r] \in {"new", "attempt"} => attempt[r] < cap[r].attempts
  /\ pc[r] \in {"begin", "commit"} => Transactional(r)
  /\ Transactional(r) /\ pc[r] \notin {"new", "attempt", "done"} => client[r] # NoConn
  /\ pc[r] = "commit" => Sent(r)
  /\ response[r] = "refused" => pc[r] = "done" /\ Clean(r)
  /\ ~Sent(r) /\ pc[r] \in {"new", "attempt", "begin", "check"} => Clean(r)

RInv == TypeOK /\ \A r \in Requests : Turn(r)

\* Nobody has written, and everybody has an attempt.
LEMMA RInvInit == Init => RInv
<1> SUFFICES ASSUME Init
             PROVE  RInv
  OBVIOUS
<1>1. \A r \in Requests : cap[r] \in Capabilities /\ cap[r].attempts \in Nat \ {0}
  BY CapabilityAssumption DEF Init
<1>2. 1 \in Effects /\ NoWrites \in [Writes -> Nat]
  BY CapabilityAssumption DEF Effects, NoWrites
<1>3. TypeOK
  BY <1>1, <1>2, CapabilityAssumption DEF Init, TypeOK, Responses
<1>4. \A r \in Requests : Clean(r)
  BY DEF Init, Clean, Rows, NoWrites, Writes
<1>5. QED
  BY <1>1, <1>3, <1>4 DEF Init, RInv, Turn, Sent

\* What a statement, the end of a transaction or an error does to the data.
DataStep(r) ==
  /\ pending' \in [Conns -> [Writes -> Nat]]
  /\ durable' \in [Writes -> Nat]
  /\ tx' \in [Conns -> {"none", "open", "aborted"}]
  /\ \A s \in Requests \ {r} : Clean(s) => Clean(s)'

\* A write is one of request r, in a transaction or by itself.
LEMMA WriteData ==
  ASSUME TypeOK, NEW r \in Requests, NEW c \in Conns, NEW k \in Rows, Write(c, <<r, k>>)
  PROVE  DataStep(r)
<1>1. <<r, k>> \in Writes
  BY DEF Writes, Rows
<1>2. /\ pending \in [Conns -> [Writes -> Nat]] /\ durable \in [Writes -> Nat]
      /\ tx \in [Conns -> {"none", "open", "aborted"}]
  BY DEF TypeOK
<1>3. \A s \in Requests, j \in Rows : <<s, j>> \in Writes
  BY DEF Writes, Rows
<1>4. CASE /\ pending' = [pending EXCEPT ![c][<<r, k>>] = @ + 1]
           /\ UNCHANGED <<tx, durable>>
  <2>1. pending' \in [Conns -> [Writes -> Nat]]
    BY <1>1, <1>2, <1>4
  <2>2. \A s \in Requests \ {r} : \A j \in Rows : \A d \in Conns :
          pending'[d][<<s, j>>] = pending[d][<<s, j>>]
    BY <1>2, <1>3, <1>4
  <2>3. QED
    BY <1>2, <1>4, <2>1, <2>2 DEF DataStep, Clean
<1>5. CASE /\ durable' = [durable EXCEPT ![<<r, k>>] = @ + 1]
           /\ UNCHANGED <<tx, pending>>
  <2>1. durable' \in [Writes -> Nat]
    BY <1>1, <1>2, <1>5
  <2>2. \A s \in Requests \ {r} : \A j \in Rows : durable'[<<s, j>>] = durable[<<s, j>>]
    BY <1>2, <1>3, <1>5
  <2>3. QED
    BY <1>2, <1>5, <2>1, <2>2 DEF DataStep, Clean
<1>6. QED
  BY <1>4, <1>5 DEF Write

\* COMMIT and ROLLBACK make no write that was not pending.
LEMMA EndTxData ==
  ASSUME TypeOK, NEW c \in Conns, NEW keep \in BOOLEAN, EndTx(c, keep)
  PROVE  /\ pending' \in [Conns -> [Writes -> Nat]] /\ durable' \in [Writes -> Nat]
         /\ tx' \in [Conns -> {"none", "open", "aborted"}]
         /\ \A s \in Requests : Clean(s) => Clean(s)'
<1>1. /\ pending \in [Conns -> [Writes -> Nat]] /\ durable \in [Writes -> Nat]
      /\ tx \in [Conns -> {"none", "open", "aborted"}]
  BY DEF TypeOK
<1>2. NoWrites \in [Writes -> Nat] /\ \A w \in Writes : NoWrites[w] = 0
  BY DEF NoWrites
<1>3. pending' = [pending EXCEPT ![c] = NoWrites] /\ tx' = [tx EXCEPT ![c] = "none"]
  BY DEF EndTx
<1>4. /\ durable' \in [Writes -> Nat]
      /\ \A w \in Writes : durable'[w] = durable[w] + pending[c][w] \/ durable'[w] = durable[w]
  BY <1>1 DEF EndTx
<1>5. \A s \in Requests, j \in Rows : <<s, j>> \in Writes
  BY DEF Writes, Rows
<1>6. ASSUME NEW s \in Requests, Clean(s)
      PROVE  Clean(s)'
  <2>1. ASSUME NEW k \in Rows
        PROVE  durable'[<<s, k>>] = 0 /\ \A d \in Conns : pending'[d][<<s, k>>] = 0
    BY <1>1, <1>2, <1>3, <1>4, <1>5, <1>6 DEF Clean
  <2>2. QED
    BY <2>1 DEF Clean
<1>7. QED
  BY <1>1, <1>2, <1>3, <1>4, <1>6

\* An error only takes writes away.
LEMMA AbortData ==
  ASSUME TypeOK, NEW r \in Requests, NEW c \in Conns, AbortTx(c)
  PROVE  DataStep(r)
<1>1. /\ pending \in [Conns -> [Writes -> Nat]] /\ durable \in [Writes -> Nat]
      /\ tx \in [Conns -> {"none", "open", "aborted"}]
  BY DEF TypeOK
<1>2. NoWrites \in [Writes -> Nat] /\ \A w \in Writes : NoWrites[w] = 0
  BY DEF NoWrites
<1>3. pending' = [pending EXCEPT ![c] = NoWrites] /\ durable' = durable
  BY DEF AbortTx
<1>4. tx' \in [Conns -> {"none", "open", "aborted"}]
  BY <1>1 DEF AbortTx
<1>5. \A s \in Requests, j \in Rows : <<s, j>> \in Writes
  BY DEF Writes, Rows
<1>6. \A s \in Requests : Clean(s) => Clean(s)'
  BY <1>1, <1>2, <1>3, <1>5 DEF Clean
<1>7. QED
  BY <1>1, <1>2, <1>3, <1>4, <1>6 DEF DataStep

\* Most steps leave the data alone.
LEMMA SameData ==
  ASSUME TypeOK, NEW r \in Requests, UNCHANGED db
  PROVE  DataStep(r) /\ (Clean(r) => Clean(r)')
  BY DEF TypeOK, db, DataStep, Clean

\* Only request r moves: the others keep their turn.
MovesOnly(r) ==
  /\ cap' = cap
  /\ \A s \in Requests \ {r} : /\ pc'[s] = pc[s] /\ attempt'[s] = attempt[s]
                               /\ response'[s] = response[s] /\ client'[s] = client[s]

\* What one request does keeps the turn of the others.
LEMMA OneMoves ==
  ASSUME RInv, NEW r \in Requests, TypeOK', DataStep(r), MovesOnly(r), Turn(r)'
  PROVE  RInv'
<1>1. ASSUME NEW s \in Requests \ {r}
      PROVE  Turn(s)'
  BY DEF RInv, Turn, DataStep, MovesOnly, Sent, Transactional
<1>2. QED
  BY <1>1 DEF RInv

\* The end of an attempt: the request is done, or has an attempt left.
LEMMA AttemptEndsTurn ==
  ASSUME RInv, NEW r \in Requests, NEW returns \in BOOLEAN,
         NEW used \in SUBSET (Conns \cup {NoConn}), EndAttempt(r, returns, used)
  PROVE  /\ client' = [client EXCEPT ![r] = NoConn]
         /\ idle' \in SUBSET Conns
         /\ \/ pc' = [pc EXCEPT ![r] = "done"]
            \/ /\ pc' = [pc EXCEPT ![r] = "attempt"]
               /\ ~returns /\ attempt[r] < cap[r].attempts
<1>1. client[r] \in Conns \cup {NoConn} /\ idle \in SUBSET Conns
  BY DEF RInv, TypeOK
<1>2. idle' \in SUBSET Conns
  BY <1>1 DEF EndAttempt, GiveBack
<1>3. attempt[r] \in Nat /\ cap[r].attempts \in Nat /\ attempt[r] <= cap[r].attempts
  BY CapabilityAssumption DEF RInv, TypeOK
<1>4. CASE returns \/ attempt[r] = cap[r].attempts
  BY <1>2, <1>4 DEF EndAttempt
<1>5. CASE ~returns /\ attempt[r] # cap[r].attempts
  <2>1. attempt[r] < cap[r].attempts
    BY <1>3, <1>5
  <2>2. QED
    BY <1>2, <1>5, <2>1 DEF EndAttempt
<1>6. QED
  BY <1>4, <1>5

\* A request that arrives is clean.
LEMMA ArriveRInv ==
  ASSUME RInv, NEW r \in Requests, Arrive(r)
  PROVE  RInv'
<1>1. TypeOK'
  BY DEF RInv, TypeOK, Arrive, pool, db
<1>2. DataStep(r) /\ (Clean(r) => Clean(r)')
  BY SameData DEF RInv, Arrive
<1>3. MovesOnly(r)
  BY DEF Arrive, MovesOnly, RInv, TypeOK
<1>4. Turn(r)'
  <2>1. /\ pc[r] = "new" /\ pc'[r] = "attempt"
        /\ UNCHANGED <<cap, attempt, response, client>>
    BY DEF Arrive, RInv, TypeOK
  <2>2. QED
    BY <1>2, <2>1 DEF RInv, Turn, Sent, Transactional
<1>5. QED
  BY <1>1, <1>2, <1>3, <1>4, OneMoves

\* An attempt is counted before anything else.
LEMMA StartAttemptRInv ==
  ASSUME RInv, NEW r \in Requests, StartAttempt(r)
  PROVE  RInv'
<1>1. DataStep(r) /\ (Clean(r) => Clean(r)')
  BY SameData DEF RInv, StartAttempt
<1>2. /\ pc[r] = "attempt" /\ cap' = cap /\ response' = response /\ stmt' = stmt
      /\ attempt' = [attempt EXCEPT ![r] = @ + 1]
      /\ effect' = [effect EXCEPT ![r] = 1]
      /\ failures' = failures /\ tx' = tx /\ pending' = pending /\ durable' = durable
  BY DEF StartAttempt, db
<1>3. /\ attempt' \in [Requests -> Nat]
      /\ \A s \in Requests : attempt'[s] <= cap[s].attempts
      /\ effect' \in [Requests -> Effects]
  <2>1. attempt[r] \in Nat /\ cap[r].attempts \in Nat /\ attempt[r] < cap[r].attempts
    BY <1>2, CapabilityAssumption DEF RInv, TypeOK, Turn
  <2>2. 1 \in Effects
    BY CapabilityAssumption DEF Effects
  <2>3. QED
    BY <1>2, <2>1, <2>2 DEF RInv, TypeOK
<1>4. CASE /\ Transactional(r)
           /\ \E c \in Conns : CheckOut(c) /\ client' = [client EXCEPT ![r] = c]
           /\ pc' = [pc EXCEPT ![r] = "begin"]
  <2>1. TypeOK'
    BY <1>2, <1>3, <1>4 DEF RInv, TypeOK, CheckOut
  <2>2. MovesOnly(r)
    BY <1>2, <1>4 DEF MovesOnly, RInv, TypeOK
  <2>3. Turn(r)'
    BY <1>1, <1>2, <1>4, CapabilityAssumption DEF RInv, TypeOK, Turn, Sent, Transactional
  <2>4. QED
    BY <1>1, <2>1, <2>2, <2>3, OneMoves
<1>5. CASE ~Transactional(r) /\ pc' = [pc EXCEPT ![r] = "check"] /\ UNCHANGED <<client, pool>>
  <2>1. TypeOK'
    BY <1>2, <1>3, <1>5 DEF RInv, TypeOK, pool
  <2>2. MovesOnly(r)
    BY <1>2, <1>5 DEF MovesOnly, RInv, TypeOK
  <2>3. Turn(r)'
    BY <1>1, <1>2, <1>5 DEF RInv, TypeOK, Turn, Sent, Transactional
  <2>4. QED
    BY <1>1, <2>1, <2>2, <2>3, OneMoves
<1>6. QED
  BY <1>4, <1>5 DEF StartAttempt

\* BEGIN writes nothing.
LEMMA BeginRInv ==
  ASSUME RInv, NEW r \in Requests, Begin(r)
  PROVE  RInv'
<1>1. /\ pc[r] = "begin" /\ pending' = pending /\ durable' = durable
      /\ pc' = [pc EXCEPT ![r] = "catch"] \/ pc' = [pc EXCEPT ![r] = "check"]
      /\ UNCHANGED <<cap, attempt, response, effect, client, stmt, open, idle, failures>>
  BY DEF Begin, pool
<1>2. tx' \in [Conns -> {"none", "open", "aborted"}]
  BY DEF Begin, RInv, TypeOK
<1>3. DataStep(r) /\ (Clean(r) => Clean(r)')
  BY <1>1, <1>2 DEF RInv, TypeOK, DataStep, Clean
<1>4. TypeOK'
  BY <1>1, <1>2 DEF RInv, TypeOK
<1>5. MovesOnly(r)
  BY <1>1 DEF MovesOnly, RInv, TypeOK
<1>6. Turn(r)'
  BY <1>1, <1>3 DEF RInv, TypeOK, Turn, Sent, Transactional
<1>7. QED
  BY <1>3, <1>4, <1>5, <1>6, OneMoves

\* A refusal ends the handler, of a request that is clean.
LEMMA CheckRInv ==
  ASSUME RInv, NEW r \in Requests, Check(r)
  PROVE  RInv'
<1>1. /\ pc[r] = "check" /\ UNCHANGED <<cap, attempt, effect, stmt, tx, pending, durable, failures>>
      /\ DataStep(r) /\ (Clean(r) => Clean(r)')
  BY SameData DEF Check, RInv, db
<1>2. CASE /\ pc' = [pc EXCEPT ![r] = "effect"] \/ pc' = [pc EXCEPT ![r] = "catch"]
           /\ UNCHANGED <<response, client>>
           /\ open' \in SUBSET Conns /\ idle' \in SUBSET Conns
  <2>1. TypeOK'
    BY <1>1, <1>2 DEF RInv, TypeOK
  <2>2. MovesOnly(r)
    BY <1>1, <1>2 DEF MovesOnly, RInv, TypeOK
  <2>3. Turn(r)'
    BY <1>1, <1>2 DEF RInv, TypeOK, Turn, Sent, Transactional
  <2>4. QED
    BY <1>1, <2>1, <2>2, <2>3, OneMoves
<1>3. ASSUME NEW c \in Conns, open' = open \cup {c}, ~Sent(r), Refuse(r, c)
      PROVE  RInv'
  <2>1. /\ client' = [client EXCEPT ![r] = NoConn]
        /\ idle' \in SUBSET Conns
        /\ pc' = [pc EXCEPT ![r] = "done"]
    BY <1>3, AttemptEndsTurn DEF Refuse
  <2>2. response' = [response EXCEPT ![r] = "refused"]
    BY <1>3 DEF Refuse, Answer
  <2>3. Clean(r)'
    BY <1>1, <1>3 DEF RInv, Turn
  <2>4. TypeOK'
    BY <1>1, <1>3, <2>1, <2>2 DEF RInv, TypeOK, Responses
  <2>5. MovesOnly(r)
    BY <1>1, <2>1, <2>2 DEF MovesOnly, RInv, TypeOK
  <2>6. Turn(r)'
    BY <1>1, <2>1, <2>2, <2>3 DEF RInv, TypeOK, Turn, Sent, Transactional
  <2>7. QED
    BY <1>1, <2>4, <2>5, <2>6, OneMoves
<1>4. ASSUME NEW c \in Conns, open' = open \cup {c}, GiveBack({c}),
             pc' = [pc EXCEPT ![r] = IF tx[c] # "aborted" /\ Holds(c) THEN "effect" ELSE "catch"],
             UNCHANGED <<response, client>>
      PROVE  RInv'
  <2>1. open' \in SUBSET Conns /\ idle' \in SUBSET Conns
    BY <1>4 DEF RInv, TypeOK, GiveBack
  <2>2. QED
    BY <1>2, <1>4, <2>1
<1>5. CASE ~cap[r].guarded
  <2>1. open' \in SUBSET Conns /\ idle' \in SUBSET Conns
    BY <1>5 DEF Check, RInv, TypeOK, pool
  <2>2. QED
    BY <1>2, <1>5, <2>1 DEF Check
<1>6. QED
  BY <1>3, <1>4, <1>5 DEF Check

\* A SELECT that fails takes the request to its catch block.
LEMMA CheckFailsRInv ==
  ASSUME RInv, NEW r \in Requests, CheckFails(r)
  PROVE  RInv'
<1>1. /\ pc[r] = "check" /\ pc' = [pc EXCEPT ![r] = "catch"]
      /\ UNCHANGED <<cap, attempt, response, effect, client, stmt>>
  BY DEF CheckFails
<1>2. PICK c \in Conns : open' = open \cup {c} /\ GiveBack({c}) /\ AbortTx(c)
  BY DEF CheckFails
<1>3. DataStep(r)
  BY <1>2, AbortData DEF RInv
<1>4. failures' \in 0 .. MaxFailures
  BY CapabilityAssumption DEF CheckFails, RInv, TypeOK
<1>5. open' \in SUBSET Conns /\ idle' \in SUBSET Conns
  BY <1>2 DEF RInv, TypeOK, GiveBack
<1>6. TypeOK'
  BY <1>1, <1>3, <1>4, <1>5 DEF RInv, TypeOK, DataStep
<1>7. MovesOnly(r)
  BY <1>1 DEF MovesOnly, RInv, TypeOK
<1>8. Turn(r)'
  BY <1>1 DEF RInv, TypeOK, Turn, Sent, Transactional
<1>9. QED
  BY <1>3, <1>6, <1>7, <1>8, OneMoves

\* A step that takes or returns a client for a statement and writes nothing.
LEMMA IssueRInv ==
  ASSUME RInv, NEW r \in Requests, Issue(r)
  PROVE  RInv'
<1>1. /\ DataStep(r) /\ (Clean(r) => Clean(r)')
      /\ UNCHANGED <<cap, pc, attempt, response, effect, client, tx, pending, durable, failures>>
  BY SameData DEF Issue, RInv, db
<1>2. TypeOK'
  BY <1>1 DEF Issue, CheckOut, RInv, TypeOK
<1>3. MovesOnly(r) /\ Turn(r)'
  BY <1>1 DEF MovesOnly, RInv, Turn, Sent, Transactional
<1>4. QED
  BY <1>1, <1>2, <1>3, OneMoves

\* A request that is past its checks and moves on within the attempt.
LEMMA PastChecks ==
  ASSUME RInv, NEW r \in Requests, DataStep(r),
         pc[r] \in {"effect", "publish", "commit", "catch"},
         \E l \in {"effect", "publish", "commit", "catch"} :
           /\ pc' = [pc EXCEPT ![r] = l]
           /\ l = "commit" => Transactional(r) /\ Sent(r)',
         response' = response \/ response' = [response EXCEPT ![r] = "ok"],
         stmt' = [stmt EXCEPT ![r] = NoConn],
         effect' \in [Requests -> Effects], failures' \in 0 .. MaxFailures,
         idle' \in SUBSET Conns,
         UNCHANGED <<cap, attempt, client, open>>
  PROVE  RInv'
<1>1. response' \in [Requests -> Responses]
  BY DEF RInv, TypeOK, Responses
<1>2. TypeOK'
  <2>1. PICK l \in {"effect", "publish", "commit", "catch"} : pc' = [pc EXCEPT ![r] = l]
    OBVIOUS
  <2>2. /\ pc' \in [Requests -> {"new", "attempt", "begin", "check", "effect", "publish",
                                 "commit", "catch", "done"}]
        /\ stmt' \in [Requests -> Conns \cup {NoConn}]
    BY <2>1 DEF RInv, TypeOK
  <2>3. QED
    BY <1>1, <2>2 DEF RInv, TypeOK, DataStep
<1>3. MovesOnly(r)
  BY DEF MovesOnly, RInv, TypeOK
<1>4. response'[r] # "refused"
  BY DEF RInv, TypeOK, Turn
<1>5. Turn(r)'
  BY <1>4 DEF RInv, TypeOK, Turn, Sent, Transactional
<1>6. QED
  BY <1>2, <1>3, <1>5, OneMoves

\* An effect is past the checks.
LEMMA EffectRunsRInv ==
  ASSUME RInv, NEW r \in Requests, EffectRuns(r)
  PROVE  RInv'
<1>1. /\ pc[r] = "effect" /\ stmt[r] \in Conns /\ effect[r] \in Effects
      /\ NumEffects \in Nat /\ pc \in [Requests -> {"new", "attempt", "begin", "check",
                                 "effect", "publish", "commit", "catch", "done"}]
  BY CapabilityAssumption DEF EffectRuns, RInv, TypeOK
<1>2. DataStep(r)
  BY <1>1, WriteData DEF EffectRuns, RInv, Rows
<1>3. effect' \in [Requests -> Effects] /\ failures' \in 0 .. MaxFailures
  <2>1. effect[r] # NumEffects => effect[r] + 1 \in Effects
    BY <1>1 DEF Effects
  <2>2. QED
    BY <2>1 DEF EffectRuns, RInv, TypeOK
<1>4. idle' \in SUBSET Conns
  BY <1>1 DEF EffectRuns, GiveBack, RInv, TypeOK
<1>5. \E l \in {"effect", "publish"} : pc' = [pc EXCEPT ![r] = l]
  <2>1. pc = [pc EXCEPT ![r] = "effect"]
    BY <1>1
  <2>2. QED
    BY <2>1 DEF EffectRuns
<1>6. \E l \in {"effect", "publish", "commit", "catch"} :
        /\ pc' = [pc EXCEPT ![r] = l]
        /\ l = "commit" => Transactional(r) /\ Sent(r)'
  BY <1>5
<1>7. /\ response' = response /\ stmt' = [stmt EXCEPT ![r] = NoConn]
      /\ UNCHANGED <<cap, attempt, client, open>>
  BY DEF EffectRuns
<1>8. QED
  BY <1>1, <1>2, <1>3, <1>4, <1>6, <1>7, PastChecks

\* So is a statement that fails.
LEMMA StatementFailsRInv ==
  ASSUME RInv, NEW r \in Requests, NEW how, StatementFails(r, how)
  PROVE  RInv'
<1> DEFINE c == IF stmt[r] # NoConn THEN stmt[r] ELSE client[r]
<1>1. c \in Conns /\ pc[r] \in {"effect", "publish"}
  BY DEF StatementFails, RInv, TypeOK
<1>2. DataStep(r)
  BY <1>1, AbortData, SameData DEF StatementFails, RInv
<1>3. effect' \in [Requests -> Effects] /\ failures' \in 0 .. MaxFailures
  BY CapabilityAssumption DEF StatementFails, RInv, TypeOK
<1>4. idle' \in SUBSET Conns
  BY DEF StatementFails, GiveBack, RInv, TypeOK
<1>5. /\ pc' = [pc EXCEPT ![r] = "catch"] /\ response' = response
      /\ stmt' = [stmt EXCEPT ![r] = NoConn] /\ UNCHANGED <<cap, attempt, client, open>>
  BY DEF StatementFails
<1>6. QED
  BY <1>1, <1>2, <1>3, <1>4, <1>5, PastChecks

\* The event is the last write, and comes with the answer.
LEMMA PublishRInv ==
  ASSUME RInv, NEW r \in Requests, Publish(r)
  PROVE  RInv'
<1> DEFINE c == IF Transactional(r) THEN client[r] ELSE stmt[r]
<1>1. c \in Conns /\ pc[r] = "publish" /\ stmt[r] \in Conns \cup {NoConn}
  BY DEF Publish, RInv, TypeOK
<1>2. DataStep(r)
  BY <1>1, WriteData DEF Publish, RInv, Rows
<1>3. /\ stmt' = [stmt EXCEPT ![r] = NoConn] /\ UNCHANGED <<cap, attempt, effect, open, failures>>
      /\ response' = response \/ response' = [response EXCEPT ![r] = "ok"]
      /\ Sent(r)' /\ response'[r] # "refused"
  BY <1>1 DEF Publish, Answer, Sent, RInv, TypeOK, Turn
<1>4. CASE EndAttempt(r, FALSE, {c})
  <2>1. /\ client' = [client EXCEPT ![r] = NoConn]
        /\ idle' \in SUBSET Conns
        /\ \/ pc' = [pc EXCEPT ![r] = "done"]
           \/ pc' = [pc EXCEPT ![r] = "attempt"] /\ attempt[r] < cap[r].attempts
    BY <1>1, <1>4, AttemptEndsTurn
  <2>2. response' \in [Requests -> Responses]
    BY <1>3 DEF RInv, TypeOK, Responses
  <2>3. TypeOK'
    BY <1>2, <1>3, <2>1, <2>2 DEF RInv, TypeOK, DataStep
  <2>4. MovesOnly(r)
    BY <1>3, <2>1 DEF MovesOnly, RInv, TypeOK
  <2>5. Turn(r)'
    BY <1>3, <2>1 DEF RInv, TypeOK, Turn, Transactional
  <2>6. QED
    BY <1>2, <2>3, <2>4, <2>5, OneMoves
<1>5. CASE /\ Transactional(r) \/ Sent(r)
           /\ pc' = [pc EXCEPT ![r] = IF Sent(r) THEN "catch" ELSE "commit"]
           /\ GiveBack({stmt[r]}) /\ UNCHANGED client
  <2>1. idle' \in SUBSET Conns
    BY <1>1, <1>5 DEF GiveBack, RInv, TypeOK
  <2>2. effect' \in [Requests -> Effects] /\ failures' \in 0 .. MaxFailures
    BY <1>3 DEF RInv, TypeOK
  <2>3. \E l \in {"effect", "publish", "commit", "catch"} :
          /\ pc' = [pc EXCEPT ![r] = l]
          /\ l = "commit" => Transactional(r) /\ Sent(r)'
    BY <1>3, <1>5
  <2>4. QED
    BY <1>1, <1>2, <1>3, <1>5, <2>1, <2>2, <2>3, PastChecks
<1>6. QED
  BY <1>4, <1>5 DEF Publish

\* An attempt ends with an answer sent, by itself or by an earlier one.
LEMMA CommitRInv ==
  ASSUME RInv, NEW r \in Requests, Commit(r) \/ Catch(r)
  PROVE  RInv'
<1>1. /\ pc[r] \in {"commit", "catch"}
      /\ UNCHANGED <<cap, attempt, effect, stmt, open, failures>>
      /\ EndAttempt(r, FALSE, {})
  BY DEF Commit, Catch
<1>2. Transactional(r) => client[r] \in Conns
  BY <1>1 DEF RInv, TypeOK, Turn
<1>3. DataStep(r)
  <2>1. CASE Commit(r)
    BY <1>2, <2>1, EndTxData DEF Commit, RInv, Turn, DataStep
  <2>2. CASE Catch(r)
    BY <1>2, <2>2, EndTxData, SameData DEF Catch, RInv, DataStep
  <2>3. QED
    BY <2>1, <2>2
<1>4. /\ response' \in [Requests -> Responses]
      /\ \A s \in Requests \ {r} : response'[s] = response[s]
      /\ Sent(r)' /\ response'[r] # "refused"
  BY <1>1 DEF Commit, Catch, Answer, Sent, RInv, TypeOK, Turn, Responses
<1>5. /\ client' = [client EXCEPT ![r] = NoConn]
      /\ idle' \in SUBSET Conns
      /\ \/ pc' = [pc EXCEPT ![r] = "done"]
         \/ pc' = [pc EXCEPT ![r] = "attempt"] /\ attempt[r] < cap[r].attempts
  BY <1>1, AttemptEndsTurn
<1>6. TypeOK'
  BY <1>1, <1>3, <1>4, <1>5 DEF RInv, TypeOK, DataStep
<1>7. MovesOnly(r)
  BY <1>1, <1>4, <1>5 DEF MovesOnly, RInv, TypeOK
<1>8. Turn(r)'
  BY <1>1, <1>4, <1>5 DEF RInv, TypeOK, Turn, Transactional
<1>9. QED
  BY <1>3, <1>6, <1>7, <1>8, OneMoves

\* A COMMIT that is refused.
LEMMA CommitFailsRInv ==
  ASSUME RInv, NEW r \in Requests, CommitFails(r)
  PROVE  RInv'
<1>1. /\ pc[r] = "commit" /\ pc' = [pc EXCEPT ![r] = "catch"]
      /\ EndTx(client[r], FALSE)
      /\ UNCHANGED <<cap, attempt, response, effect, client, stmt, open, idle>>
  BY DEF CommitFails, pool
<1>2. client[r] \in Conns
  BY <1>1 DEF RInv, TypeOK, Turn
<1>3. DataStep(r)
  BY <1>1, <1>2, EndTxData DEF RInv, DataStep
<1>4. failures' \in 0 .. MaxFailures
  BY CapabilityAssumption DEF CommitFails, RInv, TypeOK
<1>5. TypeOK'
  BY <1>1, <1>3, <1>4 DEF RInv, TypeOK, DataStep
<1>6. MovesOnly(r)
  BY <1>1 DEF MovesOnly, RInv, TypeOK
<1>7. Turn(r)'
  BY <1>1 DEF RInv, TypeOK, Turn, Sent, Transactional
<1>8. QED
  BY <1>3, <1>5, <1>6, <1>7, OneMoves

\* A timeout is an answer, and not a refusal.
LEMMA TimeOutRInv ==
  ASSUME RInv, NEW r \in Requests, TimeOut(r)
  PROVE  RInv'
<1>1. /\ response' = [response EXCEPT ![r] = "timeout"]
      /\ UNCHANGED <<cap, pc, attempt, effect, client, stmt, open, idle,
                     tx, pending, durable, failures>>
  BY DEF TimeOut, Answer, pool, db
<1>2. DataStep(r)
  BY <1>1, SameData DEF RInv, db
<1>3. TypeOK'
  BY <1>1 DEF RInv, TypeOK, Responses
<1>4. MovesOnly(r) /\ Turn(r)'
  BY <1>1 DEF MovesOnly, RInv, TypeOK, Turn, Sent, Transactional
<1>5. QED
  BY <1>2, <1>3, <1>4, OneMoves

\* Closing a client rolls back what it has open.
LEMMA CloseIdleRInv ==
  ASSUME RInv, NEW c \in Conns, CloseIdle(c)
  PROVE  RInv'
<1>1. /\ UNCHANGED <<cap, pc, attempt, response, effect, client, stmt, failures>>
      /\ open' = open \ {c} /\ idle' = idle \ {c} /\ EndTx(c, FALSE)
  BY DEF CloseIdle, request
<1>2. /\ pending' \in [Conns -> [Writes -> Nat]] /\ durable' \in [Writes -> Nat]
      /\ tx' \in [Conns -> {"none", "open", "aborted"}]
      /\ \A s \in Requests : Clean(s) => Clean(s)'
  BY <1>1, EndTxData DEF RInv
<1>3. TypeOK'
  BY <1>1, <1>2 DEF RInv, TypeOK
<1>4. \A s \in Requests : Turn(s)'
  BY <1>1, <1>2 DEF RInv, Turn, Sent, Transactional
<1>5. QED
  BY <1>3, <1>4 DEF RInv

\* Every step keeps the turns.
LEMMA RInvStep == RInv /\ [Next]_vars => RInv'
<1> SUFFICES ASSUME RInv, [Next]_vars
             PROVE  RInv'
  OBVIOUS
<1>1. ASSUME NEW r \in Requests, Arrive(r) \/ Handler(r) \/ TimeOut(r)
      PROVE  RInv'
  BY <1>1, ArriveRInv, StartAttemptRInv, BeginRInv, CheckRInv, CheckFailsRInv, IssueRInv,
     EffectRunsRInv, StatementFailsRInv, PublishRInv, CommitRInv, CommitFailsRInv, TimeOutRInv DEF Handler
<1>2. ASSUME NEW c \in Conns, CloseIdle(c)
      PROVE  RInv'
  BY <1>2, CloseIdleRInv
<1>3. CASE UNCHANGED vars
  BY <1>3 DEF vars, request, pool, db, RInv, TypeOK, Turn, Clean, Sent, Transactional
<1>4. QED
  BY <1>1, <1>2, <1>3 DEF Next

\* The variables of the requests, the pool and the database stay in their
\* domains, and no request runs more attempts than its capability declares.
THEOREM RouteTypeOK == Spec => []TypeOK
<1>1. RInv => TypeOK
  BY DEF RInv
<1>2. QED
  BY <1>1, RInvInit, RInvStep, PTL DEF Spec

\* A request answered with a 404 or 422 has written nothing, on any connection,
\* whatever it was retried and whatever the other requests do.
THEOREM RefusedIsClean == Spec => []RefusedChangesNothing
<1>1. RInv => RefusedChangesNothing
  BY DEF RInv, Turn, Clean, Rows, RefusedChangesNothing
<1>2. QED
  BY <1>1, RInvInit, RInvStep, PTL DEF Spec

-----------------------------------------------------------------------------
(* Transactions, events and effects *)

\* Only the client of a request holds a transaction, unless one was refused.
Owned ==
  \A c \in Conns : tx[c] # "none" => TransactionLeaked \/ \E r \in Requests : client[r] = c

\* A transactional request is inside its transaction until it ends or fails.
Within(r) ==
  /\ client[r] # NoConn => Transactional(r)
  /\ Transactional(r) /\ pc[r] \in {"check", "effect", "publish", "commit"}
       => tx[client[r]] = "open"
  /\ pc[r] \in {"begin", "check"} => effect[r] = 1

\* The event of a transactional request is pending on its client, or committed
\* after it was answered, by the commit that it reached before any answer.
Event(r) ==
  Transactional(r) =>
    /\ \A c \in Conns : /\ pending[c][<<r, EventRow>>] <= 1
                        /\ pending[c][<<r, EventRow>>] # 0 =>
                             c = client[r] /\ pc[r] \in {"commit", "catch"}
    /\ durable[<<r, EventRow>>] <= 1
    /\ ~Sent(r) \/ pc[r] = "commit" => durable[<<r, EventRow>>] = 0

\* Effects commit one by one, before the event is written and the answer sent.
Told(r) ==
  \/ pc[r] = "publish" \/ response[r] = "ok" \/ durable[<<r, EventRow>>] > 0
  \/ \E c \in Conns : pending[c][<<r, EventRow>>] > 0

Built(r) ==
  ~TransactionLeaked =>
    /\ pc[r] = "effect" => \A k \in Effects : k < effect[r] => durable[<<r, k>>] > 0
    /\ Told(r) => \A k \in Effects : durable[<<r, k>>] > 0

Sound(r) == Within(r) /\ Event(r) /\ Built(r)

SInv == Pool /\ RInv /\ Owned /\ \A r \in Requests : Sound(r)


\* No request has a client, and nobody has written or answered.
LEMMA SInvInit == Init => SInv
<1> SUFFICES ASSUME Init
             PROVE  SInv
  OBVIOUS
<1>1. Pool /\ RInv
  BY PoolInit, RInvInit
<1>2. Owned
  BY DEF Init, Owned
<1>3. ASSUME NEW r \in Requests
      PROVE  Sound(r)
  <2>1. \A k \in Rows : <<r, k>> \in Writes /\ NoWrites[<<r, k>>] = 0
    BY DEF Writes, Rows, NoWrites
  <2>2. /\ pc[r] = "new" /\ response[r] = "none" /\ client[r] = NoConn
        /\ durable[<<r, EventRow>>] = 0
        /\ \A c \in Conns : pending[c][<<r, EventRow>>] = 0
    BY <2>1 DEF Init, Rows
  <2>3. QED
    BY <2>2 DEF Sound, Within, Event, Built, Told, Sent
<1>4. QED
  BY <1>1, <1>2, <1>3 DEF SInv

\* What a step of another request, or of the pool, may do to the data of s: it
\* may take pending writes of s away, and commit those that are not on s's client.
Untouched(s) ==
  /\ client[s] \in Conns => tx'[client[s]] = tx[client[s]]
  /\ \A c \in Conns : \/ pending'[c][<<s, EventRow>>] = pending[c][<<s, EventRow>>]
                      \/ pending'[c][<<s, EventRow>>] = 0
  /\ \A k \in Rows :
       \/ durable'[<<s, k>>] = durable[<<s, k>>]
       \/ \E c \in Conns : /\ c # client[s]
                           /\ durable'[<<s, k>>] = durable[<<s, k>>] + pending[c][<<s, k>>]

\* A write of one request does not touch another's.
LEMMA WriteUntouched ==
  ASSUME TypeOK, NEW r \in Requests, NEW c \in Conns, NEW k \in Rows, Write(c, <<r, k>>)
  PROVE  \A s \in Requests \ {r} : Untouched(s)
<1>1. ASSUME NEW s \in Requests \ {r}
      PROVE  Untouched(s)
  <2>1. /\ pending \in [Conns -> [Writes -> Nat]] /\ durable \in [Writes -> Nat]
        /\ <<r, k>> \in Writes /\ tx' = tx
        /\ \A j \in Rows : <<s, j>> \in Writes /\ <<s, j>> # <<r, k>>
    BY DEF TypeOK, Writes, Rows, Write
  <2>2. \A j \in Rows : durable'[<<s, j>>] = durable[<<s, j>>]
    BY <2>1 DEF Write
  <2>3. \A d \in Conns : \A j \in Rows : pending'[d][<<s, j>>] = pending[d][<<s, j>>]
    BY <2>1 DEF Write
  <2>4. QED
    BY <2>1, <2>2, <2>3 DEF Untouched, Rows
<1>2. QED
  BY <1>1

\* The end of a transaction touches no request whose client it does not run on.
LEMMA EndUntouched ==
  ASSUME TypeOK, NEW c \in Conns, NEW keep \in BOOLEAN, EndTx(c, keep),
         NEW s \in Requests, client[s] # c
  PROVE  Untouched(s)
<1>1. /\ pending \in [Conns -> [Writes -> Nat]] /\ durable \in [Writes -> Nat]
      /\ tx \in [Conns -> {"none", "open", "aborted"}]
      /\ \A j \in Rows : <<s, j>> \in Writes /\ NoWrites[<<s, j>>] = 0
  BY DEF TypeOK, Writes, Rows, NoWrites
<1>2. \A j \in Rows : \/ durable'[<<s, j>>] = durable[<<s, j>>]
                      \/ durable'[<<s, j>>] = durable[<<s, j>>] + pending[c][<<s, j>>]
  BY <1>1 DEF EndTx
<1>3. \A d \in Conns : \/ pending'[d][<<s, EventRow>>] = pending[d][<<s, EventRow>>]
                       \/ pending'[d][<<s, EventRow>>] = 0
  BY <1>1 DEF EndTx, Rows
<1>4. client[s] \in Conns => tx'[client[s]] = tx[client[s]]
  BY <1>1 DEF EndTx
<1>5. QED
  BY <1>2, <1>3, <1>4 DEF Untouched

\* Nor does an error.
LEMMA AbortUntouched ==
  ASSUME TypeOK, NEW c \in Conns, AbortTx(c), NEW s \in Requests, client[s] # c
  PROVE  Untouched(s)
<1>1. /\ pending \in [Conns -> [Writes -> Nat]] /\ durable' = durable
      /\ tx \in [Conns -> {"none", "open", "aborted"}]
      /\ \A j \in Rows : <<s, j>> \in Writes /\ NoWrites[<<s, j>>] = 0
  BY DEF TypeOK, Writes, Rows, NoWrites, AbortTx
<1>2. \A d \in Conns : \/ pending'[d][<<s, EventRow>>] = pending[d][<<s, EventRow>>]
                       \/ pending'[d][<<s, EventRow>>] = 0
  BY <1>1 DEF AbortTx, Rows
<1>3. client[s] \in Conns => tx'[client[s]] = tx[client[s]]
  BY <1>1 DEF AbortTx
<1>4. QED
  BY <1>1, <1>2, <1>3 DEF Untouched

\* An answer is given once, so a refusal stays one.
LEMMA LeakStays ==
  ASSUME TypeOK, NEW r \in Requests, cap' = cap,
         response' = response \/ \E what \in Responses : Answer(r, what)
  PROVE  TransactionLeaked => TransactionLeaked'
  BY DEF TypeOK, TransactionLeaked, Transactional, Answer, Sent

\* A request that does not move, and whose data nobody touches, stays sound.
LEMMA Bystander ==
  ASSUME SInv, NEW s \in Requests, Untouched(s), TransactionLeaked => TransactionLeaked',
         cap' = cap, pc'[s] = pc[s], response'[s] = response[s],
         client'[s] = client[s], effect'[s] = effect[s]
  PROVE  Sound(s)'
<1>1. Sound(s) /\ Turn(s) /\ client[s] \in Conns \cup {NoConn}
  BY DEF SInv, RInv, TypeOK
<1>2. /\ \A c \in Conns : pending[c][<<s, EventRow>>] \in Nat
      /\ \A k \in Rows : durable[<<s, k>>] \in Nat
      /\ \A c \in Conns : \A k \in Rows : pending[c][<<s, k>>] \in Nat
  BY DEF SInv, RInv, TypeOK, Writes, Rows
<1>3. Within(s)'
  BY <1>1 DEF Sound, Within, Turn, Untouched, Transactional
<1>4. ASSUME Transactional(s)
      PROVE  durable'[<<s, EventRow>>] = durable[<<s, EventRow>>]
  BY <1>1, <1>2, <1>4 DEF Sound, Event, Untouched, Rows
<1>5. Event(s)'
  BY <1>1, <1>4 DEF Sound, Event, Untouched, Transactional, Sent
<1>6. Told(s)' => Told(s)
  BY <1>2 DEF Told, Untouched, Rows
<1>7. \A k \in Effects : durable[<<s, k>>] > 0 => durable'[<<s, k>>] > 0
  BY <1>2 DEF Untouched, Rows
<1>8. Built(s)'
  BY <1>1, <1>6, <1>7 DEF Sound, Built
<1>9. QED
  BY <1>3, <1>5, <1>8 DEF Sound

\* A connection keeps its owner, or its transaction has ended.
LEMMA OwnedNext ==
  ASSUME Owned, TransactionLeaked => TransactionLeaked',
         \A d \in Conns : tx'[d] # "none" =>
           \/ TransactionLeaked' \/ \E s \in Requests : client'[s] = d
           \/ tx[d] # "none" /\ \A s \in Requests : client[s] = d => client'[s] = d
  PROVE  Owned'
  BY DEF Owned


\* One request moves: it stays sound, its answer is kept, and it leaves the data
\* of the others alone.
LEMMA SoundStep ==
  ASSUME SInv, NEW r \in Requests, MovesOnly(r),
         \A s \in Requests \ {r} : effect'[s] = effect[s] /\ Untouched(s),
         TransactionLeaked => TransactionLeaked', Owned', Sound(r)'
  PROVE  Owned' /\ \A s \in Requests : Sound(s)'
<1>1. ASSUME NEW s \in Requests \ {r}
      PROVE  Sound(s)'
  BY Bystander DEF MovesOnly
<1>2. QED
  BY <1>1

\* A step that leaves the database alone.
LEMMA SameUntouched ==
  ASSUME UNCHANGED db
  PROVE  \A s \in Requests : Untouched(s)
  BY DEF db, Untouched

\* Nobody else's transaction runs on a client that a request uses.
LEMMA OwnClient ==
  ASSUME SInv, NEW r \in Requests, NEW c \in Conns, Uses(r, c)
  PROVE  \A s \in Requests \ {r} : client[s] # c
  BY DEF SInv, Pool, Ownership, Uses

\* The event is not written before the effects.
LEMMA NoEventYet ==
  ASSUME SInv, NEW r \in Requests, Transactional(r), pc[r] \notin {"commit", "catch"}
  PROVE  \A c \in Conns : pending[c][<<r, EventRow>>] = 0
  BY DEF SInv, Sound, Event

\* A request arrives without a client.
LEMMA ArriveSound ==
  ASSUME SInv, NEW r \in Requests, Arrive(r)
  PROVE  Owned' /\ \A s \in Requests : Sound(s)'
<1>1. /\ pc[r] = "new" /\ pc' = [pc EXCEPT ![r] = "attempt"] /\ pc'[r] = "attempt"
      /\ UNCHANGED <<cap, attempt, response, effect, client>> /\ UNCHANGED db
      /\ tx' = tx /\ pending' = pending /\ durable' = durable
  BY DEF Arrive, SInv, RInv, TypeOK, db
<1>2. MovesOnly(r) /\ \A s \in Requests \ {r} : effect'[s] = effect[s] /\ Untouched(s)
  BY <1>1, SameUntouched DEF MovesOnly, SInv, RInv, TypeOK
<1>3. TransactionLeaked => TransactionLeaked'
  BY <1>1, LeakStays DEF SInv, RInv
<1>4. Owned'
  BY <1>1, <1>3, OwnedNext DEF SInv
<1>5. Sound(r)'
  <2>1. Within(r)'
    BY <1>1 DEF SInv, Sound, Within, Transactional
  <2>2. Event(r)'
    BY <1>1 DEF SInv, Sound, Event, Transactional, Sent
  <2>3. Built(r)'
    BY <1>1, <1>3 DEF SInv, Sound, Built, Told
  <2>4. QED
    BY <2>1, <2>2, <2>3 DEF Sound
<1>6. QED
  BY <1>2, <1>3, <1>4, <1>5, SoundStep

\* An attempt starts at the first effect.
LEMMA StartAttemptSound ==
  ASSUME SInv, NEW r \in Requests, StartAttempt(r)
  PROVE  Owned' /\ \A s \in Requests : Sound(s)'
<1>1. /\ pc[r] = "attempt" /\ UNCHANGED <<cap, response, tx, pending, durable>> /\ UNCHANGED db
      /\ attempt' = [attempt EXCEPT ![r] = @ + 1]
      /\ effect' = [effect EXCEPT ![r] = 1] /\ effect'[r] = 1
      /\ client[r] = NoConn
  BY DEF StartAttempt, SInv, RInv, TypeOK, db, Pool, Ownership, Place
<1>2. \/ /\ Transactional(r) /\ pc' = [pc EXCEPT ![r] = "begin"] /\ pc'[r] = "begin"
         /\ \E c \in Conns : client' = [client EXCEPT ![r] = c]
      \/ /\ ~Transactional(r) /\ pc' = [pc EXCEPT ![r] = "check"] /\ pc'[r] = "check"
         /\ client' = client
  BY DEF StartAttempt, SInv, RInv, TypeOK
<1>3. MovesOnly(r) /\ \A s \in Requests \ {r} : effect'[s] = effect[s] /\ Untouched(s)
  BY <1>1, <1>2, SameUntouched DEF MovesOnly, SInv, RInv, TypeOK
<1>4. TransactionLeaked => TransactionLeaked'
  BY <1>1, LeakStays DEF SInv, RInv
<1>5. Owned'
  <2>1. \A d \in Conns : \A s \in Requests : client[s] = d => client'[s] = d
    BY <1>1, <1>2, CapabilityAssumption DEF SInv, RInv, TypeOK
  <2>2. QED
    BY <1>1, <1>4, <2>1, OwnedNext DEF SInv
<1>6. Sound(r)'
  <2>1. Within(r)'
    BY <1>1, <1>2 DEF Within, Transactional
  <2>2. Event(r)'
    BY <1>1, <1>2 DEF SInv, Sound, Event, Transactional, Sent
  <2>3. Built(r)'
    BY <1>1, <1>2, <1>4 DEF SInv, Sound, Built, Told
  <2>4. QED
    BY <2>1, <2>2, <2>3 DEF Sound
<1>7. QED
  BY <1>3, <1>4, <1>5, <1>6, SoundStep

\* BEGIN opens the transaction, or has joined one that is lost.
LEMMA BeginSound ==
  ASSUME SInv, NEW r \in Requests, Begin(r)
  PROVE  Owned' /\ \A s \in Requests : Sound(s)'
<1>1. /\ pc[r] = "begin" /\ Transactional(r) /\ client[r] \in Conns
      /\ UNCHANGED <<cap, attempt, response, effect, client, pending, durable>>
  BY DEF Begin, SInv, RInv, TypeOK, Turn
<1>2. \/ pc' = [pc EXCEPT ![r] = "catch"] /\ pc'[r] = "catch" /\ tx' = tx
      \/ /\ pc' = [pc EXCEPT ![r] = "check"] /\ pc'[r] = "check"
         /\ tx' = [tx EXCEPT ![client[r]] = "open"] /\ tx'[client[r]] = "open"
  BY <1>1 DEF Begin, SInv, RInv, TypeOK
<1>3. \A s \in Requests \ {r} : client[s] # client[r]
  BY <1>1, OwnClient DEF Uses
<1>4. \A s \in Requests \ {r} : client[s] \in Conns => tx'[client[s]] = tx[client[s]]
  BY <1>2, <1>3 DEF SInv, RInv, TypeOK
<1>5. MovesOnly(r) /\ \A s \in Requests \ {r} : effect'[s] = effect[s] /\ Untouched(s)
  BY <1>1, <1>2, <1>4 DEF MovesOnly, Untouched, SInv, RInv, TypeOK
<1>6. TransactionLeaked => TransactionLeaked'
  BY <1>1, LeakStays DEF SInv, RInv
<1>7. Owned'
  <2>1. \A d \in Conns : d # client[r] => tx'[d] = tx[d]
    BY <1>2 DEF SInv, RInv, TypeOK
  <2>2. QED
    BY <1>1, <1>6, <2>1, OwnedNext DEF SInv
<1>8. Sound(r)'
  <2>1. Within(r)'
    BY <1>1, <1>2 DEF SInv, Sound, Within, Transactional
  <2>2. Event(r)'
    BY <1>1, <1>2 DEF SInv, Sound, Event, Transactional, Sent
  <2>3. Built(r)'
    BY <1>1, <1>2, <1>6 DEF SInv, Sound, Built, Told
  <2>4. QED
    BY <2>1, <2>2, <2>3 DEF Sound
<1>9. QED
  BY <1>5, <1>6, <1>7, <1>8, SoundStep

\* A refusal is the one step that drops a client with its transaction open.
LEMMA CheckSound ==
  ASSUME SInv, NEW r \in Requests, Check(r)
  PROVE  Owned' /\ \A s \in Requests : Sound(s)'
<1>1. /\ pc[r] = "check" /\ UNCHANGED <<cap, attempt, effect, tx, pending, durable>>
      /\ UNCHANGED db
  BY DEF Check, db
<1>2. \/ /\ response' = response /\ client' = client
         /\ \/ pc' = [pc EXCEPT ![r] = "effect"] /\ pc'[r] = "effect"
            \/ pc' = [pc EXCEPT ![r] = "catch"] /\ pc'[r] = "catch"
      \/ /\ Answer(r, "refused") /\ response' = [response EXCEPT ![r] = "refused"]
         /\ response'[r] = "refused"
         /\ client' = [client EXCEPT ![r] = NoConn] /\ client'[r] = NoConn
         /\ pc' = [pc EXCEPT ![r] = "done"] /\ pc'[r] = "done"
  BY DEF Check, Refuse, EndAttempt, Answer, SInv, RInv, TypeOK
<1>3. MovesOnly(r) /\ \A s \in Requests \ {r} : effect'[s] = effect[s] /\ Untouched(s)
  BY <1>1, <1>2, SameUntouched DEF MovesOnly, SInv, RInv, TypeOK
<1>4. TransactionLeaked => TransactionLeaked'
  BY <1>1, <1>2, LeakStays DEF SInv, RInv, Responses
<1>5. Owned'
  <2>1. CASE client' = client
    BY <1>1, <1>4, <2>1, OwnedNext DEF SInv
  <2>2. CASE client' = [client EXCEPT ![r] = NoConn] /\ response'[r] = "refused"
    <3>1. Transactional(r) => TransactionLeaked'
      BY <1>1, <2>2 DEF TransactionLeaked, Transactional
    <3>2. ~Transactional(r) => client' = client
      BY <2>2 DEF SInv, RInv, TypeOK, Sound, Within
    <3>3. QED
      BY <1>1, <1>4, <3>1, <3>2, OwnedNext DEF SInv
  <2>3. QED
    BY <1>2, <2>1, <2>2
<1>6. Sound(r)'
  <2>1. Within(r)'
    BY <1>1, <1>2 DEF SInv, Sound, Within, Transactional
  <2>2. Event(r)'
    BY <1>1, <1>2 DEF SInv, Sound, Event, Transactional, Sent
  <2>3. Built(r)'
    <3>1. pc'[r] # "publish" /\ (Told(r)' => Told(r))
      BY <1>1, <1>2 DEF Told
    <3>2. ~(\E k \in Effects : k < effect[r])
      BY <1>1 DEF SInv, Sound, Within, Effects
    <3>3. CASE ~Transactional(r) \/ response' = response
      BY <1>1, <1>4, <3>1, <3>2 DEF SInv, Sound, Built
    <3>4. CASE Transactional(r) /\ response'[r] = "refused"
      BY <1>1, <3>4 DEF Built, TransactionLeaked, Transactional
    <3>5. QED
      BY <1>2, <3>3, <3>4
  <2>4. QED
    BY <2>1, <2>2, <2>3 DEF Sound
<1>7. QED
  BY <1>3, <1>4, <1>5, <1>6, SoundStep

\* A statement takes a client that holds no transaction of its own request.
LEMMA IssueSound ==
  ASSUME SInv, NEW r \in Requests, Issue(r)
  PROVE  Owned' /\ \A s \in Requests : Sound(s)'
<1>1. UNCHANGED <<cap, pc, attempt, response, effect, client, tx, pending, durable>>
  BY DEF Issue, db
<1>2. TransactionLeaked' <=> TransactionLeaked
  BY <1>1 DEF TransactionLeaked, Transactional
<1>3. Owned'
  BY <1>1, <1>2 DEF SInv, Owned
<1>4. \A s \in Requests : Sound(s)'
  BY <1>1, <1>2 DEF SInv, Sound, Within, Event, Built, Told, Transactional, Sent
<1>5. QED
  BY <1>3, <1>4


\* An effect runs outside any transaction, and so is committed: nobody's client
\* is lent out, and no client lent out holds a transaction.
LEMMA EffectRunsSound ==
  ASSUME SInv, NEW r \in Requests, EffectRuns(r)
  PROVE  Owned' /\ \A s \in Requests : Sound(s)'
<1>1. /\ pc[r] = "effect" /\ stmt[r] \in Conns /\ effect[r] \in Effects /\ effect[r] \in Rows
      /\ Write(stmt[r], <<r, effect[r]>>)
      /\ UNCHANGED <<cap, attempt, response, client>>
      /\ tx' = tx
  BY DEF EffectRuns, SInv, RInv, TypeOK, Rows, Write
<1>2. \/ /\ effect[r] = NumEffects /\ effect' = effect
         /\ pc' = [pc EXCEPT ![r] = "publish"] /\ pc'[r] = "publish"
      \/ /\ effect' = [effect EXCEPT ![r] = @ + 1] /\ effect'[r] = effect[r] + 1
         /\ pc' = pc
  BY DEF EffectRuns, SInv, RInv, TypeOK
<1>3. MovesOnly(r) /\ \A s \in Requests \ {r} : effect'[s] = effect[s] /\ Untouched(s)
  BY <1>1, <1>2, WriteUntouched DEF MovesOnly, SInv, RInv, TypeOK
<1>4. TransactionLeaked => TransactionLeaked'
  BY <1>1, LeakStays DEF SInv, RInv
<1>5. Owned'
  BY <1>1, <1>4, OwnedNext DEF SInv
<1>6. /\ \A k \in Rows : <<r, k>> \in Writes /\ (k # effect[r] => <<r, k>> # <<r, effect[r]>>)
      /\ pending \in [Conns -> [Writes -> Nat]] /\ durable \in [Writes -> Nat]
      /\ effect[r] # EventRow
  BY <1>1 DEF SInv, RInv, TypeOK, Writes, Rows, Effects, EventRow
<1>7. /\ durable'[<<r, EventRow>>] = durable[<<r, EventRow>>]
      /\ \A c \in Conns : pending'[c][<<r, EventRow>>] = pending[c][<<r, EventRow>>]
  BY <1>1, <1>6 DEF Write, Rows
<1>8. Within(r)'
  BY <1>1, <1>2 DEF SInv, Sound, Within, Transactional
<1>9. Event(r)'
  BY <1>1, <1>2, <1>7 DEF SInv, Sound, Event, Transactional, Sent
<1>10. Built(r)'
  <2>1. SUFFICES ASSUME ~TransactionLeaked', ~TransactionLeaked
                 PROVE  Built(r)'
    BY <1>4 DEF Built
  <2>2. tx[stmt[r]] = "none"
    <3>1. \A s \in Requests \ {r} : client[s] # stmt[r]
      BY <1>1, OwnClient DEF Uses
    <3>2. client[r] # stmt[r]
      BY <1>1, CapabilityAssumption DEF SInv, Pool, Ownership, Place
    <3>3. QED
      BY <1>1, <2>1, <3>1, <3>2 DEF SInv, Owned
  <2>3. durable' = [durable EXCEPT ![<<r, effect[r]>>] = @ + 1]
    BY <1>1, <2>2 DEF Write
  <2>4. /\ durable'[<<r, effect[r]>>] > 0
        /\ \A k \in Effects : durable[<<r, k>>] > 0 => durable'[<<r, k>>] > 0
    BY <1>1, <1>6, <2>3 DEF Rows
  <2>5. \A k \in Effects : k < effect[r] => durable'[<<r, k>>] > 0
    BY <1>1, <2>1, <2>4 DEF SInv, Sound, Built
  <2>6. \A k \in Effects : k \in Nat /\ k <= NumEffects /\ (k < effect[r] + 1 => k <= effect[r])
    BY <1>1, CapabilityAssumption DEF Effects
  <2>7. pc'[r] = "effect" => \A k \in Effects : k < effect'[r] => durable'[<<r, k>>] > 0
    BY <1>1, <1>2, <2>4, <2>5, <2>6 DEF Effects
  <2>8. Told(r)' => \A k \in Effects : durable'[<<r, k>>] > 0
    <3>1. CASE pc'[r] = "publish"
      BY <1>1, <1>2, <2>4, <2>5, <2>6, <3>1 DEF Effects
    <3>2. CASE pc'[r] # "publish"
      <4>1. Told(r)' => Told(r)
        BY <1>1, <1>7, <3>2 DEF Told
      <4>2. QED
        BY <2>1, <2>4, <4>1 DEF SInv, Sound, Built
    <3>3. QED
      BY <3>1, <3>2
  <2>9. QED
    BY <2>7, <2>8 DEF Built
<1>11. QED
  BY <1>3, <1>4, <1>5, <1>8, <1>9, <1>10, SoundStep DEF Sound

\* A step of a request that goes to its catch block, or past it, having written
\* nothing, and whose pending writes are kept or gone.
LEMMA FailsSound ==
  ASSUME SInv, NEW r \in Requests, TransactionLeaked => TransactionLeaked',
         cap' = cap, pc'[r] \in {"catch", "done", "attempt"},
         client'[r] = client[r] \/ client'[r] = NoConn,
         response'[r] = response[r] \/ (Sent(r)' /\ response'[r] # "ok"),
         \A c \in Conns : \/ pending'[c][<<r, EventRow>>] = 0
                          \/ /\ pending'[c][<<r, EventRow>>] = pending[c][<<r, EventRow>>]
                             /\ pc'[r] = "catch" /\ client'[r] = client[r],
         durable' = durable
  PROVE  Sound(r)'
<1>1. Within(r)'
  BY CapabilityAssumption DEF SInv, Sound, Within, Transactional
<1>2. Event(r)'
  BY DEF SInv, Sound, Event, Transactional, Sent
<1>3. Told(r)' => Told(r)
  BY DEF Told
<1>4. Built(r)'
  BY <1>3 DEF SInv, Sound, Built
<1>5. QED
  BY <1>1, <1>2, <1>4 DEF Sound

\* A SELECT that fails aborts what nobody's client has open.
LEMMA CheckFailsSound ==
  ASSUME SInv, NEW r \in Requests, CheckFails(r)
  PROVE  Owned' /\ \A s \in Requests : Sound(s)'
<1>1. /\ pc[r] = "check" /\ pc' = [pc EXCEPT ![r] = "catch"] /\ pc'[r] = "catch"
      /\ UNCHANGED <<cap, attempt, response, effect, client>>
  BY DEF CheckFails, SInv, RInv, TypeOK
<1>2. PICK c \in Conns : Available(c) /\ AbortTx(c)
  BY DEF CheckFails
<1>3. \A s \in Requests : client[s] # c
  <2>1. c \notin open \ idle
    BY <1>2 DEF Available, SInv, Pool, Types
  <2>2. QED
    BY <2>1 DEF SInv, Pool, Ownership, Uses
<1>4. \A s \in Requests : Untouched(s)
  BY <1>2, <1>3, AbortUntouched DEF SInv, RInv
<1>5. MovesOnly(r) /\ \A s \in Requests \ {r} : effect'[s] = effect[s] /\ Untouched(s)
  BY <1>1, <1>4 DEF MovesOnly, SInv, RInv, TypeOK
<1>6. TransactionLeaked => TransactionLeaked'
  BY <1>1, LeakStays DEF SInv, RInv
<1>7. durable' = durable /\ \A d \in Conns : tx'[d] # "none" => tx[d] # "none"
  BY <1>2 DEF AbortTx, SInv, RInv, TypeOK
<1>8. Owned'
  BY <1>1, <1>6, <1>7, OwnedNext DEF SInv
<1>9. Sound(r)'
  BY <1>1, <1>4, <1>6, <1>7, FailsSound DEF Untouched
<1>10. QED
  BY <1>5, <1>6, <1>8, <1>9, SoundStep

\* A statement that fails gives up what its connection has pending.
LEMMA StatementFailsSound ==
  ASSUME SInv, NEW r \in Requests, NEW how, StatementFails(r, how)
  PROVE  Owned' /\ \A s \in Requests : Sound(s)'
<1>1. PICK c \in Conns : Uses(r, c) /\ (AbortTx(c) \/ UNCHANGED db)
  <2> DEFINE c == IF stmt[r] # NoConn THEN stmt[r] ELSE client[r]
  <2>1. c \in Conns /\ Uses(r, c) /\ (AbortTx(c) \/ UNCHANGED db)
    BY DEF StatementFails, SInv, RInv, TypeOK, Uses
  <2>2. QED
    BY <2>1
<1>2. /\ pc' = [pc EXCEPT ![r] = "catch"] /\ pc'[r] = "catch"
      /\ UNCHANGED <<cap, attempt, response, effect, client>>
  BY DEF StatementFails, SInv, RInv, TypeOK
<1>3. \A s \in Requests \ {r} : Untouched(s)
  BY <1>1, OwnClient, AbortUntouched, SameUntouched DEF SInv, RInv
<1>4. MovesOnly(r) /\ \A s \in Requests \ {r} : effect'[s] = effect[s] /\ Untouched(s)
  BY <1>2, <1>3 DEF MovesOnly, SInv, RInv, TypeOK
<1>5. TransactionLeaked => TransactionLeaked'
  BY <1>2, LeakStays DEF SInv, RInv
<1>6. durable' = durable /\ \A d \in Conns : tx'[d] # "none" => tx[d] # "none"
  BY <1>1 DEF AbortTx, db, SInv, RInv, TypeOK
<1>7. Owned'
  BY <1>2, <1>5, <1>6, OwnedNext DEF SInv
<1>8. \A d \in Conns : \/ pending'[d][<<r, EventRow>>] = pending[d][<<r, EventRow>>]
                       \/ pending'[d][<<r, EventRow>>] = 0
  <2>1. NoWrites[<<r, EventRow>>] = 0
    BY DEF NoWrites, Writes
  <2>2. QED
    BY <1>1, <2>1 DEF AbortTx, db, SInv, RInv, TypeOK
<1>9. Sound(r)'
  BY <1>2, <1>5, <1>6, <1>8, FailsSound
<1>10. QED
  BY <1>4, <1>5, <1>7, <1>9, SoundStep

\* ROLLBACK, and a COMMIT that the server refuses, leave nothing pending on the
\* client of the transaction.
LEMMA RolledBack ==
  ASSUME SInv, NEW r \in Requests, client[r] \in Conns, NEW keep \in BOOLEAN, EndTx(client[r], keep)
  PROVE  /\ \A s \in Requests \ {r} : Untouched(s)
         /\ \A d \in Conns : tx'[d] # "none" => tx[d] # "none" /\ d # client[r]
         /\ Transactional(r) => \A d \in Conns : pending'[d][<<r, EventRow>>] = 0
<1>1. \A s \in Requests \ {r} : Untouched(s)
  BY OwnClient, EndUntouched DEF SInv, RInv, Uses
<1>2. /\ pending \in [Conns -> [Writes -> Nat]] /\ tx \in [Conns -> {"none", "open", "aborted"}]
      /\ NoWrites[<<r, EventRow>>] = 0
  BY DEF SInv, RInv, TypeOK, NoWrites, Writes
<1>3. \A d \in Conns : tx'[d] # "none" => tx[d] # "none" /\ d # client[r]
  BY <1>2 DEF EndTx
<1>4. Transactional(r) => \A d \in Conns \ {client[r]} : pending[d][<<r, EventRow>>] = 0
  BY <1>2 DEF SInv, RInv, TypeOK, Sound, Event, Writes
<1>5. Transactional(r) => \A d \in Conns : pending'[d][<<r, EventRow>>] = 0
  BY <1>2, <1>4 DEF EndTx
<1>6. QED
  BY <1>1, <1>3, <1>5

\* A COMMIT that is refused.
LEMMA CommitFailsSound ==
  ASSUME SInv, NEW r \in Requests, CommitFails(r)
  PROVE  Owned' /\ \A s \in Requests : Sound(s)'
<1>1. /\ pc[r] = "commit" /\ pc' = [pc EXCEPT ![r] = "catch"] /\ pc'[r] = "catch"
      /\ EndTx(client[r], FALSE) /\ durable' = durable
      /\ UNCHANGED <<cap, attempt, response, effect, client>>
  BY DEF CommitFails, EndTx, SInv, RInv, TypeOK
<1>2. client[r] \in Conns /\ Transactional(r)
  BY <1>1 DEF SInv, RInv, TypeOK, Turn
<1>3. /\ \A s \in Requests \ {r} : Untouched(s)
      /\ \A d \in Conns : tx'[d] # "none" => tx[d] # "none" /\ d # client[r]
      /\ \A d \in Conns : pending'[d][<<r, EventRow>>] = 0
  BY <1>1, <1>2, RolledBack
<1>4. MovesOnly(r) /\ \A s \in Requests \ {r} : effect'[s] = effect[s] /\ Untouched(s)
  BY <1>1, <1>3 DEF MovesOnly, SInv, RInv, TypeOK
<1>5. TransactionLeaked => TransactionLeaked'
  BY <1>1, LeakStays DEF SInv, RInv
<1>6. Owned'
  BY <1>1, <1>3, <1>5, OwnedNext DEF SInv
<1>7. Sound(r)'
  BY <1>1, <1>3, <1>5, FailsSound
<1>8. QED
  BY <1>4, <1>5, <1>6, <1>7, SoundStep


\* The end of the transaction: the client goes back without it.
LEMMA CatchSound ==
  ASSUME SInv, NEW r \in Requests, Catch(r)
  PROVE  Owned' /\ \A s \in Requests : Sound(s)'
<1>1. /\ pc[r] = "catch" /\ UNCHANGED <<cap, attempt, effect>> /\ durable' = durable
      /\ EndAttempt(r, FALSE, {})
      /\ IF Transactional(r) THEN EndTx(client[r], FALSE) ELSE UNCHANGED db
  BY DEF Catch, EndTx, db
<1>2. /\ Answer(r, "failed") /\ Sent(r)'
      /\ \A s \in Requests \ {r} : response'[s] = response[s]
      /\ response'[r] = response[r] \/ response'[r] = "failed"
  BY DEF Catch, Answer, Sent, SInv, RInv, TypeOK
<1>3. /\ client' = [client EXCEPT ![r] = NoConn] /\ client'[r] = NoConn
      /\ \A s \in Requests \ {r} : pc'[s] = pc[s]
      /\ pc'[r] \in {"attempt", "done"}
  <2>1. client \in [Requests -> Conns \cup {NoConn}] /\ DOMAIN pc = Requests /\ RInv
    BY DEF SInv, RInv, TypeOK
  <2>2. /\ client' = [client EXCEPT ![r] = NoConn]
        /\ pc' = [pc EXCEPT ![r] = "done"] \/ pc' = [pc EXCEPT ![r] = "attempt"]
    BY <1>1, <2>1, AttemptEndsTurn
  <2>3. QED
    BY <2>1, <2>2
<1>4. Transactional(r) => client[r] \in Conns
  BY <1>1 DEF SInv, RInv, TypeOK, Turn
<1>5. /\ \A s \in Requests \ {r} : Untouched(s)
      /\ \A d \in Conns : tx'[d] # "none" => tx[d] # "none" /\ d # client[r]
      /\ Transactional(r) => \A d \in Conns : pending'[d][<<r, EventRow>>] = 0
  <2>1. CASE Transactional(r)
    BY <1>1, <1>4, <2>1, RolledBack
  <2>2. CASE ~Transactional(r)
    <3>1. client[r] = NoConn
      BY <2>2 DEF SInv, RInv, TypeOK, Sound, Within
    <3>2. QED
      BY <1>1, <2>2, <3>1, SameUntouched, CapabilityAssumption DEF db
  <2>3. QED
    BY <2>1, <2>2
<1>6. MovesOnly(r) /\ \A s \in Requests \ {r} : effect'[s] = effect[s] /\ Untouched(s)
  BY <1>1, <1>2, <1>3, <1>5 DEF MovesOnly, SInv, RInv, TypeOK
<1>7. TransactionLeaked => TransactionLeaked'
  BY <1>1, <1>2, LeakStays DEF SInv, RInv, Responses
<1>8. Owned'
  <2>1. \A d \in Conns : d # client[r] => \A s \in Requests : client[s] = d => client'[s] = d
    BY <1>3 DEF SInv, RInv, TypeOK
  <2>2. QED
    BY <1>5, <1>7, <2>1, OwnedNext DEF SInv
<1>9. Sound(r)'
  <2>1. Within(r)'
    BY <1>3, CapabilityAssumption DEF Within
  <2>2. Event(r)'
    BY <1>1, <1>2, <1>3, <1>5 DEF SInv, Sound, Event, Transactional
  <2>3. Told(r)' => Told(r)
    <3>1. CASE Transactional(r)
      BY <1>1, <1>2, <1>3, <1>5, <3>1 DEF Told
    <3>2. CASE ~Transactional(r)
      BY <1>1, <1>2, <1>3, <3>2 DEF Told, db
    <3>3. QED
      BY <3>1, <3>2
  <2>4. Built(r)'
    BY <1>1, <1>3, <1>7, <2>3 DEF SInv, Sound, Built
  <2>5. QED
    BY <2>1, <2>2, <2>4 DEF Sound
<1>10. QED
  BY <1>6, <1>7, <1>8, <1>9, SoundStep

\* COMMIT makes the one pending event of a request durable, and is reached only
\* by the attempt that sent the answer.
LEMMA CommitSound ==
  ASSUME SInv, NEW r \in Requests, Commit(r)
  PROVE  Owned' /\ \A s \in Requests : Sound(s)'
<1>1. /\ pc[r] = "commit" /\ UNCHANGED <<cap, attempt, effect, response>>
      /\ EndAttempt(r, FALSE, {}) /\ EndTx(client[r], TRUE)
  BY DEF Commit
<1>2. client[r] \in Conns /\ Transactional(r) /\ Sent(r)
  BY <1>1 DEF SInv, RInv, TypeOK, Turn
<1>3. /\ client' = [client EXCEPT ![r] = NoConn] /\ client'[r] = NoConn
      /\ \A s \in Requests \ {r} : pc'[s] = pc[s]
      /\ pc'[r] \in {"attempt", "done"}
  <2>1. client \in [Requests -> Conns \cup {NoConn}] /\ DOMAIN pc = Requests /\ RInv
    BY DEF SInv, RInv, TypeOK
  <2>2. /\ client' = [client EXCEPT ![r] = NoConn]
        /\ pc' = [pc EXCEPT ![r] = "done"] \/ pc' = [pc EXCEPT ![r] = "attempt"]
    BY <1>1, <2>1, AttemptEndsTurn
  <2>3. QED
    BY <2>1, <2>2
<1>4. /\ \A s \in Requests \ {r} : Untouched(s)
      /\ \A d \in Conns : tx'[d] # "none" => tx[d] # "none" /\ d # client[r]
      /\ \A d \in Conns : pending'[d][<<r, EventRow>>] = 0
  BY <1>1, <1>2, RolledBack
<1>5. MovesOnly(r) /\ \A s \in Requests \ {r} : effect'[s] = effect[s] /\ Untouched(s)
  BY <1>1, <1>3, <1>4 DEF MovesOnly, SInv, RInv, TypeOK
<1>6. TransactionLeaked => TransactionLeaked'
  BY <1>1, LeakStays DEF SInv, RInv
<1>7. Owned'
  <2>1. \A d \in Conns : d # client[r] => \A s \in Requests : client[s] = d => client'[s] = d
    BY <1>3 DEF SInv, RInv, TypeOK
  <2>2. QED
    BY <1>4, <1>6, <2>1, OwnedNext DEF SInv
<1>8. \A k \in Rows : /\ durable[<<r, k>>] \in Nat /\ pending[client[r]][<<r, k>>] \in Nat
                      /\ durable'[<<r, k>>] = durable[<<r, k>>] + pending[client[r]][<<r, k>>]
  <2>1. \A k \in Rows : <<r, k>> \in Writes
    BY DEF Writes, Rows
  <2>2. QED
    BY <1>1, <1>2, <2>1 DEF EndTx, SInv, RInv, TypeOK
<1>9. Within(r)'
  BY <1>3, CapabilityAssumption DEF Within
<1>10. Event(r)'
  <2>1. durable[<<r, EventRow>>] = 0 /\ pending[client[r]][<<r, EventRow>>] <= 1
    BY <1>1, <1>2 DEF SInv, Sound, Event
  <2>2. durable'[<<r, EventRow>>] <= 1
    BY <1>8, <2>1 DEF Rows
  <2>3. QED
    BY <1>1, <1>2, <1>3, <1>4, <2>2 DEF Event, Sent
<1>11. Built(r)'
  <2>1. Told(r)' => Told(r)
    BY <1>1, <1>2, <1>3, <1>4, <1>8 DEF Told, Rows
  <2>2. \A k \in Effects : durable[<<r, k>>] > 0 => durable'[<<r, k>>] > 0
    BY <1>8 DEF Rows
  <2>3. QED
    BY <1>3, <1>6, <2>1, <2>2 DEF SInv, Sound, Built
<1>12. QED
  BY <1>5, <1>6, <1>7, <1>9, <1>10, <1>11, SoundStep DEF Sound

\* The event is written when every effect has run: in the transaction, or by
\* itself at the end of the attempt.
LEMMA PublishSound ==
  ASSUME SInv, NEW r \in Requests, Publish(r)
  PROVE  Owned' /\ \A s \in Requests : Sound(s)'
<1> DEFINE c == IF Transactional(r) THEN client[r] ELSE stmt[r]
<1>1. /\ c \in Conns /\ pc[r] = "publish" /\ UNCHANGED <<cap, attempt, effect>>
      /\ Write(c, <<r, EventRow>>) /\ tx' = tx
  BY DEF Publish, Write, SInv, RInv, TypeOK
<1>2. /\ Answer(r, "ok") /\ Sent(r)'
      /\ \A s \in Requests \ {r} : response'[s] = response[s]
  BY DEF Publish, Answer, Sent, SInv, RInv, TypeOK
<1>3. \/ /\ ~Transactional(r) /\ ~Sent(r) /\ client'[r] = NoConn /\ pc'[r] \in {"attempt", "done"}
      \/ /\ client'[r] = client[r]
         /\ \/ Sent(r) /\ pc'[r] = "catch"
            \/ ~Sent(r) /\ Transactional(r) /\ pc'[r] = "commit"
  BY DEF Publish, EndAttempt, SInv, RInv, TypeOK
<1>4. \A s \in Requests \ {r} : client'[s] = client[s] /\ pc'[s] = pc[s]
  BY DEF Publish, EndAttempt, SInv, RInv, TypeOK
<1>5. \A s \in Requests \ {r} : Untouched(s)
  BY <1>1, WriteUntouched DEF SInv, RInv, Rows
<1>6. MovesOnly(r) /\ \A s \in Requests \ {r} : effect'[s] = effect[s] /\ Untouched(s)
  BY <1>1, <1>2, <1>4, <1>5 DEF MovesOnly
<1>7. TransactionLeaked => TransactionLeaked'
  BY <1>1, <1>2, LeakStays DEF SInv, RInv, Responses
<1>8. Owned'
  <2>1. \A d \in Conns : \A s \in Requests : client[s] = d => client'[s] = d
    BY <1>3, <1>4, CapabilityAssumption DEF SInv, RInv, TypeOK, Sound, Within
  <2>2. QED
    BY <1>1, <1>7, <2>1, OwnedNext DEF SInv
<1>9. /\ \A k \in Rows : <<r, k>> \in Writes
      /\ \A k \in Effects : k \in Rows /\ <<r, k>> # <<r, EventRow>>
      /\ pending \in [Conns -> [Writes -> Nat]] /\ durable \in [Writes -> Nat]
      /\ EventRow \in Rows
  BY DEF SInv, RInv, TypeOK, Writes, Rows, Effects, EventRow
<1>10. Within(r)'
  BY <1>1, <1>3, CapabilityAssumption DEF SInv, Sound, Within, Transactional
<1>11. Event(r)'
  <2>1. SUFFICES ASSUME Transactional(r)
                 PROVE  Event(r)'
    BY <1>1 DEF Event, Transactional
  <2>2. /\ pending' = [pending EXCEPT ![client[r]][<<r, EventRow>>] = @ + 1]
        /\ durable' = durable /\ client[r] \in Conns
    BY <1>1, <2>1 DEF SInv, Sound, Within, Write
  <2>3. \A d \in Conns : pending[d][<<r, EventRow>>] = 0
    BY <1>1, <2>1, NoEventYet
  <2>4. /\ pending'[client[r]][<<r, EventRow>>] = 1
        /\ \A d \in Conns \ {client[r]} : pending'[d][<<r, EventRow>>] = 0
    <3>1. /\ pending'[client[r]] = [pending[client[r]] EXCEPT ![<<r, EventRow>>] = @ + 1]
          /\ \A d \in Conns \ {client[r]} : pending'[d] = pending[d]
      BY <1>9, <2>2
    <3>2. pending[client[r]] \in [Writes -> Nat] /\ <<r, EventRow>> \in Writes
      BY <1>9, <2>2
    <3>3. pending'[client[r]][<<r, EventRow>>] = pending[client[r]][<<r, EventRow>>] + 1
      BY <3>1, <3>2
    <3>4. QED
      BY <2>2, <2>3, <3>1, <3>3
  <2>5. /\ client'[r] = client[r] /\ pc'[r] \in {"commit", "catch"}
        /\ pc'[r] = "commit" => ~Sent(r)
    BY <1>3, <2>1
  <2>6. /\ durable[<<r, EventRow>>] <= 1
        /\ ~Sent(r) => durable[<<r, EventRow>>] = 0
    BY <2>1 DEF SInv, Sound, Event
  <2>7. \A d \in Conns : /\ pending'[d][<<r, EventRow>>] <= 1
                         /\ pending'[d][<<r, EventRow>>] # 0 => d = client'[r]
    BY <2>4, <2>5
  <2>8. QED
    BY <1>2, <2>2, <2>5, <2>6, <2>7 DEF Event
<1>12. Built(r)'
  <2>1. \A k \in Effects : durable'[<<r, k>>] = durable[<<r, k>>]
    BY <1>1, <1>9 DEF Write
  <2>2. Told(r) /\ pc'[r] # "effect"
    BY <1>1, <1>3 DEF Told
  <2>3. QED
    BY <1>7, <2>1, <2>2 DEF SInv, Sound, Built
<1>13. QED
  BY <1>6, <1>7, <1>8, <1>10, <1>11, <1>12, SoundStep DEF Sound

\* A timeout is an answer, and not an ok.
LEMMA TimeOutSound ==
  ASSUME SInv, NEW r \in Requests, TimeOut(r)
  PROVE  Owned' /\ \A s \in Requests : Sound(s)'
<1>1. /\ UNCHANGED <<cap, pc, attempt, effect, client, tx, pending, durable>> /\ UNCHANGED db
      /\ Answer(r, "timeout") /\ ~Sent(r)
      /\ response' = [response EXCEPT ![r] = "timeout"] /\ response'[r] = "timeout"
  BY DEF TimeOut, Answer, db, SInv, RInv, TypeOK
<1>2. MovesOnly(r) /\ \A s \in Requests \ {r} : effect'[s] = effect[s] /\ Untouched(s)
  BY <1>1, SameUntouched DEF MovesOnly
<1>3. TransactionLeaked => TransactionLeaked'
  BY <1>1, LeakStays DEF SInv, RInv, Responses
<1>4. Owned'
  BY <1>1, <1>3, OwnedNext DEF SInv
<1>5. Within(r)' /\ Event(r)'
  BY <1>1 DEF SInv, Sound, Within, Event, Transactional, Sent
<1>6. Built(r)'
  BY <1>1, <1>3 DEF SInv, Sound, Built, Told
<1>7. QED
  BY <1>2, <1>3, <1>4, <1>5, <1>6, SoundStep DEF Sound

\* A client that is closed is nobody's.
LEMMA CloseIdleSound ==
  ASSUME SInv, NEW c \in Conns, CloseIdle(c)
  PROVE  Owned' /\ \A s \in Requests : Sound(s)'
<1>1. /\ c \in idle /\ EndTx(c, FALSE) /\ UNCHANGED <<cap, pc, response, client, effect>>
  BY DEF CloseIdle, request
<1>2. \A s \in Requests : client[s] # c
  BY <1>1 DEF SInv, Pool, Ownership, Uses
<1>3. \A s \in Requests : Untouched(s)
  BY <1>1, <1>2, EndUntouched DEF SInv, RInv
<1>4. TransactionLeaked => TransactionLeaked'
  BY <1>1 DEF TransactionLeaked, Transactional
<1>5. \A d \in Conns : tx'[d] # "none" => tx[d] # "none"
  BY <1>1 DEF EndTx, SInv, RInv, TypeOK
<1>6. Owned'
  BY <1>1, <1>4, <1>5, OwnedNext DEF SInv
<1>7. \A s \in Requests : Sound(s)'
  BY <1>1, <1>3, <1>4, Bystander
<1>8. QED
  BY <1>6, <1>7

\* Every step keeps the transactions with their owners and the requests sound.
LEMMA SInvStep == SInv /\ [Next]_vars => SInv'
<1> SUFFICES ASSUME SInv, [Next]_vars
             PROVE  SInv'
  OBVIOUS
<1>1. Pool' /\ RInv'
  BY PoolStep, RInvStep DEF SInv
<1>2. ASSUME NEW r \in Requests, Arrive(r) \/ Handler(r) \/ TimeOut(r)
      PROVE  Owned' /\ \A s \in Requests : Sound(s)'
  BY <1>2, ArriveSound, StartAttemptSound, BeginSound, CheckSound, CheckFailsSound, IssueSound,
     EffectRunsSound, StatementFailsSound, PublishSound, CommitSound, CommitFailsSound, CatchSound, TimeOutSound
     DEF Handler
<1>3. ASSUME NEW c \in Conns, CloseIdle(c)
      PROVE  Owned' /\ \A s \in Requests : Sound(s)'
  BY <1>3, CloseIdleSound
<1>4. CASE UNCHANGED vars
  <2>1. UNCHANGED <<cap, pc, response, effect, client, tx, pending, durable>>
    BY <1>4 DEF vars, request, db
  <2>2. TransactionLeaked' <=> TransactionLeaked
    BY <2>1 DEF TransactionLeaked, Transactional
  <2>3. Owned'
    BY <2>1, <2>2 DEF SInv, Owned
  <2>4. \A s \in Requests : Sound(s)'
    BY <2>1, <2>2 DEF SInv, Sound, Within, Event, Built, Told, Transactional, Sent
  <2>5. QED
    BY <1>1, <2>3, <2>4 DEF SInv
<1>5. QED
  BY <1>1, <1>2, <1>3, <1>4 DEF Next, SInv

\* However many requests fail, time out, are retried or wait for each other, a
\* client is idle with a transaction on it only after a transactional request
\* was refused, the one return that skips both COMMIT and ROLLBACK.
THEOREM OnlyRefusalsLeaveOpen == Spec => []OnlyRefusalsLeak
<1>1. SInv => OnlyRefusalsLeak
  <2> SUFFICES ASSUME SInv, NEW c \in idle, tx[c] # "none"
               PROVE  TransactionLeaked
    BY DEF OnlyRefusalsLeak
  <2>1. c \in Conns /\ \A r \in Requests : client[r] # c
    BY DEF SInv, Pool, Types, Ownership, Uses
  <2>2. QED
    BY <2>1 DEF SInv, Owned
<1>2. QED
  BY <1>1, SInvInit, SInvStep, PTL DEF Spec

\* A transactional request never leaves two events behind, however often it is
\* retried: an attempt after an answer cannot reach its COMMIT.
THEOREM OneEventEach == Spec => []EventAtMostOnce
<1>1. SInv => EventAtMostOnce
  BY DEF SInv, Sound, Event, EventAtMostOnce
<1>2. QED
  BY <1>1, SInvInit, SInvStep, PTL DEF Spec

\* Unless a transactional request was refused, an ok response and a committed
\* event each mean that every effect of the request is committed.
THEOREM SuccessIsComplete == Spec => []SuccessMeansEffects
<1>1. SInv => SuccessMeansEffects
  BY DEF SInv, Sound, Built, Told, SuccessMeansEffects
<1>2. QED
  BY <1>1, SInvInit, SInvStep, PTL DEF Spec
=============================================================================
