------------------------- MODULE BatchExecutorProofs -------------------------
(***************************************************************************)
(* Proofs about BatchExecutor for any requests, capabilities, handlers,    *)
(* overlapping callbacks, pool size and number of restarts.                *)
(***************************************************************************)
EXTENDS BatchExecutor, FiniteSetTheorems, SequenceTheorems, WellFoundedInduction, TLAPS

Settled(r) == promise[r] \in {"resolved", "rejected", "gone"}

\* A request that a queue or a callback has in hand.
Live(r) == promise[r] = "pending" /\ r \notin stranded

FlushType ==
  [pc : {"off", "scan", "connect", "begin", "items", "rollback"},
   at : 1 .. Len(Order) + 1, batch : Seq(Requests), done : Nat,
   wrote : SUBSET Requests, tx : {"none", "ok", "aborted"}]

Types ==
  /\ queue \in [Capabilities -> Seq(Requests)]
  /\ promise \in [Requests -> {"none", "pending", "resolved", "rejected", "gone"}]
  /\ flush \in [Ticks -> FlushType]
  /\ durable \subseteq Requests /\ stranded \subseteq Requests
  /\ flushes \subseteq [wrote : SUBSET Requests, tx : {"none", "ok", "aborted"},
                        committed : BOOLEAN]
  /\ restarts \in 0 .. MaxRestarts
  /\ \A t \in Ticks : /\ flush[t].done <= Len(flush[t].batch)
                      /\ flush[t].pc \in {"off", "scan"} => flush[t].batch = <<>>
  /\ \A r \in stranded : promise[r] # "none"

\* The places of a request: the index i of the queue of c, and what the
\* callback t still has to handle, at index k of its batch.
Queued(r, c, i) == i \in 1 .. Len(queue[c]) /\ queue[c][i] = r
Held(r, t, k) ==
  k \in flush[t].done + 1 .. Len(flush[t].batch) /\ flush[t].batch[k] = r

\* Each request in a queue or in hand of a callback is live, and there once.
QueuesSound ==
  \A r \in Requests, c \in Capabilities, i \in Nat : Queued(r, c, i) =>
    /\ Live(r) /\ c = CapOf[r]
    /\ \A j \in Nat : Queued(r, c, j) => j = i
    /\ \A t \in Ticks, k \in Nat : ~Held(r, t, k)

HeldSound ==
  \A r \in Requests, t \in Ticks, k \in Nat : Held(r, t, k) =>
    /\ Live(r)
    /\ \A u \in Ticks, l \in Nat : Held(r, u, l) => u = t /\ l = k

\* Each live request is somewhere.
Located ==
  \A r \in Requests : Live(r) =>
    \/ \E i \in Nat : Queued(r, CapOf[r], i)
    \/ \E t \in Ticks, k \in Nat : Held(r, t, k)

\* What a callback has handled is settled.
Handled ==
  \A t \in Ticks : \A k \in 1 .. flush[t].done : Settled(flush[t].batch[k])

\* Only settled items have written anything, and what a running flush has
\* written is neither durable nor written by any other flush.
Wrote ==
  /\ \A r \in durable : Settled(r)
  /\ \A f \in flushes : \A r \in f.wrote : Settled(r)
  /\ \A t \in Ticks : /\ \A r \in flush[t].wrote : Settled(r)
                      /\ flush[t].pc \notin {"items", "rollback"} => flush[t].wrote = {}
  /\ \A t \in Ticks : flush[t].pc = "items" =>
        /\ flush[t].wrote \cap durable = {}
        /\ \A f \in flushes : flush[t].wrote \cap f.wrote = {}
        /\ \A u \in Ticks \ {t} : flush[u].pc = "items" => flush[t].wrote \cap flush[u].wrote = {}

\* A flush that is over is durable as a whole or not at all.
Kept ==
  \A f \in flushes :
    /\ f.committed => f.wrote \subseteq durable /\ f.tx = "ok"
    /\ ~f.committed => f.wrote \cap durable = {}

\* Every client of the pool is idle or held by one callback.
Busy == {t \in Ticks : flush[t].pc \in {"begin", "items", "rollback"}}
Pool == free \in Nat /\ IsFiniteSet(Busy) /\ free + Cardinality(Busy) = Clients

IInv ==
  /\ Types /\ QueuesSound /\ HeldSound /\ Located /\ Handled
  /\ Wrote /\ Kept /\ Pool

-----------------------------------------------------------------------------
(* Places *)

\* What a callback has not settled is what it still has to handle.
LEMMA UnsettledIsHeld ==
  ASSUME Types, HeldSound, Handled, NEW t \in Ticks
  PROVE  Unsettled(flush[t].batch) = {r \in Requests : \E k \in Nat : Held(r, t, k)}
<1> DEFINE b == flush[t].batch
<1>1. b \in Seq(Requests) /\ flush[t].done \in Nat /\ flush[t].done <= Len(b)
  BY DEF Types, FlushType
<1>2. ASSUME NEW r \in Unsettled(b)
      PROVE  r \in Requests /\ \E k \in Nat : Held(r, t, k)
  <2>1. PICK k \in 1 .. Len(b) : r = b[k] /\ promise[r] = "pending"
    BY <1>1 DEF Unsettled, Range
  <2>2. ~(k <= flush[t].done)
    BY <1>1, <2>1 DEF Handled, Settled
  <2>3. Held(r, t, k) /\ k \in Nat /\ r \in Requests
    BY <1>1, <2>1, <2>2 DEF Held
  <2>4. QED
    BY <2>3
<1>3. ASSUME NEW r \in Requests, NEW k \in Nat, Held(r, t, k)
      PROVE  r \in Unsettled(b)
  <2>1. promise[r] = "pending"
    BY <1>3 DEF HeldSound, Live
  <2>2. k \in 1 .. Len(b) /\ b[k] = r
    BY <1>1, <1>3 DEF Held
  <2>3. QED
    BY <1>1, <2>1, <2>2 DEF Unsettled, Range
<1>4. QED
  BY <1>2, <1>3

\* Requests that are settled or stranded leave their places, the others stay.
LEMMA Leave ==
  ASSUME QueuesSound, HeldSound, Located, NEW S,
         \A r \in Requests : Live(r)' <=> Live(r) /\ r \notin S,
         \A r \in Requests, c \in Capabilities, i \in Nat :
            Queued(r, c, i)' <=> Queued(r, c, i) /\ r \notin S,
         \A r \in Requests, t \in Ticks, k \in Nat :
            Held(r, t, k)' <=> Held(r, t, k) /\ r \notin S
  PROVE  QueuesSound' /\ HeldSound' /\ Located'
<1>1. QueuesSound'
  BY DEF QueuesSound
<1>2. HeldSound'
  BY DEF HeldSound
<1>3. Located'
  BY BatchAssumption DEF Located
<1>4. QED
  BY <1>1, <1>2, <1>3

\* A step that leaves every request where it is.
LEMMA Stay ==
  ASSUME QueuesSound, HeldSound, Located,
         \A r \in Requests : Live(r)' <=> Live(r),
         \A r \in Requests, c \in Capabilities, i \in Nat : Queued(r, c, i)' <=> Queued(r, c, i),
         \A r \in Requests, t \in Ticks, k \in Nat : Held(r, t, k)' <=> Held(r, t, k)
  PROVE  QueuesSound' /\ HeldSound' /\ Located'
<1>1. QueuesSound'
  BY DEF QueuesSound
<1>2. HeldSound'
  BY DEF HeldSound
<1>3. Located'
  BY BatchAssumption DEF Located
<1>4. QED
  BY <1>1, <1>2, <1>3

\* A step that writes nothing.
LEMMA WriteNothing ==
  ASSUME Wrote, Kept, durable' = durable, flushes' = flushes,
         \A r \in Requests : Settled(r) => Settled(r)', Types,
         \A t \in Ticks : /\ flush'[t].wrote \subseteq flush[t].wrote
                          /\ flush'[t].pc \notin {"items", "rollback"} => flush'[t].wrote = {}
                          /\ flush'[t].pc = "items" =>
                                flush[t].pc = "items" \/ flush'[t].wrote = {}
  PROVE  Wrote' /\ Kept'
<1>1. \A r \in durable : Settled(r)'
  BY DEF Wrote, Types
<1>2. \A f \in flushes : \A r \in f.wrote : Settled(r)'
  BY DEF Wrote, Types
<1>3. ASSUME NEW t \in Ticks PROVE \A r \in flush'[t].wrote : Settled(r)'
  <2>1. flush[t].wrote \subseteq Requests
    BY DEF Types, FlushType
  <2>2. QED
    BY <2>1 DEF Wrote
<1>4. ASSUME NEW t \in Ticks, flush'[t].pc = "items"
      PROVE  /\ flush'[t].wrote \cap durable = {}
             /\ \A f \in flushes : flush'[t].wrote \cap f.wrote = {}
             /\ \A u \in Ticks \ {t} : flush'[u].pc = "items" =>
                   flush'[t].wrote \cap flush'[u].wrote = {}
  <2>1. CASE flush'[t].wrote = {}
    BY <2>1
  <2>2. CASE flush[t].pc = "items"
    BY <2>2 DEF Wrote
  <2>3. QED
    BY <1>4, <2>1, <2>2
<1>5. Wrote'
  BY <1>1, <1>2, <1>3, <1>4 DEF Wrote
<1>6. Kept'
  BY DEF Kept
<1>7. QED
  BY <1>5, <1>6

-----------------------------------------------------------------------------
(* Clients *)

LEMMA Connected ==
  ASSUME Pool, NEW t \in Ticks, t \notin Busy, Busy' = Busy \cup {t}, free > 0,
         free' = free - 1
  PROVE  Pool'
<1>1. IsFiniteSet(Busy') /\ Cardinality(Busy') = Cardinality(Busy) + 1
  BY FS_AddElement DEF Pool
<1>2. Cardinality(Busy) \in Nat /\ free \in Nat /\ free + Cardinality(Busy) = Clients
  BY FS_CardinalityType DEF Pool
<1>3. free' \in Nat /\ free' + Cardinality(Busy') = Clients
  BY <1>1, <1>2
<1>4. QED
  BY <1>1, <1>3 DEF Pool

LEMMA Released ==
  ASSUME Pool, NEW t \in Busy, Busy' = Busy \ {t}, free' = free + 1
  PROVE  Pool'
<1>1. IsFiniteSet(Busy') /\ Cardinality(Busy') = Cardinality(Busy) - 1
  BY FS_RemoveElement DEF Pool
<1>2. Cardinality(Busy) \in Nat /\ free \in Nat /\ free + Cardinality(Busy) = Clients
  BY FS_CardinalityType DEF Pool
<1>3. free' \in Nat /\ free' + Cardinality(Busy') = Clients
  BY <1>1, <1>2
<1>4. QED
  BY <1>1, <1>3 DEF Pool

LEMMA SameClients ==
  ASSUME Pool, Busy' = Busy, free' = free
  PROVE  Pool'
BY DEF Pool

-----------------------------------------------------------------------------
(* One lemma for each action *)

\* The state of a callback that is between two flushes.
LEMMA ScanFacts ==
  ASSUME Types, NEW t \in Ticks
  PROVE  /\ Scan(t) \in FlushType /\ Off \in FlushType
         /\ Scan(t).pc = "scan" /\ Scan(t).batch = <<>> /\ Scan(t).done = 0
         /\ Scan(t).wrote = {}
         /\ Off.pc = "off" /\ Off.batch = <<>> /\ Off.done = 0 /\ Off.wrote = {}
         /\ Len(<<>>) = 0
<1>1. Len(Order) \in Nat
  BY BatchAssumption
<1>2. flush[t].at \in 1 .. Len(Order) + 1
  BY DEF Types, FlushType
<1>3. 1 \in 1 .. Len(Order) + 1
  BY <1>1
<1>4. <<>> \in Seq(Requests) /\ Len(<<>>) = 0 /\ 0 \in Nat /\ {} \in SUBSET Requests
  OBVIOUS
<1>5. Off \in FlushType
  BY <1>3, <1>4 DEF Off, FlushType
<1>6. /\ Scan(t) \in FlushType /\ Scan(t).pc = "scan" /\ Scan(t).batch = Off.batch
      /\ Scan(t).done = Off.done /\ Scan(t).wrote = Off.wrote
  BY <1>2, <1>5 DEF Scan, FlushType
<1>7. QED
  BY <1>4, <1>5, <1>6 DEF Off

\* A callback ends its flush: what it still held is settled or stranded.
LEMMA FlushEnds ==
  ASSUME IInv, NEW t \in Ticks, flush' = [flush EXCEPT ![t] = Scan(t)], queue' = queue,
         \/ promise' = promise /\ stranded' = stranded \cup Unsettled(flush[t].batch)
         \/ /\ promise' = [r \in Requests |->
                 IF r \in Unsettled(flush[t].batch) THEN "rejected" ELSE promise[r]]
            /\ stranded' = stranded
         \/ /\ promise' = promise /\ stranded' = stranded
            /\ Unsettled(flush[t].batch) = {},
         restarts' = restarts, durable' \subseteq Requests,
         flushes' \subseteq [wrote : SUBSET Requests, tx : {"none", "ok", "aborted"},
                             committed : BOOLEAN]
  PROVE  /\ Types' /\ QueuesSound' /\ HeldSound' /\ Located' /\ Handled'
         /\ \A r \in Requests : Settled(r) => Settled(r)'
<1> DEFINE S == Unsettled(flush[t].batch)
<1>1. S = {r \in Requests : \E k \in Nat : Held(r, t, k)}
  BY UnsettledIsHeld DEF IInv
<1>2. \A r \in S : Live(r) /\ r \in Requests
  BY <1>1 DEF IInv, HeldSound
<1> HIDE DEF S
<1>3. \A r \in Requests : Live(r)' <=> Live(r) /\ r \notin S
  BY <1>2 DEF Live, S
<1>4. \A r \in Requests, c \in Capabilities, i \in Nat :
         Queued(r, c, i)' <=> Queued(r, c, i) /\ r \notin S
  <2>1. \A r \in Requests, c \in Capabilities, i \in Nat : Queued(r, c, i) => r \notin S
    BY <1>1 DEF IInv, QueuesSound
  <2>2. QED
    BY <2>1 DEF Queued
<1>5. \A r \in Requests, u \in Ticks, k \in Nat :
         Held(r, u, k)' <=> Held(r, u, k) /\ r \notin S
  <2>1. flush'[t] = Scan(t) /\ \A u \in Ticks \ {t} : flush'[u] = flush[u]
    BY DEF IInv, Types
  <2>2. \A r \in Requests, u \in Ticks \ {t}, k \in Nat :
           Held(r, u, k) => r \notin S
    BY <1>1 DEF IInv, HeldSound
  <2>3. \A r \in Requests, k \in Nat : ~Held(r, t, k)'
    BY <2>1, ScanFacts DEF IInv, Held
  <2>4. \A r \in Requests, k \in Nat : Held(r, t, k) => r \in S
    BY <1>1
  <2>5. \A r \in Requests, u \in Ticks \ {t}, k \in Nat : Held(r, u, k)' <=> Held(r, u, k)
    BY <2>1 DEF Held
  <2>6. QED
    BY <2>2, <2>3, <2>4, <2>5
<1>6. QueuesSound' /\ HeldSound' /\ Located'
  BY <1>3, <1>4, <1>5, Leave DEF IInv
<1>7. \A r \in Requests : Settled(r) => Settled(r)'
  BY DEF Settled, S
<1>8. Types'
  <2>1. flush' \in [Ticks -> FlushType]
    BY ScanFacts DEF IInv, Types
  <2>2. \A u \in Ticks : /\ flush'[u].done <= Len(flush'[u].batch)
                         /\ flush'[u].pc \in {"off", "scan"} => flush'[u].batch = <<>>
    BY ScanFacts DEF IInv, Types
  <2>3. promise' \in [Requests -> {"none", "pending", "resolved", "rejected", "gone"}]
    BY DEF IInv, Types
  <2>4. stranded' \subseteq Requests /\ \A r \in stranded' : promise'[r] # "none"
    BY <1>2 DEF IInv, Types, Live, S
  <2>5. QED
    BY <2>1, <2>2, <2>3, <2>4 DEF IInv, Types
<1>9. Handled'
  <2>1. ASSUME NEW u \in Ticks, NEW k \in 1 .. flush'[u].done
        PROVE  Settled(flush[u].batch[k])'
    <3>1. u # t /\ flush'[u] = flush[u]
      BY ScanFacts DEF IInv, Types
    <3>2. Settled(flush[u].batch[k]) /\ flush[u].batch[k] \in Requests
      <4>1. /\ flush[u].batch \in Seq(Requests) /\ flush[u].done \in Nat
            /\ flush[u].done <= Len(flush[u].batch)
        BY DEF IInv, Types, FlushType
      <4>2. QED
        BY <3>1, <4>1 DEF IInv, Handled
    <3>3. QED
      BY <1>7, <3>1, <3>2 DEF Settled
  <2>2. QED
    BY <2>1 DEF Handled
<1>10. QED
  BY <1>6, <1>7, <1>8, <1>9

\* A callback goes on with the batch, the position and the writes it has.
LEMMA FlushGoesOn ==
  ASSUME IInv, NEW t \in Ticks, NEW f \in FlushType, flush' = [flush EXCEPT ![t] = f],
         f.batch = flush[t].batch, f.done = flush[t].done, f.wrote = flush[t].wrote,
         f.pc \in {"begin", "items", "rollback"},
         f.pc \notin {"items", "rollback"} => f.wrote = {},
         f.pc = "items" => flush[t].pc = "items" \/ f.wrote = {},
         UNCHANGED <<queue, promise, durable, flushes, stranded, restarts>>, Pool'
  PROVE  IInv'
<1>1. flush'[t] = f /\ \A u \in Ticks \ {t} : flush'[u] = flush[u]
  BY DEF IInv, Types
<1>2. Types'
  BY <1>1 DEF IInv, Types
<1>3. /\ \A r \in Requests : Live(r)' <=> Live(r)
      /\ \A r \in Requests : Settled(r)' <=> Settled(r)
  BY DEF Live, Settled
<1>4. \A r \in Requests, c \in Capabilities, j \in Nat : Queued(r, c, j)' <=> Queued(r, c, j)
  BY DEF Queued
<1>5. \A r \in Requests, u \in Ticks, k \in Nat : Held(r, u, k)' <=> Held(r, u, k)
  BY <1>1 DEF Held
<1>6. QueuesSound' /\ HeldSound' /\ Located'
  BY <1>3, <1>4, <1>5, Stay DEF IInv
<1>7. \A u \in Ticks : /\ flush'[u].batch = flush[u].batch /\ flush'[u].done = flush[u].done
                       /\ flush'[u].wrote = flush[u].wrote
  BY <1>1
<1>8. Handled'
  BY <1>7 DEF IInv, Handled, Settled
<1>9. Wrote' /\ Kept'
  <2>1. \A u \in Ticks : /\ flush'[u].wrote \subseteq flush[u].wrote
                         /\ flush'[u].pc \notin {"items", "rollback"} => flush'[u].wrote = {}
                         /\ flush'[u].pc = "items" =>
                               flush[u].pc = "items" \/ flush'[u].wrote = {}
    BY <1>1 DEF IInv, Wrote
  <2>2. QED
    BY <1>3, <2>1, WriteNothing DEF IInv
<1>10. QED
  BY <1>2, <1>6, <1>8, <1>9 DEF IInv

LEMMA ConnectKeepsIInv ==
  ASSUME IInv, NEW t \in Ticks, Connect(t)
  PROVE  IInv'
<1> DEFINE f == [flush[t] EXCEPT !.pc = "begin"]
<1>1. flush[t] \in FlushType /\ flush[t].pc = "connect" /\ flush[t].wrote = {}
  BY DEF IInv, Types, Connect, Wrote
<1>2. /\ f \in FlushType /\ f.pc = "begin" /\ f.batch = flush[t].batch
      /\ f.done = flush[t].done /\ f.wrote = flush[t].wrote
  BY <1>1 DEF FlushType
<1>3. flush' = [flush EXCEPT ![t] = f]
  BY DEF Connect, IInv, Types
<1> HIDE DEF f
<1>4. t \notin Busy /\ Busy' = Busy \cup {t}
  BY <1>1, <1>2, <1>3 DEF Busy, IInv, Types
<1>5. Pool'
  BY <1>4, Connected DEF Connect, IInv
<1>6. QED
  BY <1>1, <1>2, <1>3, <1>5, FlushGoesOn DEF Connect

\* BEGIN leads to the items or to the catch block.
LEMMA BeginKeepsIInv ==
  ASSUME IInv, NEW t \in Ticks, Begin(t)
  PROVE  IInv'
<1>1. flush[t] \in FlushType /\ flush[t].pc = "begin" /\ flush[t].wrote = {}
  BY DEF IInv, Types, Begin, Wrote
<1>2. PICK f \in {[flush[t] EXCEPT !.pc = "items", !.tx = "ok"],
                  [flush[t] EXCEPT !.pc = "rollback"]} : flush' = [flush EXCEPT ![t] = f]
  BY DEF Begin, IInv, Types
<1>3. /\ f \in FlushType /\ f.pc \in {"items", "rollback"} /\ f.batch = flush[t].batch
      /\ f.done = flush[t].done /\ f.wrote = flush[t].wrote
  BY <1>1 DEF FlushType
<1>4. Busy' = Busy
  BY <1>1, <1>2, <1>3 DEF Busy, IInv, Types
<1>5. Pool'
  BY <1>4, SameClients DEF Begin, IInv
<1>6. QED
  BY <1>1, <1>2, <1>3, <1>5, FlushGoesOn DEF Begin

\* What a flush had drained is stranded when it gets no client.
LEMMA ConnectFailsKeepsIInv ==
  ASSUME IInv, NEW t \in Ticks, ConnectFails(t)
  PROVE  IInv'
<1>1. flush' = [flush EXCEPT ![t] = Scan(t)] /\ flush[t].pc = "connect"
  BY DEF ConnectFails
<1>2. /\ Types' /\ QueuesSound' /\ HeldSound' /\ Located' /\ Handled'
      /\ \A r \in Requests : Settled(r) => Settled(r)'
  BY <1>1, FlushEnds DEF ConnectFails, IInv, Types
<1>3. flush'[t] = Scan(t) /\ \A u \in Ticks \ {t} : flush'[u] = flush[u]
  BY <1>1 DEF IInv, Types
<1>4. Wrote' /\ Kept'
  BY <1>2, <1>3, ScanFacts, WriteNothing DEF ConnectFails, IInv, Wrote
<1>5. Busy' = Busy
  BY <1>1, <1>3, ScanFacts DEF Busy, IInv
<1>6. Pool'
  BY <1>5, SameClients DEF ConnectFails, IInv
<1>7. QED
  BY <1>2, <1>4, <1>6 DEF IInv

\* The catch block rejects what the flush still held, or strands it.
LEMMA RollbackKeepsIInv ==
  ASSUME IInv, NEW t \in Ticks, Rollback(t) \/ RollbackFails(t)
  PROVE  IInv'
<1>1. /\ flush' = [flush EXCEPT ![t] = Scan(t)] /\ flush[t].pc = "rollback"
      /\ durable' = durable /\ flushes' = flushes /\ free' = free + 1
  BY DEF Rollback, RollbackFails
<1>2. /\ Types' /\ QueuesSound' /\ HeldSound' /\ Located' /\ Handled'
      /\ \A r \in Requests : Settled(r) => Settled(r)'
  BY <1>1, FlushEnds DEF Rollback, RollbackFails, IInv, Types
<1>3. flush'[t] = Scan(t) /\ \A u \in Ticks \ {t} : flush'[u] = flush[u]
  BY <1>1 DEF IInv, Types
<1>4. Wrote' /\ Kept'
  BY <1>1, <1>2, <1>3, ScanFacts, WriteNothing DEF IInv, Wrote
<1>5. t \in Busy /\ Busy' = Busy \ {t}
  BY <1>1, <1>3, ScanFacts DEF Busy, IInv
<1>6. Pool'
  BY <1>1, <1>5, Released DEF IInv
<1>7. QED
  BY <1>2, <1>4, <1>6 DEF IInv

\* The end of a transaction: its writes are kept as a whole or not at all.
LEMMA Settle ==
  ASSUME IInv, NEW t \in Ticks, flush[t].pc = "items", NEW kept \in BOOLEAN,
         kept => flush[t].tx = "ok",
         durable' = IF kept THEN durable \cup flush[t].wrote ELSE durable,
         flushes' = flushes \cup {[wrote |-> flush[t].wrote, tx |-> flush[t].tx,
                                  committed |-> kept]},
         promise' = promise,
         flush' \in [Ticks -> FlushType], \A u \in Ticks \ {t} : flush'[u] = flush[u],
         flush'[t].wrote \subseteq flush[t].wrote,
         \/ flush'[t].pc = "scan" /\ flush'[t].wrote = {}
         \/ flush'[t].pc = "rollback"
  PROVE  Wrote' /\ Kept'
<1> DEFINE w == flush[t].wrote
           f == [wrote |-> w, tx |-> flush[t].tx, committed |-> kept]
<1>1. /\ w \subseteq Requests /\ w \cap durable = {}
      /\ \A g \in flushes : w \cap g.wrote = {}
      /\ \A r \in w : Settled(r)
  BY DEF IInv, Types, FlushType, Wrote
<1>2. \A r \in Requests : Settled(r)' <=> Settled(r)
  BY DEF Settled
<1>3. /\ \A r \in durable' : Settled(r)'
      /\ \A g \in flushes' : \A r \in g.wrote : Settled(r)'
  BY <1>1, <1>2 DEF IInv, Wrote, Types
<1>4. \A u \in Ticks : /\ \A r \in flush'[u].wrote : Settled(r)'
                       /\ flush'[u].pc \notin {"items", "rollback"} => flush'[u].wrote = {}
  BY <1>1, <1>2 DEF IInv, Wrote, Types, FlushType
<1>5. ASSUME NEW u \in Ticks, flush'[u].pc = "items"
      PROVE  /\ flush'[u].wrote \cap durable' = {}
             /\ \A g \in flushes' : flush'[u].wrote \cap g.wrote = {}
             /\ \A v \in Ticks \ {u} : flush'[v].pc = "items" =>
                   flush'[u].wrote \cap flush'[v].wrote = {}
  <2>1. u # t /\ flush'[u] = flush[u]
    BY <1>5
  <2>2. /\ flush[u].wrote \cap durable = {} /\ flush[u].wrote \cap w = {}
        /\ \A g \in flushes : flush[u].wrote \cap g.wrote = {}
    BY <1>5, <2>1 DEF IInv, Wrote
  <2>3. \A v \in Ticks \ {u} : flush'[v].pc = "items" =>
           flush'[u].wrote \cap flush'[v].wrote = {}
    BY <1>5, <2>1 DEF IInv, Wrote
  <2>4. QED
    BY <2>1, <2>2, <2>3
<1>6. Wrote'
  BY <1>3, <1>4, <1>5 DEF Wrote
<1>7. Kept'
  <2> SUFFICES ASSUME NEW g \in flushes'
               PROVE  /\ g.committed => g.wrote \subseteq durable' /\ g.tx = "ok"
                      /\ ~g.committed => g.wrote \cap durable' = {}
    BY DEF Kept
  <2>1. CASE g \in flushes
    BY <1>1, <2>1 DEF IInv, Kept
  <2>2. CASE g = f
    BY <1>1, <2>2
  <2>3. QED
    BY <2>1, <2>2
<1>8. QED
  BY <1>6, <1>7

\* COMMIT, which keeps the writes unless the transaction is aborted.
LEMMA CommitKeepsIInv ==
  ASSUME IInv, NEW t \in Ticks, Commit(t)
  PROVE  IInv'
<1> DEFINE kept == flush[t].tx = "ok"
<1>1. /\ flush' = [flush EXCEPT ![t] = Scan(t)] /\ flush[t].pc = "items"
      /\ flush[t].done = Len(flush[t].batch) /\ free' = free + 1
      /\ durable' = IF kept THEN durable \cup flush[t].wrote ELSE durable
      /\ flushes' = flushes \cup {[wrote |-> flush[t].wrote, tx |-> flush[t].tx,
                                  committed |-> kept]}
      /\ UNCHANGED <<queue, promise, stranded, restarts>>
  BY DEF Commit, Over
<1>2. /\ flush[t].wrote \subseteq Requests /\ flush[t].tx \in {"none", "ok", "aborted"}
      /\ kept \in BOOLEAN /\ flush[t] \in FlushType /\ flush[t].batch \in Seq(Requests)
  BY DEF IInv, Types, FlushType
<1>3. Unsettled(flush[t].batch) = {}
  BY <1>1, <1>2, UnsettledIsHeld DEF IInv, Held
<1> HIDE DEF kept
<1>4. /\ durable' \subseteq Requests
      /\ flushes' \subseteq [wrote : SUBSET Requests, tx : {"none", "ok", "aborted"},
                             committed : BOOLEAN]
  BY <1>1, <1>2 DEF IInv, Types
<1>5. /\ Types' /\ QueuesSound' /\ HeldSound' /\ Located' /\ Handled'
      /\ \A r \in Requests : Settled(r) => Settled(r)'
  BY <1>1, <1>3, <1>4, FlushEnds
<1>6. /\ flush'[t] = Scan(t) /\ \A u \in Ticks \ {t} : flush'[u] = flush[u]
      /\ flush' \in [Ticks -> FlushType]
  BY <1>1, <1>5 DEF IInv, Types
<1>7. flush'[t].wrote = {} /\ flush'[t].pc = "scan"
  BY <1>6, ScanFacts DEF IInv
<1>8. Wrote' /\ Kept'
  BY <1>1, <1>2, <1>6, <1>7, Settle DEF kept
<1>9. t \in Busy /\ Busy' = Busy \ {t}
  BY <1>1, <1>6, <1>7 DEF Busy, IInv
<1>10. Pool'
  BY <1>1, <1>9, Released DEF IInv
<1>11. QED
  BY <1>5, <1>8, <1>10 DEF IInv

\* A COMMIT that fails may have been carried out; the catch block follows.
LEMMA CommitFailsKeepsIInv ==
  ASSUME IInv, NEW t \in Ticks, CommitFails(t)
  PROVE  IInv'
<1> DEFINE f == [flush[t] EXCEPT !.pc = "rollback"]
<1>1. PICK kept \in BOOLEAN :
        /\ kept => flush[t].tx = "ok"
        /\ durable' = IF kept THEN durable \cup flush[t].wrote ELSE durable
        /\ flushes' = flushes \cup {[wrote |-> flush[t].wrote, tx |-> flush[t].tx,
                                    committed |-> kept]}
  BY DEF CommitFails, Over
<1>2. /\ flush[t].pc = "items" /\ UNCHANGED <<queue, promise, free, stranded, restarts>>
  BY DEF CommitFails
<1>3. /\ flush[t] \in FlushType /\ flush[t].wrote \subseteq Requests
      /\ flush[t].tx \in {"none", "ok", "aborted"}
  BY DEF IInv, Types, FlushType
<1>4. flush' = [flush EXCEPT ![t] = f]
  BY DEF CommitFails, IInv, Types
<1>5. /\ f \in FlushType /\ f.pc = "rollback" /\ f.batch = flush[t].batch
      /\ f.done = flush[t].done /\ f.wrote = flush[t].wrote
  BY <1>3 DEF FlushType
<1> HIDE DEF f
<1>6. flush'[t] = f /\ \A u \in Ticks \ {t} : flush'[u] = flush[u]
  BY <1>4 DEF IInv, Types
<1>7. flush' \in [Ticks -> FlushType]
  BY <1>4, <1>5 DEF IInv, Types
<1>8. Wrote' /\ Kept'
  BY <1>1, <1>2, <1>5, <1>6, <1>7, Settle
<1>9. /\ durable' \subseteq Requests
      /\ flushes' \subseteq [wrote : SUBSET Requests, tx : {"none", "ok", "aborted"},
                             committed : BOOLEAN]
  BY <1>1, <1>3 DEF IInv, Types
<1>10. Types'
  <2>1. \A u \in Ticks : /\ flush'[u].done <= Len(flush'[u].batch)
                         /\ flush'[u].pc \in {"off", "scan"} => flush'[u].batch = <<>>
    BY <1>5, <1>6 DEF IInv, Types
  <2>2. QED
    BY <1>2, <1>7, <1>9, <2>1 DEF IInv, Types
<1>11. /\ \A r \in Requests : Live(r)' <=> Live(r)
       /\ \A r \in Requests : Settled(r)' <=> Settled(r)
  BY <1>2 DEF Live, Settled
<1>12. \A r \in Requests, c \in Capabilities, j \in Nat : Queued(r, c, j)' <=> Queued(r, c, j)
  BY <1>2 DEF Queued
<1>13. \A r \in Requests, u \in Ticks, k \in Nat : Held(r, u, k)' <=> Held(r, u, k)
  BY <1>5, <1>6 DEF Held
<1>14. QueuesSound' /\ HeldSound' /\ Located'
  BY <1>11, <1>12, <1>13, Stay DEF IInv
<1>15. Handled'
  <2>1. \A u \in Ticks : flush'[u].batch = flush[u].batch /\ flush'[u].done = flush[u].done
    BY <1>5, <1>6
  <2>2. QED
    BY <1>2, <2>1 DEF IInv, Handled, Settled
<1>16. Busy' = Busy
  BY <1>2, <1>5, <1>6 DEF Busy
<1>17. Pool'
  BY <1>2, <1>16, SameClients DEF IInv
<1>18. QED
  BY <1>8, <1>10, <1>14, <1>15, <1>17 DEF IInv

\* What a handler can do with an item.
LEMMA OutcomeFacts ==
  ASSUME NEW t \in Ticks, NEW r \in Requests, NEW o \in Outcomes(t, r),
         flush[t].tx \in {"none", "ok", "aborted"}
  PROVE  /\ o.settles \in {"resolved", "rejected"} /\ o.tx \in {"none", "ok", "aborted"}
         /\ o.writes \in BOOLEAN
<1>1. CASE CapOf[r] \notin Registered
  <2>1. o = [writes |-> FALSE, settles |-> "rejected", tx |-> flush[t].tx]
    BY <1>1 DEF Outcomes
  <2>2. QED
    BY <2>1
<1>2. CASE CapOf[r] \in Registered
  <2>1. o \in [writes : BOOLEAN, settles : {"resolved", "rejected"}, tx : {"ok", "aborted"}]
    BY <1>2 DEF Outcomes
  <2>2. QED
    BY <2>1
<1>3. QED
  BY <1>1, <1>2

\* The item a callback handles is its own and not settled; what its handler
\* writes nobody else has written.
LEMMA ItemKeepsIInv ==
  ASSUME IInv, NEW t \in Ticks, NEW q \in Requests, NEW o \in Outcomes(t, q), Item(t, o)
  PROVE  IInv'
<1>1. /\ flush[t] \in FlushType /\ flush[t].batch \in Seq(Requests) /\ flush[t].done \in Nat
      /\ flush[t].wrote \subseteq Requests /\ flush[t].tx \in {"none", "ok", "aborted"}
  BY DEF IInv, Types, FlushType
<1>2. PICK n \in Nat, r \in Requests : n = flush[t].done + 1 /\ r = flush[t].batch[n]
  BY <1>1 DEF Item
<1>3. /\ n \in 1 .. Len(flush[t].batch) /\ Held(r, t, n) /\ o \in Outcomes(t, r)
      /\ flush[t].pc = "items" /\ flush[t].done < Len(flush[t].batch)
  BY <1>1, <1>2 DEF Item, Held
<1>4. /\ o.settles \in {"resolved", "rejected"} /\ o.tx \in {"none", "ok", "aborted"}
      /\ o.writes \in BOOLEAN
  BY <1>1, <1>3, OutcomeFacts
<1> DEFINE f == [flush[t] EXCEPT !.done = n, !.tx = o.tx,
                                 !.wrote = IF o.writes THEN @ \cup {r} ELSE @]
<1>5. /\ promise' = [promise EXCEPT ![r] = o.settles]
      /\ flush' = [flush EXCEPT ![t] = f]
      /\ UNCHANGED <<queue, free, durable, flushes, stranded, restarts>>
  BY <1>2 DEF Item, IInv, Types
<1> DEFINE w == IF o.writes THEN flush[t].wrote \cup {r} ELSE flush[t].wrote
<1>6. w \subseteq Requests /\ w \subseteq flush[t].wrote \cup {r}
  BY <1>1, <1>4
<1>7. /\ f \in FlushType /\ f.pc = "items" /\ f.batch = flush[t].batch /\ f.done = n
      /\ f.wrote = w
  <2>1. f = [flush[t] EXCEPT !.done = n, !.tx = o.tx, !.wrote = w]
    BY <1>1 DEF FlushType
  <2> HIDE DEF w
  <2>2. QED
    BY <1>1, <1>3, <1>4, <1>6, <2>1 DEF FlushType
<1>8. Live(r)
  BY <1>3 DEF IInv, HeldSound
<1>9. flush'[t] = f /\ \A u \in Ticks \ {t} : flush'[u] = flush[u]
  BY <1>5 DEF IInv, Types
<1> HIDE DEF f, w
<1>10. /\ Settled(r)' /\ ~Settled(r)
       /\ \A p \in Requests : Settled(p) => Settled(p)'
       /\ \A p \in Requests : Live(p)' <=> Live(p) /\ p \notin {r}
  <2>1. promise'[r] = o.settles /\ \A p \in Requests \ {r} : promise'[p] = promise[p]
    BY <1>3, <1>5 DEF IInv, Types
  <2>2. QED
    BY <1>3, <1>4, <1>5, <1>8, <2>1 DEF Live, Settled
<1>11. \A p \in Requests, c \in Capabilities, j \in Nat :
          Queued(p, c, j)' <=> Queued(p, c, j) /\ p \notin {r}
  <2>1. \A c \in Capabilities, j \in Nat : ~Queued(r, c, j)
    BY <1>3 DEF IInv, QueuesSound
  <2>2. QED
    BY <1>5, <2>1 DEF Queued
<1>12. \A p \in Requests, u \in Ticks, k \in Nat :
          Held(p, u, k)' <=> Held(p, u, k) /\ p \notin {r}
  <2>1. \A u \in Ticks, k \in Nat : Held(r, u, k) => u = t /\ k = n
    BY <1>3 DEF IInv, HeldSound
  <2>2. \A p \in Requests, u \in Ticks \ {t}, k \in Nat : Held(p, u, k)' <=> Held(p, u, k)
    BY <1>9 DEF Held
  <2>3. ASSUME NEW p \in Requests, NEW k \in Nat
        PROVE  Held(p, t, k)' <=> Held(p, t, k) /\ k # n
    <3>1. Held(p, t, k)' <=> k \in n + 1 .. Len(flush[t].batch) /\ flush[t].batch[k] = p
      BY <1>7, <1>9 DEF Held
    <3>2. QED
      BY <1>1, <1>2, <1>3, <3>1 DEF Held
  <2>4. \A p \in Requests : Held(p, t, n) <=> p = r
    BY <1>3 DEF Held
  <2>5. QED
    BY <1>3, <2>1, <2>2, <2>3, <2>4
<1>13. QueuesSound' /\ HeldSound' /\ Located'
  BY <1>10, <1>11, <1>12, Leave DEF IInv
<1>14. Types'
  <2>1. flush' \in [Ticks -> FlushType]
    BY <1>5, <1>7 DEF IInv, Types
  <2>2. \A u \in Ticks : /\ flush'[u].done <= Len(flush'[u].batch)
                         /\ flush'[u].pc \in {"off", "scan"} => flush'[u].batch = <<>>
    BY <1>3, <1>7, <1>9 DEF IInv, Types
  <2>3. promise' \in [Requests -> {"none", "pending", "resolved", "rejected", "gone"}]
    BY <1>4, <1>5 DEF IInv, Types
  <2>4. \A p \in stranded : promise'[p] # "none"
    BY <1>4, <1>5 DEF IInv, Types
  <2>5. QED
    BY <1>5, <2>1, <2>2, <2>3, <2>4 DEF IInv, Types
<1>15. Handled'
  <2>1. ASSUME NEW u \in Ticks, NEW k \in 1 .. flush'[u].done
        PROVE  Settled(flush[u].batch[k])'
    <3>1. flush'[u].batch = flush[u].batch
      BY <1>7, <1>9
    <3>2. /\ flush[u].batch \in Seq(Requests) /\ flush[u].done \in Nat
          /\ flush[u].done <= Len(flush[u].batch)
      BY DEF IInv, Types, FlushType
    <3>3. CASE k \in 1 .. flush[u].done
      <4>1. Settled(flush[u].batch[k]) /\ flush[u].batch[k] \in Requests
        BY <3>2, <3>3 DEF IInv, Handled
      <4>2. QED
        BY <1>10, <3>1, <4>1 DEF Settled
    <3>4. CASE k \notin 1 .. flush[u].done
      <4>1. u = t /\ k = n
        BY <1>1, <1>2, <1>3, <1>7, <1>9, <3>2, <3>4
      <4>2. flush[u].batch[k] = r
        BY <1>2, <4>1
      <4>3. QED
        BY <1>10, <3>1, <4>2 DEF Settled
    <3>5. QED
      BY <3>3, <3>4
  <2>2. QED
    BY <2>1 DEF Handled
<1>16. Wrote'
  <2>1. \A p \in durable' : Settled(p)'
    BY <1>5, <1>10 DEF IInv, Wrote, Types
  <2>2. \A g \in flushes' : \A p \in g.wrote : Settled(p)'
    BY <1>5, <1>10 DEF IInv, Wrote, Types
  <2>3. \A u \in Ticks : /\ \A p \in flush'[u].wrote : Settled(p)'
                         /\ flush'[u].pc \notin {"items", "rollback"} => flush'[u].wrote = {}
    <3>1. \A u \in Ticks \ {t} : /\ \A p \in flush'[u].wrote : Settled(p)'
                                 /\ flush'[u].pc \notin {"items", "rollback"} =>
                                       flush'[u].wrote = {}
      BY <1>9, <1>10 DEF IInv, Wrote, Types, FlushType
    <3>2. \A p \in flush'[t].wrote : Settled(p)'
      BY <1>1, <1>6, <1>7, <1>9, <1>10 DEF IInv, Wrote
    <3>3. flush'[t].pc = "items"
      BY <1>7, <1>9
    <3>4. QED
      BY <3>1, <3>2, <3>3
  <2>4. \A u \in Ticks \ {t} : r \notin flush[u].wrote
    BY <1>10 DEF IInv, Wrote
  <2>5. r \notin durable /\ \A g \in flushes : r \notin g.wrote
    BY <1>10 DEF IInv, Wrote
  <2>6. ASSUME NEW u \in Ticks, flush'[u].pc = "items"
        PROVE  /\ flush'[u].wrote \cap durable' = {}
               /\ \A g \in flushes' : flush'[u].wrote \cap g.wrote = {}
               /\ \A v \in Ticks \ {u} : flush'[v].pc = "items" =>
                     flush'[u].wrote \cap flush'[v].wrote = {}
    <3>1. flush[u].pc = "items"
      BY <1>3, <1>9, <2>6
    <3>2. \A v \in Ticks : flush'[v].wrote \subseteq flush[v].wrote \cup
                              (IF v = t THEN {r} ELSE {})
      BY <1>6, <1>7, <1>9
    <3>3. \A v \in Ticks \ {u} : flush'[v].pc = "items" =>
             flush'[u].wrote \cap flush'[v].wrote = {}
      <4>1. \A v \in Ticks \ {u} : flush'[v].pc = "items" =>
              flush[v].pc = "items" /\ flush[u].wrote \cap flush[v].wrote = {}
        BY <1>3, <1>9, <3>1 DEF IInv, Wrote
      <4>2. QED
        BY <2>4, <3>2, <4>1
    <3>4. flush[u].wrote \cap durable = {} /\ \A g \in flushes : flush[u].wrote \cap g.wrote = {}
      BY <3>1 DEF IInv, Wrote
    <3>5. QED
      BY <1>5, <2>5, <3>2, <3>3, <3>4
  <2>7. QED
    BY <2>1, <2>2, <2>3, <2>6 DEF Wrote
<1>17. Kept'
  BY <1>5 DEF IInv, Kept
<1>18. Busy' = Busy
  BY <1>3, <1>7, <1>9 DEF Busy
<1>19. Pool'
  BY <1>5, <1>18, SameClients DEF IInv
<1>20. QED
  BY <1>13, <1>14, <1>15, <1>16, <1>17, <1>19 DEF IInv

\* A new request is nowhere yet; it joins the queue of its capability.
LEMMA EnqueueKeepsIInv ==
  ASSUME IInv, NEW r \in Requests, Enqueue(r)
  PROVE  IInv'
<1> DEFINE c == CapOf[r]
<1> PICK n \in Nat : n = Len(queue[c]) + 1
  BY BatchAssumption DEF IInv, Types
<1>1. /\ promise[r] = "none" /\ promise' = [promise EXCEPT ![r] = "pending"]
      /\ queue' = [queue EXCEPT ![c] = Append(@, r)]
      /\ UNCHANGED <<flush, free, durable, flushes, stranded, restarts>>
  BY DEF Enqueue
<1>2. c \in Capabilities /\ queue[c] \in Seq(Requests) /\ n \in Nat /\ n \in 1 .. n
  BY BatchAssumption DEF IInv, Types
<1>3. /\ queue'[c] = Append(queue[c], r) /\ Len(queue'[c]) = n /\ queue'[c][n] = r
      /\ \A i \in 1 .. Len(queue[c]) : queue'[c][i] = queue[c][i]
      /\ \A b \in Capabilities \ {c} : queue'[b] = queue[b]
  BY <1>1, <1>2 DEF IInv, Types
<1>4. /\ promise'[r] = "pending" /\ \A p \in Requests \ {r} : promise'[p] = promise[p]
      /\ r \notin stranded
  BY <1>1 DEF IInv, Types
<1>5. /\ \A p \in Requests : Live(p)' <=> Live(p) \/ p = r
      /\ \A p \in Requests : Settled(p)' <=> Settled(p)
      /\ ~Live(r)
  BY <1>1, <1>4 DEF Live, Settled
<1>6. /\ \A b \in Capabilities, i \in Nat : ~Queued(r, b, i)
      /\ \A t \in Ticks, k \in Nat : ~Held(r, t, k)
  BY <1>5 DEF IInv, QueuesSound, HeldSound
<1>7. \A p \in Requests, t \in Ticks, k \in Nat : Held(p, t, k)' <=> Held(p, t, k)
  BY <1>1 DEF Held
<1>8. \A p \in Requests, b \in Capabilities, i \in Nat :
         Queued(p, b, i)' <=> Queued(p, b, i) \/ (p = r /\ b = c /\ i = n)
  <2>1. \A p \in Requests, b \in Capabilities \ {c}, i \in Nat :
           Queued(p, b, i)' <=> Queued(p, b, i)
    BY <1>3 DEF Queued
  <2>2. Len(queue[c]) \in Nat /\ 1 .. n = (1 .. Len(queue[c])) \cup {n}
        /\ n \notin 1 .. Len(queue[c])
    BY <1>2
  <2>3. \A p \in Requests, i \in Nat :
           Queued(p, c, i)' <=> Queued(p, c, i) \/ (p = r /\ i = n)
    BY <1>3, <2>2 DEF Queued
  <2>4. QED
    BY <2>1, <2>3
<1> HIDE DEF c
<1>9. QueuesSound'
  BY <1>5, <1>6, <1>7, <1>8 DEF IInv, QueuesSound, c
<1>10. HeldSound'
  BY <1>5, <1>7 DEF IInv, HeldSound
<1>11. Located'
  <2>1. Queued(r, CapOf[r], n)' /\ n \in Nat
    BY <1>2, <1>8 DEF c
  <2>2. ASSUME NEW p \in Requests, Live(p)
        PROVE  \/ \E i \in Nat : Queued(p, CapOf[p], i)'
               \/ \E t \in Ticks, k \in Nat : Held(p, t, k)'
    BY <1>7, <1>8, <2>2, BatchAssumption DEF IInv, Located
  <2>3. QED
    BY <1>5, <2>1, <2>2 DEF Located
<1>12. Types'
  <2>1. queue' \in [Capabilities -> Seq(Requests)]
    BY <1>1, <1>2 DEF IInv, Types
  <2>2. promise' \in [Requests -> {"none", "pending", "resolved", "rejected", "gone"}]
    BY <1>1 DEF IInv, Types
  <2>3. \A p \in stranded : promise'[p] # "none"
    BY <1>4 DEF IInv, Types
  <2>4. QED
    BY <1>1, <2>1, <2>2, <2>3 DEF IInv, Types
<1>13. Handled'
  <2>1. \A t \in Ticks : \A k \in 1 .. flush[t].done : flush[t].batch[k] \in Requests
    BY DEF IInv, Types, FlushType
  <2>2. QED
    BY <1>1, <1>5, <2>1 DEF IInv, Handled, Settled
<1>14. Wrote' /\ Kept'
  <2>1. \A t \in Ticks : /\ flush'[t].wrote \subseteq flush[t].wrote
                         /\ flush'[t].pc \notin {"items", "rollback"} => flush'[t].wrote = {}
                         /\ flush'[t].pc = "items" =>
                               flush[t].pc = "items" \/ flush'[t].wrote = {}
    BY <1>1 DEF IInv, Wrote
  <2>2. QED
    BY <1>1, <1>5, <2>1, WriteNothing DEF IInv
<1>15. Busy' = Busy
  BY <1>1 DEF Busy
<1>16. Pool'
  BY <1>1, <1>15, SameClients DEF IInv
<1>17. QED
  BY <1>9, <1>10, <1>11, <1>12, <1>13, <1>14, <1>16 DEF IInv

\* A nonempty set of naturals has a least element.
LEMMA LeastNatural ==
  ASSUME NEW S \in SUBSET Nat, S # {}
  PROVE  Min(S) \in S
<1>1. IsWellFoundedOn(OpToRel(<, Nat), Nat)
  BY NatLessThanWellFounded
<1>2. PICK i \in S : \A j \in S : <<j, i>> \notin OpToRel(<, Nat)
  BY <1>1, WFMin
<1>3. \A j \in S : ~(j < i)
  BY <1>2 DEF OpToRel
<1>4. \A j \in S : i \in Nat /\ j \in Nat
  OBVIOUS
<1>5. \A j \in S : i <= j
  BY <1>3, <1>4
<1>6. QED
  BY <1>5 DEF Min

\* A queue that is drained goes to the callback as a whole.
LEMMA DrainKeepsIInv ==
  ASSUME IInv, NEW t \in Ticks, Drain(t)
  PROVE  IInv'
<1> DEFINE from == IF flush[t].pc = "off" THEN 1 ELSE flush[t].at
           waiting == {i \in from .. Len(Order) : queue[Order[i]] # <<>>}
<1>1. /\ flush[t] \in FlushType /\ flush[t].pc \in {"off", "scan"} /\ flush[t].batch = <<>>
      /\ flush[t].wrote = {} /\ flush[t].at \in Nat \ {0} /\ flush[t].done \in Nat
      /\ UNCHANGED <<promise, free, durable, flushes, stranded, restarts>>
  BY DEF Drain, IInv, Types, FlushType, Wrote
<1>2. Len(Order) \in Nat /\ from \in Nat \ {0}
  BY <1>1, BatchAssumption
<1>3. \A p \in Requests, k \in Nat : ~Held(p, t, k)
  BY <1>1 DEF Held
<1>4. /\ \A p \in Requests : Live(p)' <=> Live(p)
      /\ \A p \in Requests : Settled(p)' <=> Settled(p)
  BY <1>1 DEF Live, Settled
<1>5. PICK f \in FlushType :
        /\ flush' = [flush EXCEPT ![t] = f] /\ f.pc \in {"off", "connect"}
        /\ f.done = 0 /\ f.wrote = {}
        /\ f.pc = "off" => f.batch = <<>>
        /\ \/ queue' = queue /\ f.batch = <<>>
           \/ \E c \in Capabilities : /\ queue' = [queue EXCEPT ![c] = <<>>]
                                     /\ f.batch = queue[c]
  <2>1. CASE waiting = {}
    BY <2>1, ScanFacts DEF Drain, IInv
  <2>2. CASE waiting # {}
    <3> DEFINE m == Min(waiting)
    <3>1. m \in waiting
      <4>1. waiting \in SUBSET Nat
        BY <1>2
      <4> HIDE DEF waiting
      <4>2. QED
        BY <2>2, <4>1, LeastNatural
    <3>2. m \in 1 .. Len(Order) /\ m + 1 \in 1 .. Len(Order) + 1
      BY <1>2, <3>1
    <3>3. Order[m] \in Capabilities
      BY <3>2, BatchAssumption, ElementOfSeq
    <3> HIDE DEF waiting
    <3> DEFINE g == [Off EXCEPT !.pc = "connect", !.at = m + 1, !.batch = queue[Order[m]]]
    <3>4. flush' = [flush EXCEPT ![t] = g] /\ queue' = [queue EXCEPT ![Order[m]] = <<>>]
      BY <2>2 DEF Drain, waiting
    <3> HIDE DEF m
    <3>5. queue[Order[m]] \in Seq(Requests)
      BY <3>3 DEF IInv, Types
    <3>6. /\ g \in FlushType /\ g.pc = "connect" /\ g.batch = queue[Order[m]]
          /\ g.done = Off.done /\ g.wrote = Off.wrote
      BY <3>2, <3>5, ScanFacts DEF FlushType, IInv
    <3> HIDE DEF g
    <3>7. QED
      BY <3>3, <3>4, <3>6, ScanFacts DEF IInv
  <2>3. QED
    BY <2>1, <2>2
<1>6. flush'[t] = f /\ \A u \in Ticks \ {t} : flush'[u] = flush[u]
  BY <1>5 DEF IInv, Types
<1>7. QueuesSound' /\ HeldSound' /\ Located' /\ queue' \in [Capabilities -> Seq(Requests)]
  <2>1. \A p \in Requests, u \in Ticks \ {t}, k \in Nat : Held(p, u, k)' <=> Held(p, u, k)
    BY <1>6 DEF Held
  <2>2. CASE queue' = queue /\ f.batch = <<>>
    <3>1. \A p \in Requests, k \in Nat : Held(p, t, k)' <=> Held(p, t, k)
      BY <1>3, <1>5, <1>6, <2>2 DEF Held
    <3>2. \A p \in Requests, u \in Ticks, k \in Nat : Held(p, u, k)' <=> Held(p, u, k)
      BY <2>1, <3>1
    <3>3. \A p \in Requests, b \in Capabilities, i \in Nat : Queued(p, b, i)' <=> Queued(p, b, i)
      BY <2>2 DEF Queued
    <3>4. QueuesSound' /\ HeldSound' /\ Located'
      BY <1>4, <3>2, <3>3, Stay DEF IInv
    <3>5. QED
      BY <2>2, <3>4 DEF IInv, Types
  <2>3. ASSUME NEW c \in Capabilities, queue' = [queue EXCEPT ![c] = <<>>], f.batch = queue[c]
        PROVE  QueuesSound' /\ HeldSound' /\ Located' /\ queue' \in [Capabilities -> Seq(Requests)]
    <3>1. queue'[c] = <<>> /\ \A b \in Capabilities \ {c} : queue'[b] = queue[b]
      BY <2>3 DEF IInv, Types
    <3>2. \A p \in Requests, b \in Capabilities, i \in Nat :
             Queued(p, b, i)' <=> Queued(p, b, i) /\ b # c
      BY <3>1 DEF Queued
    <3>3. \A p \in Requests, k \in Nat : Held(p, t, k)' <=> Queued(p, c, k)
      BY <1>5, <1>6, <2>3 DEF Held, Queued
    <3>4. QueuesSound'
      BY <1>4, <2>1, <3>2, <3>3 DEF IInv, QueuesSound
    <3>5. HeldSound'
      <4>1. ASSUME NEW p \in Requests, NEW u \in Ticks, NEW k \in Nat, Held(p, u, k)'
            PROVE  Live(p)' /\ \A v \in Ticks, l \in Nat : Held(p, v, l)' => v = u /\ l = k
        <5>1. CASE u = t
          BY <1>4, <2>1, <3>3, <4>1, <5>1 DEF IInv, QueuesSound
        <5>2. CASE u # t
          BY <1>4, <2>1, <3>3, <4>1, <5>2 DEF IInv, QueuesSound, HeldSound
        <5>3. QED
          BY <5>1, <5>2
      <4>2. QED
        BY <4>1 DEF HeldSound
    <3>6. Located'
      <4>1. ASSUME NEW p \in Requests, Live(p)
            PROVE  \/ \E i \in Nat : Queued(p, CapOf[p], i)'
                   \/ \E u \in Ticks, k \in Nat : Held(p, u, k)'
        <5>1. CASE \E i \in Nat : Queued(p, CapOf[p], i)
          BY <3>2, <3>3, <5>1, BatchAssumption
        <5>2. CASE \E u \in Ticks, k \in Nat : Held(p, u, k)
          BY <1>3, <2>1, <5>2
        <5>3. QED
          BY <4>1, <5>1, <5>2 DEF IInv, Located
      <4>2. QED
        BY <1>4, <4>1 DEF Located
    <3>7. queue' \in [Capabilities -> Seq(Requests)]
      <4>1. <<>> \in Seq(Requests)
        OBVIOUS
      <4>2. QED
        BY <2>3, <4>1 DEF IInv, Types
    <3>8. QED
      BY <3>4, <3>5, <3>6, <3>7
  <2>4. QED
    BY <1>5, <2>2, <2>3
<1>8. Types'
  <2>1. flush' \in [Ticks -> FlushType]
    BY <1>5 DEF IInv, Types
  <2>2. Len(f.batch) \in Nat
    BY DEF FlushType
  <2>3. \A u \in Ticks : /\ flush'[u].done <= Len(flush'[u].batch)
                         /\ flush'[u].pc \in {"off", "scan"} => flush'[u].batch = <<>>
    BY <1>5, <1>6, <2>2 DEF IInv, Types
  <2>4. QED
    BY <1>1, <1>7, <2>1, <2>3 DEF IInv, Types
<1>9. Handled'
  <2>1. ASSUME NEW u \in Ticks, NEW k \in 1 .. flush'[u].done
        PROVE  Settled(flush[u].batch[k])'
    <3>1. u # t /\ flush'[u] = flush[u]
      BY <1>5, <1>6
    <3>2. QED
      BY <1>1, <3>1 DEF IInv, Handled, Settled
  <2>2. QED
    BY <2>1 DEF Handled
<1>10. Wrote' /\ Kept'
  <2>1. \A u \in Ticks : /\ flush'[u].wrote \subseteq flush[u].wrote
                         /\ flush'[u].pc \notin {"items", "rollback"} => flush'[u].wrote = {}
                         /\ flush'[u].pc = "items" =>
                               flush[u].pc = "items" \/ flush'[u].wrote = {}
    BY <1>5, <1>6 DEF IInv, Wrote
  <2>2. QED
    BY <1>1, <1>4, <2>1, WriteNothing DEF IInv
<1>11. Busy' = Busy
  BY <1>1, <1>5, <1>6 DEF Busy
<1>12. Pool'
  BY <1>1, <1>11, SameClients DEF IInv
<1>13. QED
  BY <1>7, <1>8, <1>9, <1>10, <1>12 DEF IInv

\* A restart empties the queues and settles what was pending as gone; what the
\* open transactions had written is rolled back.
LEMMA RestartKeepsIInv ==
  ASSUME IInv, Restart
  PROVE  IInv'
<1> DEFINE lost == {[wrote |-> flush[t].wrote, tx |-> flush[t].tx, committed |-> FALSE] :
                      t \in {u \in Ticks : flush[u].pc = "items"}}
<1>1. /\ queue' = [c \in Capabilities |-> <<>>] /\ flush' = [t \in Ticks |-> Off]
      /\ promise' = [r \in Requests |-> IF promise[r] = "pending" THEN "gone" ELSE promise[r]]
      /\ flushes' = flushes \cup lost /\ free' = Clients
      /\ durable' = durable /\ stranded' = stranded /\ restarts' \in 0 .. MaxRestarts
  BY BatchAssumption DEF Restart, IInv, Types
<1>2. /\ \A r \in Requests : ~Live(r)'
      /\ \A r \in Requests : Settled(r) => Settled(r)'
  BY <1>1 DEF Live, Settled
<1>3. /\ \A r \in Requests, c \in Capabilities, i \in Nat : ~Queued(r, c, i)'
      /\ \A r \in Requests, t \in Ticks, k \in Nat : ~Held(r, t, k)'
  BY <1>1, ScanFacts DEF Queued, Held, IInv
<1>4. QueuesSound' /\ HeldSound' /\ Located'
  BY <1>2, <1>3 DEF QueuesSound, HeldSound, Located
<1>5. ASSUME NEW g \in lost
      PROVE  /\ g \in [wrote : SUBSET Requests, tx : {"none", "ok", "aborted"}, committed : BOOLEAN]
             /\ ~g.committed /\ g.wrote \cap durable = {}
             /\ \A r \in g.wrote : Settled(r)
  <2>1. PICK t \in Ticks : /\ flush[t].pc = "items"
                          /\ g = [wrote |-> flush[t].wrote, tx |-> flush[t].tx,
                                  committed |-> FALSE]
    OBVIOUS
  <2>2. flush[t].wrote \subseteq Requests /\ flush[t].tx \in {"none", "ok", "aborted"}
    BY DEF IInv, Types, FlushType
  <2>3. flush[t].wrote \cap durable = {} /\ \A r \in flush[t].wrote : Settled(r)
    BY <2>1 DEF IInv, Wrote
  <2>4. QED
    BY <2>1, <2>2, <2>3
<1> HIDE DEF lost
<1>6. Types'
  <2>1. queue' \in [Capabilities -> Seq(Requests)]
    <3>1. <<>> \in Seq(Requests)
      OBVIOUS
    <3>2. QED
      BY <1>1, <3>1
  <2>2. flush' \in [Ticks -> FlushType]
    BY <1>1, ScanFacts DEF IInv
  <2>3. \A t \in Ticks : /\ flush'[t].done <= Len(flush'[t].batch)
                         /\ flush'[t].pc \in {"off", "scan"} => flush'[t].batch = <<>>
    BY <1>1, ScanFacts DEF IInv
  <2>4. /\ promise' \in [Requests -> {"none", "pending", "resolved", "rejected", "gone"}]
        /\ \A r \in stranded : promise'[r] # "none"
    BY <1>1 DEF IInv, Types
  <2>5. flushes' \subseteq [wrote : SUBSET Requests, tx : {"none", "ok", "aborted"},
                           committed : BOOLEAN]
    BY <1>1, <1>5 DEF IInv, Types
  <2>6. QED
    BY <1>1, <2>1, <2>2, <2>3, <2>4, <2>5 DEF IInv, Types
<1>7. Handled'
  BY <1>1, ScanFacts DEF IInv, Handled
<1>8. Wrote'
  <2>1. \A r \in durable' : Settled(r)'
    BY <1>1, <1>2 DEF IInv, Wrote, Types
  <2>2. \A g \in flushes' : \A r \in g.wrote : Settled(r)'
    BY <1>1, <1>2, <1>5 DEF IInv, Wrote, Types
  <2>3. \A t \in Ticks : flush'[t].wrote = {} /\ flush'[t].pc = "off"
    BY <1>1, ScanFacts DEF IInv
  <2>4. QED
    BY <2>1, <2>2, <2>3 DEF Wrote
<1>9. Kept'
  BY <1>1, <1>5 DEF IInv, Kept
<1>10. Pool'
  <2>1. Busy' = {}
    BY <1>1, ScanFacts DEF IInv, Busy
  <2>2. QED
    BY <1>1, <2>1, FS_EmptySet, BatchAssumption DEF Pool
<1>11. QED
  BY <1>4, <1>6, <1>7, <1>8, <1>9, <1>10 DEF IInv

-----------------------------------------------------------------------------
(* The theorems *)

LEMMA IInvInit == Init => IInv
<1> SUFFICES ASSUME Init PROVE IInv
  OBVIOUS
<1>1. <<>> \in Seq(Requests) /\ Len(<<>>) = 0 /\ Len(Order) \in Nat
  BY BatchAssumption
<1>2. Off \in FlushType /\ Off.pc = "off" /\ Off.batch = <<>> /\ Off.done = 0 /\ Off.wrote = {}
  <2>1. 1 \in 1 .. Len(Order) + 1
    BY <1>1
  <2>2. QED
    BY <1>1, <2>1 DEF Off, FlushType
<1>3. Types
  BY <1>1, <1>2, BatchAssumption DEF Init, Types
<1>4. QueuesSound /\ HeldSound /\ Located
  BY <1>1, <1>2 DEF Init, QueuesSound, HeldSound, Located, Queued, Held, Live
<1>5. Handled /\ Wrote /\ Kept
  BY <1>2 DEF Init, Handled, Wrote, Kept
<1>6. Pool
  <2>1. Busy = {}
    BY <1>2 DEF Init, Busy
  <2>2. QED
    BY <2>1, FS_EmptySet, BatchAssumption DEF Init, Pool
<1>7. QED
  BY <1>3, <1>4, <1>5, <1>6 DEF IInv

LEMMA IInvStep == IInv /\ [Next]_vars => IInv'
<1> SUFFICES ASSUME IInv, [Next]_vars PROVE IInv'
  OBVIOUS
<1>1. ASSUME NEW r \in Requests, Enqueue(r) PROVE IInv'
  BY <1>1, EnqueueKeepsIInv
<1>2. ASSUME NEW t \in Ticks, Work(t) PROVE IInv'
  <2>1. CASE Drain(t) \/ Begin(t)
    BY <2>1, DrainKeepsIInv, BeginKeepsIInv
  <2>2. CASE Commit(t) \/ CommitFails(t)
    BY <2>2, CommitKeepsIInv, CommitFailsKeepsIInv
  <2>3. CASE Rollback(t) \/ RollbackFails(t)
    BY <2>3, RollbackKeepsIInv
  <2>4. CASE \E r \in Requests : \E o \in Outcomes(t, r) : Item(t, o)
    BY <2>4, ItemKeepsIInv
  <2>5. QED
    BY <1>2, <2>1, <2>2, <2>3, <2>4 DEF Work
<1>3. ASSUME NEW t \in Ticks, Connect(t) \/ ConnectFails(t) PROVE IInv'
  BY <1>3, ConnectKeepsIInv, ConnectFailsKeepsIInv
<1>4. CASE Restart
  BY <1>4, RestartKeepsIInv
<1>5. CASE UNCHANGED vars
  <2>1. /\ queue' = queue /\ promise' = promise /\ flush' = flush /\ free' = free
        /\ durable' = durable /\ flushes' = flushes /\ stranded' = stranded
        /\ restarts' = restarts
    BY <1>5 DEF vars
  <2>2. Types' /\ Handled' /\ Wrote' /\ Kept'
    BY <2>1 DEF IInv, Types, Handled, Wrote, Kept, Settled
  <2>3. QueuesSound' /\ HeldSound' /\ Located'
    BY <2>1 DEF IInv, QueuesSound, HeldSound, Located, Queued, Held, Live
  <2>4. Pool'
    BY <2>1 DEF IInv, Pool, Busy
  <2>5. QED
    BY <2>2, <2>3, <2>4 DEF IInv
<1>6. QED
  BY <1>1, <1>2, <1>3, <1>4, <1>5 DEF Next

LEMMA IInvAlways == Spec => []IInv
BY IInvInit, IInvStep, PTL DEF Spec

\* The variables of the batch executor keep their types; in particular there are
\* never more idle clients than the pool has.
THEOREM BatchTypeOK == Spec => []TypeOK
<1>1. ASSUME IInv PROVE TypeOK
  <2>1. free \in 0 .. Clients
    <3>1. Cardinality(Busy) \in Nat /\ free \in Nat /\ free + Cardinality(Busy) = Clients
      BY <1>1, FS_CardinalityType DEF IInv, Pool
    <3>2. QED
      BY <3>1
  <2>2. QED
    BY <1>1, <2>1 DEF IInv, Types, FlushType, TypeOK
<1>2. QED
  BY <1>1, IInvAlways, PTL

\* A flush keeps the writes of all its items or of none, and of none once the
\* server has aborted its transaction, however many flushes overlap.
THEOREM FlushesAreAtomic == Spec => []FlushIsAtomic
<1>1. ASSUME IInv PROVE FlushIsAtomic
  <2> SUFFICES ASSUME NEW f \in flushes
               PROVE  /\ f.wrote \subseteq durable \/ f.wrote \cap durable = {}
                      /\ f.wrote # {} => (f.committed <=> f.wrote \subseteq durable)
                      /\ f.committed => f.tx = "ok"
    BY DEF FlushIsAtomic
  <2>1. f.committed \in BOOLEAN
    BY <1>1 DEF IInv, Types
  <2>2. /\ f.committed => f.wrote \subseteq durable /\ f.tx = "ok"
        /\ ~f.committed => f.wrote \cap durable = {}
    BY <1>1 DEF IInv, Kept
  <2>3. CASE f.committed
    BY <2>2, <2>3
  <2>4. CASE ~f.committed
    BY <2>2, <2>4
  <2>5. QED
    BY <2>3, <2>4
<1>2. QED
  BY <1>1, IInvAlways, PTL

\* The rest of a batch, as PendingIsTracked sees it.
LEMMA RestOfBatch ==
  ASSUME Types, NEW t \in Ticks, NEW r \in Requests
  PROVE  r \in Range(SubSeq(flush[t].batch, flush[t].done + 1, Len(flush[t].batch)))
           <=> \E k \in Nat : Held(r, t, k)
<1> DEFINE b == flush[t].batch
           m == flush[t].done + 1
           n == Len(b)
           s == SubSeq(b, m, n)
<1>1. b \in Seq(Requests) /\ m \in Nat \ {0} /\ n \in Nat /\ m <= n + 1
  BY DEF Types, FlushType
<1>2. \A i \in m .. n : b[i] \in Requests
  BY <1>1
<1> HIDE DEF m, n, b
<1>3. /\ s \in Seq(Requests) /\ Len(s) = n - m + 1
      /\ \A i \in 1 .. n - m + 1 : s[i] = b[m + i - 1]
  <2>1. /\ s \in Seq(Requests) /\ Len(s) = IF m <= n THEN n - m + 1 ELSE 0
        /\ \A i \in 1 .. n - m + 1 : s[i] = b[m + i - 1]
    BY <1>1, <1>2, SubSeqProperties
  <2> HIDE DEF s
  <2>2. QED
    BY <1>1, <2>1
<1> HIDE DEF s
<1>4. ASSUME NEW i \in 1 .. Len(s), s[i] = r
      PROVE  \E k \in Nat : k \in m .. n /\ b[k] = r
  <2>1. m + i - 1 \in m .. n /\ m + i - 1 \in Nat /\ b[m + i - 1] = r
    BY <1>1, <1>3, <1>4
  <2>2. QED
    BY <2>1
<1>5. ASSUME NEW k \in m .. n, b[k] = r
      PROVE  \E i \in 1 .. Len(s) : s[i] = r
  <2>1. k - m + 1 \in 1 .. n - m + 1 /\ m + (k - m + 1) - 1 = k
    BY <1>1
  <2>2. s[k - m + 1] = r
    BY <1>3, <1>5, <2>1
  <2>3. QED
    BY <1>3, <2>1, <2>2
<1>6. r \in Range(s) <=> \E i \in 1 .. Len(s) : s[i] = r
  BY <1>3 DEF Range
<1>7. r \in Range(s) <=> \E k \in Nat : k \in m .. n /\ b[k] = r
  BY <1>1, <1>4, <1>5, <1>6
<1>8. QED
  BY <1>7 DEF Held, s, b, m, n

\* Every request that is enqueued and neither settled nor stranded is in one
\* place, a queue or what one callback still has to handle; no other is in any.
THEOREM PendingTracked == Spec => []PendingIsTracked
<1>1. ASSUME IInv PROVE PendingIsTracked
  <2> SUFFICES ASSUME NEW r \in Requests
               PROVE  LET queued == {i \in DOMAIN queue[CapOf[r]] : queue[CapOf[r]][i] = r}
                          held == {t \in Ticks : r \in Range(SubSeq(flush[t].batch,
                                                    flush[t].done + 1, Len(flush[t].batch)))}
                      IN  Cardinality(queued) + Cardinality(held) =
                            IF promise[r] = "pending" /\ r \notin stranded THEN 1 ELSE 0
    BY DEF PendingIsTracked
  <2> DEFINE c == CapOf[r]
             queued == {i \in DOMAIN queue[c] : queue[c][i] = r}
             held == {t \in Ticks : r \in Range(SubSeq(flush[t].batch, flush[t].done + 1,
                                                       Len(flush[t].batch)))}
  <2>1. c \in Capabilities /\ queue[c] \in Seq(Requests)
    BY <1>1, BatchAssumption DEF IInv, Types
  <2>2. queued = {i \in Nat : Queued(r, c, i)}
    BY <2>1 DEF Queued
  <2>3. held = {t \in Ticks : \E k \in Nat : Held(r, t, k)}
    BY <1>1, RestOfBatch DEF IInv
  <2>4. CASE ~Live(r)
    <3>1. queued = {} /\ held = {}
      BY <1>1, <2>1, <2>2, <2>3, <2>4 DEF IInv, QueuesSound, HeldSound
    <3> HIDE DEF queued, held
    <3>2. Cardinality(queued) + Cardinality(held) = 0
      BY <3>1, FS_EmptySet
    <3>3. QED
      BY <2>4, <3>2 DEF Live, queued, held
  <2>5. CASE Live(r) /\ \E i \in Nat : Queued(r, c, i)
    <3>1. PICK i \in Nat : Queued(r, c, i)
      BY <2>5
    <3>2. queued = {i}
      BY <1>1, <2>1, <2>2, <3>1 DEF IInv, QueuesSound
    <3>3. held = {}
      BY <1>1, <2>1, <2>3, <3>1 DEF IInv, QueuesSound
    <3> HIDE DEF queued, held
    <3>4. Cardinality(queued) = 1 /\ Cardinality(held) = 0
      BY <3>2, <3>3, FS_EmptySet, FS_Singleton
    <3>5. QED
      BY <2>5, <3>4 DEF Live, queued, held
  <2>6. CASE Live(r) /\ ~ \E i \in Nat : Queued(r, c, i)
    <3>1. PICK t \in Ticks, k \in Nat : Held(r, t, k)
      BY <1>1, <2>6 DEF IInv, Located
    <3>2. held = {t}
      BY <1>1, <2>3, <3>1 DEF IInv, HeldSound
    <3>3. queued = {}
      BY <2>2, <2>6
    <3> HIDE DEF queued, held
    <3>4. Cardinality(queued) = 0 /\ Cardinality(held) = 1
      BY <3>2, <3>3, FS_EmptySet, FS_Singleton
    <3>5. QED
      BY <2>6, <3>4 DEF Live, queued, held
  <2>7. QED
    BY <2>4, <2>5, <2>6
<1>2. QED
  BY <1>1, IInvAlways, PTL

=============================================================================
