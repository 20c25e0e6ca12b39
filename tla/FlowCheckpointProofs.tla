------------------------ MODULE FlowCheckpointProofs ------------------------
(***************************************************************************)
(* Proofs about FlowCheckpoint for any runs, flows, allow lists, requests  *)
(* and numbers of checkpoints, pauses and restarts.                        *)
(***************************************************************************)
EXTENDS FlowCheckpoint, SequenceTheorems, TLAPS

Ends == {"reject", "cancel"}
RowType == [cp : Checkpoints, decision : Decisions \cup {"pending"}]
ActType == [row : Nat, decision : Decisions, timedOut : BOOLEAN]
SubmitType ==
  [pc : {"update", "not_allowed", "conflict", "wake", "ok", "dropped"},
   run : Runs, cp : Checkpoints, decision : Decisions, row : 0 .. MaxPauses]

Types ==
  /\ state \in [Runs -> {"absent", "running", "paused", "resumed",
                         "completed", "cancelled", "failed"}]
  /\ rows \in [Runs -> Seq(RowType)] /\ acted \in [Runs -> Seq(ActType)]
  /\ pending \subseteq Runs \X Checkpoints
  /\ at \in [Runs -> {"start", "work", "pausing", "paused", "awaiting", "resolved",
                      "done", "dead"}]
  /\ step \in [Runs -> 1 .. NumCheckpoints + 1]
  /\ result \in [Runs -> [decision : Decisions \cup {"none"}, timedOut : BOOLEAN]]
  /\ submit \in [Submits -> SubmitType \cup {NoSubmit}]
  /\ crashes \in 0 .. MaxCrashes

\* Where a run is, and how many rows it has and has acted on.
Progress(r) ==
  LET n == Len(rows[r])  a == Len(acted[r])
  IN  /\ at[r] \in {"pausing", "paused", "awaiting", "resolved"} => step[r] \in Checkpoints
      /\ n <= MaxPauses /\ a <= n
      /\ at[r] = "pausing" => n < MaxPauses
      /\ at[r] \in {"start", "work", "pausing", "resolved"} => n = a
      /\ at[r] \in {"paused", "awaiting"} => n = a + 1

\* What a run has acted on is what its rows record; only its last wait can have
\* timed out, and then the run ends.
Acted(r) ==
  \A i \in 1 .. Len(acted[r]) :
    /\ acted[r][i].row = i
    /\ ~acted[r][i].timedOut => acted[r][i].decision = rows[r][i].decision
    /\ acted[r][i].timedOut => /\ i = Len(rows[r]) /\ at[r] \in {"resolved", "done", "dead"}
                               /\ at[r] = "resolved" => result[r].decision \in Ends

\* Only the last row of a run can be undecided.
Decided(r) == \A i \in 1 .. Len(rows[r]) - 1 : rows[r][i].decision # "pending"

\* The row of an accepted request records its decision.  While the request has
\* still to wake the awaiter, the run is at that row, or about to end.
Request(s) ==
  LET q == submit[s]  r == q.run
  IN  Accepted(s) =>
        /\ q.row \in 1 .. Len(rows[r]) /\ rows[r][q.row].decision = q.decision
        /\ q.pc = "wake" => /\ at[r] \in {"paused", "awaiting", "resolved", "done", "dead"}
                            /\ at[r] \in {"paused", "awaiting"} => q.row = Len(rows[r])
                            /\ at[r] = "resolved" => result[r].decision \in Ends

Registered(r) ==
  /\ at[r] = "awaiting" <=> <<r, step[r]>> \in pending
  /\ \A cp \in Checkpoints : <<r, cp>> \in pending => cp = step[r]

RunOK(r) == Progress(r) /\ Acted(r) /\ Decided(r) /\ Registered(r)

IInv ==
  /\ Types
  /\ \A r \in Runs : RunOK(r)
  /\ \A s \in Submits : Request(s)
  /\ OneDecisionPerRow

-----------------------------------------------------------------------------
(* What a step leaves alone *)

\* A run that a step does not touch.
LEMMA OtherRun ==
  ASSUME NEW b \in Runs, RunOK(b), rows'[b] = rows[b], at'[b] = at[b], step'[b] = step[b],
         result'[b] = result[b], acted'[b] = acted[b],
         \A cp : <<b, cp>> \in pending' <=> <<b, cp>> \in pending
  PROVE  RunOK(b)'
BY DEF RunOK, Progress, Acted, Decided, Registered

\* A request that has still to wake the awaiter of r.
Waking(s, r) == submit[s] # NoSubmit /\ submit[s].pc = "wake" /\ submit[s].run = r

\* A step of one run, as the requests see it: rows are only added, and nobody is
\* waking a run that goes on.
LEMMA RequestsKept ==
  ASSUME IInv, submit' = submit, NEW r \in Runs,
         \A b \in Runs \ {r} : rows'[b] = rows[b] /\ at'[b] = at[b] /\ result'[b] = result[b],
         Len(rows'[r]) \in Nat, Len(rows[r]) <= Len(rows'[r]),
         \A i \in 1 .. Len(rows[r]) : rows'[r][i] = rows[r][i],
         \/ \A s \in Submits : ~Waking(s, r)
         \/ /\ Len(rows'[r]) = Len(rows[r])
            /\ at'[r] \in {"paused", "awaiting", "resolved", "done", "dead"}
            /\ at'[r] \in {"paused", "awaiting"} => at[r] \in {"paused", "awaiting"}
            /\ at'[r] = "resolved" => result'[r].decision \in Ends
  PROVE  (\A s \in Submits : Request(s)') /\ OneDecisionPerRow'
<1>1. ASSUME NEW s \in Submits, Accepted(s)
      PROVE  LET q == submit[s]
             IN  /\ q.row \in 1 .. Len(rows'[q.run])
                 /\ rows'[q.run][q.row].decision = q.decision
                 /\ q.pc = "wake" =>
                      /\ at'[q.run] \in {"paused", "awaiting", "resolved", "done", "dead"}
                      /\ at'[q.run] \in {"paused", "awaiting"} => q.row = Len(rows'[q.run])
                      /\ at'[q.run] = "resolved" => result'[q.run].decision \in Ends
  <2> DEFINE q == submit[s]
  <2>1. q \in SubmitType /\ q.run \in Runs
    BY <1>1 DEF IInv, Types, Accepted, SubmitType
  <2>2. /\ q.row \in 1 .. Len(rows[q.run]) /\ rows[q.run][q.row].decision = q.decision
        /\ q.pc = "wake" =>
              /\ at[q.run] \in {"paused", "awaiting", "resolved", "done", "dead"}
              /\ at[q.run] \in {"paused", "awaiting"} => q.row = Len(rows[q.run])
              /\ at[q.run] = "resolved" => result[q.run].decision \in Ends
    BY <1>1 DEF IInv, Request
  <2>3. CASE q.run # r
    BY <2>1, <2>2, <2>3
  <2>4. CASE q.run = r
    <3>1. q.row \in 1 .. Len(rows'[r]) /\ rows'[r][q.row].decision = q.decision
      <4>1. Len(rows[r]) \in Nat
        BY DEF IInv, Types
      <4>2. QED
        BY <2>2, <2>4, <4>1
    <3>2. q.pc = "wake" => Waking(s, r)
      BY <1>1, <2>4 DEF Waking, Accepted
    <3>3. QED
      BY <2>2, <2>4, <3>1, <3>2
  <2>5. QED
    BY <2>3, <2>4
<1>2. \A s \in Submits : Accepted(s)' <=> Accepted(s)
  BY DEF Accepted
<1>3. \A s \in Submits : Request(s)'
  BY <1>1, <1>2 DEF Request
<1>4. OneDecisionPerRow'
  BY <1>2 DEF IInv, OneDecisionPerRow
<1>5. QED
  BY <1>3, <1>4

-----------------------------------------------------------------------------
(* One lemma for each action *)

LEMMA RunFacts ==
  ASSUME Types, NEW r \in Runs
  PROVE  /\ rows[r] \in Seq(RowType) /\ acted[r] \in Seq(ActType)
         /\ Len(rows[r]) \in Nat /\ Len(acted[r]) \in Nat
         /\ step[r] \in 1 .. NumCheckpoints + 1 /\ step[r] \in Nat
         /\ result[r] \in [decision : Decisions \cup {"none"}, timedOut : BOOLEAN]
         /\ NumCheckpoints \in Nat /\ MaxPauses \in Nat
         /\ "pending" \notin Decisions
<1>1. rows[r] \in Seq(RowType) /\ acted[r] \in Seq(ActType)
  BY DEF Types
<1>2. step[r] \in 1 .. NumCheckpoints + 1 /\ NumCheckpoints \in Nat /\ MaxPauses \in Nat
  BY CheckpointAssumption DEF Types
<1>3. result[r] \in [decision : Decisions \cup {"none"}, timedOut : BOOLEAN]
  BY DEF Types
<1>4. "pending" \notin Decisions
  BY DEF Decisions
<1>5. QED
  BY <1>1, <1>2, <1>3, <1>4

\* What the rows of a run are while it works: all decided, and acted on.
LEMMA WorkingRun ==
  ASSUME Types, NEW r \in Runs, RunOK(r), at[r] \in {"start", "work", "pausing"}
  PROVE  /\ Len(acted[r]) = Len(rows[r])
         /\ \A i \in 1 .. Len(acted[r]) : ~acted[r][i].timedOut
         /\ \A i \in 1 .. Len(rows[r]) : rows[r][i].decision # "pending"
<1>1. Len(acted[r]) = Len(rows[r]) /\ Len(rows[r]) \in Nat
  BY RunFacts DEF RunOK, Progress
<1>2. \A i \in 1 .. Len(acted[r]) : ~acted[r][i].timedOut
  BY DEF RunOK, Acted
<1>3. ASSUME NEW i \in 1 .. Len(rows[r])
      PROVE  rows[r][i].decision # "pending"
  <2>1. acted[r][i].decision = rows[r][i].decision
    BY <1>1, <1>2 DEF RunOK, Acted
  <2>2. acted[r][i] \in ActType
    BY <1>1, RunFacts, ElementOfSeq
  <2>3. acted[r][i].decision \in Decisions
    BY <2>2 DEF ActType
  <2>4. QED
    BY <2>1, <2>3, RunFacts
<1>4. QED
  BY <1>1, <1>2, <1>3

LEMMA StartKeepsIInv ==
  ASSUME IInv, NEW r \in Runs, StartFlowRun(r)
  PROVE  IInv'
<1>1. /\ at[r] = "start" /\ at' = [at EXCEPT ![r] = "work"]
      /\ state' = [state EXCEPT ![r] = "running"]
      /\ UNCHANGED <<rows, pending, step, result, acted, submit, crashes>>
  BY DEF StartFlowRun, Moves, Mark
<1>2. at'[r] = "work" /\ \A b \in Runs \ {r} : at'[b] = at[b]
  BY <1>1 DEF IInv, Types
<1>3. Types'
  BY <1>1 DEF IInv, Types
<1>4. \A b \in Runs \ {r} : RunOK(b)'
  BY <1>1, <1>2, OtherRun DEF IInv
<1>5. RunOK(r)'
  BY <1>1, <1>2, WorkingRun DEF IInv, RunOK, Progress, Acted, Decided, Registered
<1>6. \A s \in Submits : ~Waking(s, r)
  BY <1>1 DEF IInv, Request, Accepted, Waking
<1>7. (\A s \in Submits : Request(s)') /\ OneDecisionPerRow'
  BY <1>1, <1>2, <1>6, RunFacts, RequestsKept DEF IInv
<1>8. QED
  BY <1>3, <1>4, <1>5, <1>7 DEF IInv

LEMMA PauseKeepsIInv ==
  ASSUME IInv, NEW r \in Runs, PauseFlowRun(r)
  PROVE  IInv'
<1>1. /\ at[r] = "work" /\ at' = [at EXCEPT ![r] = "pausing"]
      /\ step[r] <= NumCheckpoints /\ Len(rows[r]) < MaxPauses
      /\ state' = [state EXCEPT ![r] = "paused"]
      /\ UNCHANGED <<rows, pending, step, result, acted, submit, crashes>>
  BY DEF PauseFlowRun, Moves, Mark
<1>2. at'[r] = "pausing" /\ \A b \in Runs \ {r} : at'[b] = at[b]
  BY <1>1 DEF IInv, Types
<1>3. Types'
  BY <1>1 DEF IInv, Types
<1>4. \A b \in Runs \ {r} : RunOK(b)'
  BY <1>1, <1>2, OtherRun DEF IInv
<1>5. step[r] \in Checkpoints
  BY <1>1, RunFacts DEF IInv, Checkpoints
<1>6. RunOK(r)'
  BY <1>1, <1>2, <1>5, WorkingRun DEF IInv, RunOK, Progress, Acted, Decided, Registered
<1>7. \A s \in Submits : ~Waking(s, r)
  BY <1>1 DEF IInv, Request, Accepted, Waking
<1>8. (\A s \in Submits : Request(s)') /\ OneDecisionPerRow'
  BY <1>1, <1>2, <1>7, RunFacts, RequestsKept DEF IInv
<1>9. QED
  BY <1>3, <1>4, <1>6, <1>8 DEF IInv

\* A row is inserted only after the earlier ones have been decided.
LEMMA InsertKeepsIInv ==
  ASSUME IInv, NEW r \in Runs, InsertCheckpoint(r)
  PROVE  IInv'
<1> DEFINE row == [cp |-> step[r], decision |-> "pending"]
<1>1. /\ at[r] = "pausing" /\ at' = [at EXCEPT ![r] = "paused"]
      /\ rows' = [rows EXCEPT ![r] = Append(rows[r], row)]
      /\ UNCHANGED <<state, pending, step, result, acted, submit, crashes>>
  BY DEF InsertCheckpoint, Moves, IInv, Types
<1>2. /\ at'[r] = "paused" /\ \A b \in Runs \ {r} : at'[b] = at[b]
      /\ rows'[r] = Append(rows[r], row) /\ \A b \in Runs \ {r} : rows'[b] = rows[b]
  BY <1>1 DEF IInv, Types
<1>3. step[r] \in Checkpoints /\ Len(rows[r]) < MaxPauses /\ row \in RowType
  BY <1>1 DEF IInv, RunOK, Progress, RowType
<1> HIDE DEF row
<1>4. /\ rows'[r] \in Seq(RowType) /\ Len(rows'[r]) = Len(rows[r]) + 1
      /\ \A i \in 1 .. Len(rows[r]) : rows'[r][i] = rows[r][i]
      /\ Len(rows[r]) \in Nat
  BY <1>2, <1>3, RunFacts DEF IInv
<1>5. Types'
  BY <1>1, <1>2, <1>4 DEF IInv, Types
<1>6. \A b \in Runs \ {r} : RunOK(b)'
  BY <1>1, <1>2, OtherRun DEF IInv
<1>7. /\ Len(acted[r]) = Len(rows[r])
      /\ \A i \in 1 .. Len(acted[r]) : ~acted[r][i].timedOut
      /\ \A i \in 1 .. Len(rows[r]) : rows[r][i].decision # "pending"
  BY <1>1, WorkingRun DEF IInv
<1>8. RunOK(r)'
  <2>1. Progress(r)'
    BY <1>1, <1>2, <1>3, <1>4, <1>7, RunFacts DEF IInv, Progress
  <2>2. Acted(r)'
    BY <1>1, <1>2, <1>4, <1>7 DEF IInv, RunOK, Acted
  <2>3. Decided(r)'
    BY <1>4, <1>7 DEF Decided
  <2>4. Registered(r)'
    BY <1>1, <1>2 DEF IInv, RunOK, Registered
  <2>5. QED
    BY <2>1, <2>2, <2>3, <2>4 DEF RunOK
<1>9. \A s \in Submits : ~Waking(s, r)
  BY <1>1 DEF IInv, Request, Accepted, Waking
<1>10. (\A s \in Submits : Request(s)') /\ OneDecisionPerRow'
  BY <1>1, <1>2, <1>4, <1>9, RequestsKept
<1>11. QED
  BY <1>5, <1>6, <1>8, <1>10 DEF IInv

LEMMA AwaitKeepsIInv ==
  ASSUME IInv, NEW r \in Runs, AwaitDecision(r)
  PROVE  IInv'
<1>1. /\ at[r] = "paused" /\ at' = [at EXCEPT ![r] = "awaiting"]
      /\ pending' = pending \cup {<<r, step[r]>>}
      /\ UNCHANGED <<state, rows, step, result, acted, submit, crashes>>
  BY DEF AwaitDecision, Moves, tables
<1>2. at'[r] = "awaiting" /\ \A b \in Runs \ {r} : at'[b] = at[b]
  BY <1>1 DEF IInv, Types
<1>3. step[r] \in Checkpoints
  BY <1>1 DEF IInv, RunOK, Progress
<1>4. Types'
  BY <1>1, <1>3 DEF IInv, Types
<1>5. \A b \in Runs \ {r} : RunOK(b)'
  BY <1>1, <1>2, OtherRun DEF IInv
<1>6. RunOK(r)'
  <2>1. Progress(r)' /\ Decided(r)' /\ Acted(r)'
    BY <1>1, <1>2, <1>3 DEF IInv, RunOK, Progress, Decided, Acted
  <2>2. Registered(r)'
    BY <1>1, <1>2 DEF IInv, RunOK, Registered
  <2>3. QED
    BY <2>1, <2>2 DEF RunOK
<1>7. (\A s \in Submits : Request(s)') /\ OneDecisionPerRow'
  BY <1>1, <1>2, RunFacts, RequestsKept DEF IInv
<1>8. QED
  BY <1>4, <1>5, <1>6, <1>7 DEF IInv

\* A run ends, or goes on after a decision that does not end it.
LEMMA ActKeepsIInv ==
  ASSUME IInv, NEW r \in Runs, ActOnDecision(r)
  PROVE  IInv'
<1>1. /\ at[r] = "resolved" /\ result' = [result EXCEPT ![r] = Nothing]
      /\ UNCHANGED <<rows, pending, acted, submit, crashes>>
      /\ \/ /\ result[r].decision \in Ends /\ at' = [at EXCEPT ![r] = "done"]
            /\ state' = [state EXCEPT ![r] = "cancelled"] /\ step' = step
         \/ /\ result[r].decision \notin Ends /\ at' = [at EXCEPT ![r] = "work"]
            /\ state' = [state EXCEPT ![r] = "resumed"]
            /\ step' = [step EXCEPT ![r] =
                   IF result[r].decision = "regenerate" THEN step[r] ELSE step[r] + 1]
  BY DEF ActOnDecision, Moves, Mark, Ends, IInv, Types
<1>2. /\ step[r] \in Checkpoints /\ step[r] + 1 \in 1 .. NumCheckpoints + 1
  BY <1>1, RunFacts DEF IInv, RunOK, Progress, Checkpoints
<1>3. /\ \A b \in Runs \ {r} : at'[b] = at[b] /\ result'[b] = result[b] /\ step'[b] = step[b]
      /\ at'[r] \in {"work", "done"}
      /\ at'[r] = "work" => result[r].decision \notin Ends
  BY <1>1 DEF IInv, Types
<1>4. Types'
  <2>1. Nothing \in [decision : Decisions \cup {"none"}, timedOut : BOOLEAN]
    BY DEF Nothing
  <2>2. step' \in [Runs -> 1 .. NumCheckpoints + 1]
    BY <1>1, <1>2 DEF IInv, Types
  <2>3. QED
    BY <1>1, <2>1, <2>2 DEF IInv, Types
<1>5. \A b \in Runs \ {r} : RunOK(b)'
  BY <1>1, <1>3, OtherRun DEF IInv
<1>6. \A cp : <<r, cp>> \notin pending
  BY <1>1 DEF IInv, Types, RunOK, Registered
<1>7. RunOK(r)'
  <2>1. Progress(r)'
    BY <1>1, <1>3 DEF IInv, RunOK, Progress
  <2>2. Acted(r)' /\ Decided(r)'
    BY <1>1, <1>3 DEF IInv, RunOK, Acted, Decided
  <2>3. Registered(r)'
    BY <1>1, <1>3, <1>6 DEF Registered
  <2>4. QED
    BY <2>1, <2>2, <2>3 DEF RunOK
<1>8. at'[r] = "work" => \A s \in Submits : ~Waking(s, r)
  BY <1>1, <1>3 DEF IInv, Request, Accepted, Waking
<1>9. (\A s \in Submits : Request(s)') /\ OneDecisionPerRow'
  BY <1>1, <1>3, <1>8, RunFacts, RequestsKept DEF IInv
<1>10. QED
  BY <1>4, <1>5, <1>7, <1>9 DEF IInv

LEMMA FinishKeepsIInv ==
  ASSUME IInv, NEW r \in Runs, NEW st \in {"completed", "failed"}, Finish(r, st)
  PROVE  IInv'
<1>1. /\ at[r] \in {"work", "pausing", "paused"} /\ at' = [at EXCEPT ![r] = "done"]
      /\ state' = [state EXCEPT ![r] = st]
      /\ UNCHANGED <<rows, pending, step, result, acted, submit, crashes>>
  BY DEF Finish, Mark
<1>2. at'[r] = "done" /\ \A b \in Runs \ {r} : at'[b] = at[b]
  BY <1>1 DEF IInv, Types
<1>3. Types'
  BY <1>1 DEF IInv, Types
<1>4. \A b \in Runs \ {r} : RunOK(b)'
  BY <1>1, <1>2, OtherRun DEF IInv
<1>5. RunOK(r)'
  <2>1. Progress(r)' /\ Decided(r)' /\ Acted(r)'
    BY <1>1, <1>2 DEF IInv, RunOK, Progress, Decided, Acted
  <2>2. Registered(r)'
    BY <1>1, <1>2 DEF IInv, RunOK, Registered
  <2>3. QED
    BY <2>1, <2>2 DEF RunOK
<1>6. (\A s \in Submits : Request(s)') /\ OneDecisionPerRow'
  BY <1>1, <1>2, RunFacts, RequestsKept DEF IInv
<1>7. QED
  BY <1>3, <1>4, <1>5, <1>6 DEF IInv

-----------------------------------------------------------------------------
(* A wait resolves: by its timer, or by a request *)

\* A wait that resolves with what its row records, or times out with a decision
\* that ends the run.
LEMMA ResolveKeepsRuns ==
  ASSUME IInv, NEW r \in Runs, NEW cp \in Checkpoints, <<r, cp>> \in pending,
         NEW d \in Decisions, NEW t \in BOOLEAN, Resolve(r, cp, d, t),
         ~t => d = rows[r][Len(rows[r])].decision, t => d \in Ends,
         UNCHANGED <<state, rows, step, crashes>>,
         submit' \in [Submits -> SubmitType \cup {NoSubmit}]
  PROVE  /\ Types' /\ \A b \in Runs : RunOK(b)'
         /\ at[r] = "awaiting" /\ at'[r] = "resolved" /\ result'[r].decision = d
         /\ \A b \in Runs \ {r} : at'[b] = at[b] /\ result'[b] = result[b]
<1> DEFINE act == [row |-> Len(rows[r]), decision |-> d, timedOut |-> t]
<1>1. /\ pending' = pending \ {<<r, cp>>}
      /\ result' = [result EXCEPT ![r] = [decision |-> d, timedOut |-> t]]
      /\ acted' = [acted EXCEPT ![r] = Append(acted[r], act)]
      /\ at' = [at EXCEPT ![r] = "resolved"]
  BY DEF Resolve, IInv, Types
<1>2. cp = step[r] /\ at[r] = "awaiting"
  BY DEF IInv, RunOK, Registered
<1>3. act \in ActType /\ act.row = Len(rows[r]) /\ act.decision = d /\ act.timedOut = t
  BY RunFacts DEF IInv, ActType
<1> HIDE DEF act
<1>4. /\ at'[r] = "resolved" /\ result'[r].decision = d /\ acted'[r] = Append(acted[r], act)
      /\ \A b \in Runs \ {r} : /\ at'[b] = at[b] /\ result'[b] = result[b]
                               /\ acted'[b] = acted[b]
  BY <1>1 DEF IInv, Types
<1>5. /\ acted'[r] \in Seq(ActType) /\ Len(acted'[r]) = Len(acted[r]) + 1
      /\ \A i \in 1 .. Len(acted[r]) : acted'[r][i] = acted[r][i]
      /\ acted'[r][Len(acted[r]) + 1] = act
  BY <1>3, <1>4, RunFacts DEF IInv
<1>6. Types'
  <2>1. result' \in [Runs -> [decision : Decisions \cup {"none"}, timedOut : BOOLEAN]]
    BY <1>1 DEF IInv, Types
  <2>2. acted' \in [Runs -> Seq(ActType)]
    BY <1>1, <1>4, <1>5 DEF IInv, Types
  <2>3. QED
    BY <1>1, <2>1, <2>2 DEF IInv, Types
<1>7. ASSUME NEW b \in Runs \ {r}
      PROVE  RunOK(b)'
  BY <1>1, <1>4, OtherRun DEF IInv
<1>8. Len(rows[r]) = Len(acted[r]) + 1 /\ Len(acted[r]) \in Nat
  BY <1>2, RunFacts DEF IInv, RunOK, Progress
<1>9. RunOK(r)'
  <2>1. Progress(r)'
    BY <1>2, <1>4, <1>5, <1>8 DEF IInv, RunOK, Progress
  <2>2. Acted(r)'
    <3>1. ASSUME NEW i \in 1 .. Len(acted[r])
          PROVE  /\ acted[r][i].row = i /\ ~acted[r][i].timedOut
                 /\ acted[r][i].decision = rows[r][i].decision
      BY <1>2 DEF IInv, RunOK, Acted
    <3>2. \A i \in 1 .. Len(acted'[r]) : i \in 1 .. Len(acted[r]) \/ i = Len(acted[r]) + 1
      BY <1>5, <1>8
    <3>3. ASSUME NEW i \in 1 .. Len(acted'[r]), i \in 1 .. Len(acted[r])
          PROVE  /\ acted'[r][i].row = i /\ ~acted'[r][i].timedOut
                 /\ acted'[r][i].decision = rows[r][i].decision
      BY <1>5, <3>1, <3>3
    <3>4. /\ acted'[r][Len(acted[r]) + 1].row = Len(rows[r])
          /\ acted'[r][Len(acted[r]) + 1].decision = d
          /\ acted'[r][Len(acted[r]) + 1].timedOut = t
      BY <1>3, <1>5
    <3>5. QED
      BY <1>4, <1>8, <3>2, <3>3, <3>4 DEF Acted
  <2>3. Decided(r)' /\ Registered(r)'
    BY <1>1, <1>2, <1>4 DEF IInv, RunOK, Decided, Registered
  <2>4. QED
    BY <2>1, <2>2, <2>3 DEF RunOK
<1>10. QED
  BY <1>2, <1>4, <1>6, <1>7, <1>9

LEMMA TimeOutKeepsIInv ==
  ASSUME IInv, NEW r \in Runs, TimeOut(r)
  PROVE  IInv'
<1>1. /\ <<r, step[r]>> \in pending /\ Resolve(r, step[r], OnTimeout, TRUE)
      /\ UNCHANGED <<state, rows, step, submit, crashes>>
  BY DEF TimeOut, tables
<1>2. step[r] \in Checkpoints
  BY <1>1 DEF IInv, Types
<1>3. OnTimeout \in Ends /\ OnTimeout \in Decisions
  BY CheckpointAssumption DEF Ends, Decisions
<1>4. submit' \in [Submits -> SubmitType \cup {NoSubmit}]
  BY <1>1 DEF IInv, Types
<1>5. /\ Types' /\ \A b \in Runs : RunOK(b)'
      /\ at[r] = "awaiting" /\ at'[r] = "resolved" /\ result'[r].decision = OnTimeout
      /\ \A b \in Runs \ {r} : at'[b] = at[b] /\ result'[b] = result[b]
  <2>1. PICK cp \in Checkpoints : cp = step[r]
    BY <1>2
  <2>2. PICK t \in BOOLEAN : t
    OBVIOUS
  <2>3. Resolve(r, cp, OnTimeout, t)
    BY <1>1, <2>1, <2>2
  <2>4. QED
    BY <1>1, <1>3, <1>4, <2>1, <2>2, <2>3, ResolveKeepsRuns
<1>6. (\A s \in Submits : Request(s)') /\ OneDecisionPerRow'
  BY <1>1, <1>3, <1>5, RunFacts, RequestsKept DEF IInv
<1>7. QED
  BY <1>5, <1>6 DEF IInv

\* The decision of a request reaches the runner that waits at the very row the
\* request has decided; no other request is about to wake it.
LEMMA WakeKeepsIInv ==
  ASSUME IInv, NEW s \in Submits, WakeAwaiter(s)
  PROVE  IInv'
<1>1. PICK q : q = submit[s]
  OBVIOUS
<1>2. /\ q # NoSubmit /\ q.pc = "wake" /\ submit' = [submit EXCEPT ![s].pc = "ok"]
      /\ IF <<q.run, q.cp>> \in pending
           THEN Resolve(q.run, q.cp, q.decision, FALSE)
           ELSE UNCHANGED <<pending, result, acted, at>>
      /\ UNCHANGED <<state, rows, step, crashes>>
  BY <1>1 DEF WakeAwaiter, tables
<1>3. q \in SubmitType /\ Accepted(s)
  BY <1>1, <1>2 DEF IInv, Types, Accepted
<1>4. /\ q.run \in Runs /\ q.cp \in Checkpoints /\ q.decision \in Decisions
      /\ q.row \in 1 .. Len(rows[q.run]) /\ rows[q.run][q.row].decision = q.decision
      /\ at[q.run] \in {"paused", "awaiting"} => q.row = Len(rows[q.run])
  BY <1>1, <1>2, <1>3 DEF IInv, Request, SubmitType
<1>5. /\ submit'[s] \in SubmitType
      /\ submit'[s].pc = "ok" /\ submit'[s].run = q.run /\ submit'[s].row = q.row
      /\ submit'[s].decision = q.decision
      /\ \A o \in Submits \ {s} : submit'[o] = submit[o]
  BY <1>1, <1>2, <1>3 DEF IInv, Types, SubmitType
<1>6. submit' \in [Submits -> SubmitType \cup {NoSubmit}]
  BY <1>2, <1>5 DEF IInv, Types
<1>7. /\ Types' /\ \A b \in Runs : RunOK(b)'
      /\ \A b \in Runs : \/ at'[b] = at[b] /\ result'[b] = result[b]
                         \/ b = q.run /\ at[b] = "awaiting"
  <2>1. CASE <<q.run, q.cp>> \in pending
    <3>1. PICK t \in BOOLEAN : ~t
      OBVIOUS
    <3>2. Resolve(q.run, q.cp, q.decision, t)
      BY <1>2, <2>1, <3>1
    <3>3. at[q.run] = "awaiting"
      BY <1>4, <2>1 DEF IInv, RunOK, Registered
    <3>4. QED
      BY <1>2, <1>4, <1>6, <2>1, <3>1, <3>2, <3>3, ResolveKeepsRuns
  <2>2. CASE <<q.run, q.cp>> \notin pending
    <3>1. UNCHANGED <<state, rows, step, crashes, pending, result, acted, at>>
      BY <1>2, <2>2
    <3>2. Types'
      BY <1>6, <3>1 DEF IInv, Types
    <3>3. \A b \in Runs : RunOK(b)'
      BY <3>1, OtherRun DEF IInv
    <3>4. QED
      BY <3>1, <3>2, <3>3
  <2>3. QED
    BY <2>1, <2>2
<1>8. \A o \in Submits :
        Accepted(o)' => /\ Accepted(o)
                        /\ submit'[o].run = submit[o].run /\ submit'[o].row = submit[o].row
  BY <1>1, <1>3, <1>5 DEF Accepted
<1>9. OneDecisionPerRow'
  BY <1>8 DEF IInv, OneDecisionPerRow
<1>10. ASSUME NEW o \in Submits, Accepted(o)'
       PROVE  Request(o)'
  <2>1. CASE o = s
    BY <1>2, <1>4, <1>5, <2>1 DEF Request
  <2>2. CASE o # s
    <3>1. submit'[o] = submit[o] /\ Accepted(o)
      BY <1>5, <1>10, <2>2 DEF Accepted
    <3>2. submit[o].pc = "wake" /\ submit[o].run = q.run => at[q.run] # "awaiting"
      BY <1>1, <1>3, <1>4, <2>2, <3>1 DEF IInv, Request, OneDecisionPerRow
    <3>3. submit[o].run \in Runs
      BY <3>1 DEF IInv, Types, Accepted, SubmitType
    <3>4. QED
      BY <1>2, <1>7, <3>1, <3>2, <3>3 DEF IInv, Request
  <2>3. QED
    BY <2>1, <2>2
<1>11. \A o \in Submits : Request(o)'
  BY <1>10 DEF Request
<1>12. QED
  BY <1>7, <1>9, <1>11 DEF IInv

-----------------------------------------------------------------------------
(* The decision route, and restarts *)

LEMMA PostKeepsIInv ==
  ASSUME IInv, NEW s \in Submits, NEW r \in Runs, NEW cp \in Checkpoints,
         NEW d \in Decisions, NEW f \in Flows, Post(s, r, cp, d, f)
  PROVE  IInv'
<1> DEFINE q == [pc |-> IF d \in Allow[f][cp] THEN "update" ELSE "not_allowed",
                 run |-> r, cp |-> cp, decision |-> d, row |-> 0]
<1>1. /\ submit' = [submit EXCEPT ![s] = q]
      /\ UNCHANGED <<state, rows, pending, at, step, result, acted, crashes>>
  BY DEF Post, tables, runner
<1>2. q \in SubmitType /\ q.pc \notin {"wake", "ok"}
  <2>1. q.pc \in {"update", "not_allowed"}
    OBVIOUS
  <2>2. 0 \in 0 .. MaxPauses
    BY CheckpointAssumption
  <2>3. QED
    BY <2>1, <2>2 DEF SubmitType
<1> HIDE DEF q
<1>3. Types'
  BY <1>1, <1>2 DEF IInv, Types
<1>4. \A b \in Runs : RunOK(b)'
  BY <1>1, OtherRun DEF IInv
<1>5. \A o \in Submits : Accepted(o)' => Accepted(o) /\ submit'[o] = submit[o]
  BY <1>1, <1>2 DEF IInv, Types, Accepted
<1>6. \A o \in Submits : Request(o)'
  BY <1>1, <1>5 DEF IInv, Request
<1>7. OneDecisionPerRow'
  BY <1>5 DEF IInv, OneDecisionPerRow
<1>8. QED
  BY <1>3, <1>4, <1>6, <1>7 DEF IInv

\* The UPDATE decides at most one row: the last one, while its run is at it.
LEMMA UndecidedIsLast ==
  ASSUME IInv, NEW r \in Runs, NEW cp \in Checkpoints
  PROVE  Undecided(r, cp) = {} \/ Undecided(r, cp) = {Len(rows[r])}
<1>1. Len(rows[r]) \in Nat /\ DOMAIN rows[r] = 1 .. Len(rows[r])
  BY RunFacts DEF IInv
<1>2. \A i \in Undecided(r, cp) : i = Len(rows[r])
  BY <1>1 DEF IInv, RunOK, Decided, Undecided
<1>3. QED
  BY <1>2

LEMMA PersistKeepsIInv ==
  ASSUME IInv, NEW s \in Submits, PersistDecision(s)
  PROVE  IInv'
<1>1. PICK q : q = submit[s]
  OBVIOUS
<1>2. PICK hit : hit = Undecided(q.run, q.cp)
  OBVIOUS
<1>3. /\ q # NoSubmit /\ q.pc = "update"
      /\ rows' = [rows EXCEPT ![q.run] = [i \in DOMAIN rows[q.run] |->
             IF i \in hit THEN [rows[q.run][i] EXCEPT !.decision = q.decision]
                          ELSE rows[q.run][i]]]
      /\ submit' = [submit EXCEPT ![s] =
             IF hit = {} THEN [q EXCEPT !.pc = "conflict"]
             ELSE [q EXCEPT !.pc = "wake", !.row = CHOOSE i \in hit : \A j \in hit : j <= i]]
      /\ UNCHANGED <<state, pending, at, step, result, acted, crashes>>
  <2>1. q \in SubmitType /\ q.run \in Runs
    BY <1>1 DEF PersistDecision, IInv, Types, SubmitType
  <2>2. QED
    BY <1>1, <1>2, <2>1 DEF PersistDecision, runner, IInv, Types
<1>4. /\ q \in SubmitType /\ ~Accepted(s)
      /\ q.run \in Runs /\ q.cp \in Checkpoints /\ q.decision \in Decisions
  BY <1>1, <1>3 DEF IInv, Types, SubmitType, Accepted
<1>5. PICK r \in Runs : r = q.run
  BY <1>4
<1>6. /\ rows[r] \in Seq(RowType) /\ Len(rows[r]) \in Nat
      /\ DOMAIN rows[r] = 1 .. Len(rows[r]) /\ Len(rows[r]) <= MaxPauses /\ MaxPauses \in Nat
  BY RunFacts DEF IInv, RunOK, Progress
<1>7. hit = {} \/ hit = {Len(rows[r])}
  BY <1>2, <1>4, <1>5, UndecidedIsLast
<1>8. \A i \in hit : i \in 1 .. Len(rows[r]) /\ rows[r][i].decision = "pending"
  BY <1>2, <1>5, <1>6 DEF Undecided
<1>9. /\ rows'[r] \in Seq(RowType) /\ Len(rows'[r]) = Len(rows[r])
      /\ \A i \in 1 .. Len(rows[r]) : /\ i \notin hit => rows'[r][i] = rows[r][i]
                                      /\ i \in hit => rows'[r][i].decision = q.decision
      /\ \A b \in Runs \ {r} : rows'[b] = rows[b]
  <2>1. /\ rows'[r] = [i \in 1 .. Len(rows[r]) |->
             IF i \in hit THEN [rows[r][i] EXCEPT !.decision = q.decision] ELSE rows[r][i]]
        /\ \A b \in Runs \ {r} : rows'[b] = rows[b]
    BY <1>3, <1>5, <1>6 DEF IInv, Types
  <2>2. \A i \in 1 .. Len(rows[r]) : rows[r][i] \in RowType
    BY <1>6, ElementOfSeq
  <2>3. \A i \in 1 .. Len(rows[r]) :
          /\ [rows[r][i] EXCEPT !.decision = q.decision] \in RowType
          /\ [rows[r][i] EXCEPT !.decision = q.decision].decision = q.decision
    BY <1>4, <2>2 DEF RowType
  <2>4. \A i \in 1 .. Len(rows[r]) :
          (IF i \in hit THEN [rows[r][i] EXCEPT !.decision = q.decision] ELSE rows[r][i])
            \in RowType
    BY <2>2, <2>3
  <2>5. rows'[r] \in [1 .. Len(rows[r]) -> RowType]
    BY <2>1, <2>4
  <2>6. rows'[r] \in Seq(RowType)
    BY <1>6, <2>5, IsASeq
  <2>7. Len(rows'[r]) = Len(rows[r])
    BY <1>6, <2>5, <2>6, LenProperties
  <2>8. QED
    BY <2>1, <2>3, <2>6, <2>7
<1>10. /\ submit'[s] \in SubmitType /\ submit'[s].run = r /\ submit'[s].decision = q.decision
       /\ hit = {} => ~Accepted(s)'
       /\ hit # {} => submit'[s].pc = "wake" /\ submit'[s].row = Len(rows[r])
       /\ \A o \in Submits \ {s} : submit'[o] = submit[o]
  <2>1. CASE hit = {}
    <3>1. submit'[s] = [q EXCEPT !.pc = "conflict"]
      BY <1>3, <2>1 DEF IInv, Types
    <3>2. /\ submit'[s] \in SubmitType /\ submit'[s].pc = "conflict"
          /\ submit'[s].run = r /\ submit'[s].decision = q.decision
      BY <1>4, <1>5, <3>1 DEF SubmitType
    <3>3. QED
      BY <1>3, <2>1, <3>2 DEF Accepted
  <2>2. CASE hit # {}
    <3>1. hit = {Len(rows[r])} /\ Len(rows[r]) \in 1 .. MaxPauses
      BY <1>6, <1>7, <1>8, <2>2
    <3>2. (CHOOSE i \in hit : \A j \in hit : j <= i) = Len(rows[r])
      BY <1>6, <3>1
    <3>3. submit'[s] = [q EXCEPT !.pc = "wake", !.row = Len(rows[r])]
      BY <1>3, <2>2, <3>2 DEF IInv, Types
    <3>4. submit'[s] = [pc |-> "wake", run |-> q.run, cp |-> q.cp, decision |-> q.decision,
                        row |-> Len(rows[r])]
      BY <1>4, <3>3 DEF SubmitType
    <3>5. Len(rows[r]) \in 0 .. MaxPauses
      BY <1>6, <3>1
    <3>6. submit'[s] \in SubmitType
      BY <1>4, <3>4, <3>5 DEF SubmitType
    <3>7. \A o \in Submits \ {s} : submit'[o] = submit[o]
      BY <1>3 DEF IInv, Types
    <3>8. QED
      BY <1>5, <2>2, <3>4, <3>6, <3>7
  <2>3. QED
    BY <2>1, <2>2
<1>11. Types'
  <2>1. rows' \in [Runs -> Seq(RowType)]
    BY <1>3, <1>5, <1>9 DEF IInv, Types
  <2>2. submit' \in [Submits -> SubmitType \cup {NoSubmit}]
    BY <1>3, <1>10 DEF IInv, Types
  <2>3. QED
    BY <1>3, <2>1, <2>2 DEF IInv, Types
<1>12. ASSUME NEW b \in Runs, b # r
       PROVE  RunOK(b)'
  BY <1>3, <1>9, <1>12, OtherRun DEF IInv
\* A wait that has resolved from its row is not decided again.
<1>13. ASSUME NEW i \in hit, i \in 1 .. Len(acted[r])
       PROVE  acted[r][i].timedOut
  <2>1. acted[r][i] \in ActType
    BY <1>13, RunFacts, ElementOfSeq DEF IInv
  <2>2. acted[r][i].decision \in Decisions
    BY <2>1 DEF ActType
  <2>3. acted[r][i].decision # "pending"
    BY <2>2, RunFacts DEF IInv
  <2>4. QED
    BY <1>8, <1>13, <2>3 DEF IInv, RunOK, Acted
<1>14. RunOK(r)'
  <2>1. Progress(r)' /\ Registered(r)'
    BY <1>3, <1>9 DEF IInv, RunOK, Progress, Registered
  <2>2. Acted(r)'
    <3>1. ASSUME NEW i \in 1 .. Len(acted[r])
          PROVE  /\ acted[r][i].row = i
                 /\ ~acted[r][i].timedOut => acted[r][i].decision = rows'[r][i].decision
                 /\ acted[r][i].timedOut =>
                      /\ i = Len(rows'[r]) /\ at[r] \in {"resolved", "done", "dead"}
                      /\ at[r] = "resolved" => result[r].decision \in Ends
      <4>1. i \in 1 .. Len(rows[r])
        BY <1>6, RunFacts DEF IInv, RunOK, Progress
      <4>2. QED
        BY <1>9, <1>13, <4>1 DEF IInv, RunOK, Acted
    <3>2. QED
      BY <1>3, <3>1 DEF Acted
  <2>3. Decided(r)'
    <3>1. \A i \in 1 .. Len(rows[r]) - 1 : i \in 1 .. Len(rows[r]) /\ i \notin hit
      BY <1>6, <1>7
    <3>2. QED
      BY <1>9, <3>1 DEF IInv, RunOK, Decided
  <2>4. QED
    BY <2>1, <2>2, <2>3 DEF RunOK
<1>15. ASSUME hit # {}
       PROVE  /\ at[r] \in {"paused", "awaiting", "resolved", "done", "dead"}
              /\ at[r] = "resolved" => result[r].decision \in Ends
  <2>1. hit = {Len(rows[r])} /\ Len(rows[r]) \in hit
    BY <1>7, <1>15
  <2>2. Len(rows[r]) \in 1 .. Len(rows[r]) /\ rows[r][Len(rows[r])].decision = "pending"
    BY <1>8, <2>1
  <2>3. at[r] \notin {"start", "work", "pausing"}
    BY <2>2, WorkingRun DEF IInv
  <2>4. at[r] = "resolved" => Len(acted[r]) = Len(rows[r])
    BY DEF IInv, RunOK, Progress
  <2>5. at[r] = "resolved" => acted[r][Len(rows[r])].timedOut
    BY <1>13, <2>1, <2>2, <2>4
  <2>6. at[r] = "resolved" => result[r].decision \in Ends
    BY <2>2, <2>4, <2>5 DEF IInv, RunOK, Acted
  <2>7. at[r] \in {"start", "work", "pausing", "paused", "awaiting", "resolved", "done", "dead"}
    BY DEF IInv, Types
  <2>8. QED
    BY <2>3, <2>6, <2>7
\* The row of a request accepted earlier is decided already.
<1>16. ASSUME NEW o \in Submits, o # s, Accepted(o)'
       PROVE  /\ Accepted(o) /\ submit'[o] = submit[o]
              /\ submit[o].run = r => submit[o].row \notin hit
  <2>1. submit'[o] = submit[o] /\ Accepted(o)
    BY <1>10, <1>16 DEF Accepted
  <2>2. submit[o] \in SubmitType
    BY <2>1 DEF IInv, Types, Accepted
  <2>3. submit[o].decision \in Decisions /\ submit[o].decision # "pending"
    BY <2>2 DEF SubmitType, Decisions
  <2>4. submit[o].run = r => rows[r][submit[o].row].decision = submit[o].decision
    BY <2>1 DEF IInv, Request
  <2>5. QED
    BY <1>8, <2>1, <2>3, <2>4
<1>17. ASSUME NEW o \in Submits
       PROVE  Request(o)'
  <2>1. CASE o = s
    <3>1. ASSUME Accepted(s)'
          PROVE  /\ Len(rows[r]) \in 1 .. Len(rows'[r]) /\ hit # {}
                 /\ rows'[r][Len(rows[r])].decision = q.decision
      <4>1. hit = {Len(rows[r])}
        BY <1>7, <1>10, <3>1
      <4>2. QED
        BY <1>6, <1>8, <1>9, <4>1
    <3>2. QED
      BY <1>3, <1>9, <1>10, <1>15, <2>1, <3>1 DEF Request
  <2>2. CASE o # s
    <3>1. ASSUME Accepted(o)'
          PROVE  /\ submit[o].run \in Runs
                 /\ submit[o].row \in 1 .. Len(rows'[submit[o].run])
                 /\ rows'[submit[o].run][submit[o].row].decision = submit[o].decision
                 /\ Len(rows'[submit[o].run]) = Len(rows[submit[o].run])
      <4>1. Accepted(o) /\ (submit[o].run = r => submit[o].row \notin hit)
        BY <1>16, <2>2, <3>1
      <4>2. submit[o].run \in Runs
        BY <4>1 DEF IInv, Types, Accepted, SubmitType
      <4>3. /\ submit[o].row \in 1 .. Len(rows[submit[o].run])
            /\ rows[submit[o].run][submit[o].row].decision = submit[o].decision
        BY <4>1 DEF IInv, Request
      <4>4. QED
        BY <1>9, <4>1, <4>2, <4>3
    <3>2. QED
      BY <1>3, <1>16, <2>2, <3>1 DEF IInv, Request
  <2>3. QED
    BY <2>1, <2>2
<1>18. OneDecisionPerRow'
  <2>1. ASSUME NEW o \in Submits, o # s, Accepted(o)', Accepted(s)'
        PROVE  submit'[o].run # submit'[s].run \/ submit'[o].row # submit'[s].row
    <3>1. hit = {Len(rows[r])} /\ submit'[s].row = Len(rows[r]) /\ submit'[s].run = r
      BY <1>7, <1>10, <2>1
    <3>2. QED
      BY <1>16, <2>1, <3>1
  <2>2. ASSUME NEW o \in Submits, NEW t \in Submits, o # t, o # s, t # s,
               Accepted(o)', Accepted(t)'
        PROVE  submit'[o].run # submit'[t].run \/ submit'[o].row # submit'[t].row
    BY <1>16, <2>2 DEF IInv, OneDecisionPerRow
  <2>3. QED
    BY <2>1, <2>2 DEF OneDecisionPerRow
<1>19. QED
  BY <1>11, <1>12, <1>14, <1>17, <1>18 DEF IInv

\* A restart forgets the registry, the runners and the requests in flight.
LEMMA RestartKeepsIInv ==
  ASSUME IInv, Restart
  PROVE  IInv'
<1>1. /\ crashes < MaxCrashes /\ crashes' = crashes + 1 /\ pending' = {}
      /\ at' = [r \in Runs |-> IF at[r] \in {"start", "done"} THEN at[r] ELSE "dead"]
      /\ submit' = [s \in Submits |->
             IF submit[s] # NoSubmit /\ submit[s].pc \in {"update", "wake"}
               THEN [submit[s] EXCEPT !.pc = "dropped"] ELSE submit[s]]
      /\ UNCHANGED <<state, rows, step, result, acted>>
  BY DEF Restart, tables
<1>2. ASSUME NEW s \in Submits
      PROVE  /\ submit'[s] \in SubmitType \cup {NoSubmit}
             /\ Accepted(s)' => submit'[s] = submit[s] /\ Accepted(s) /\ submit[s].pc = "ok"
  <2>1. CASE submit[s] # NoSubmit /\ submit[s].pc \in {"update", "wake"}
    <3>1. submit'[s] = [submit[s] EXCEPT !.pc = "dropped"] /\ submit[s] \in SubmitType
      BY <1>1, <2>1 DEF IInv, Types
    <3>2. submit'[s] \in SubmitType /\ submit'[s].pc = "dropped"
      BY <3>1 DEF SubmitType
    <3>3. QED
      BY <3>2 DEF Accepted
  <2>2. CASE ~(submit[s] # NoSubmit /\ submit[s].pc \in {"update", "wake"})
    <3>1. submit'[s] = submit[s]
      BY <1>1, <2>2
    <3>2. QED
      BY <2>2, <3>1 DEF IInv, Types, Accepted
  <2>3. QED
    BY <2>1, <2>2
<1>3. Types'
  <2>1. crashes' \in 0 .. MaxCrashes
    BY <1>1, CheckpointAssumption DEF IInv, Types
  <2>2. submit' \in [Submits -> SubmitType \cup {NoSubmit}]
    BY <1>1, <1>2
  <2>3. at' \in [Runs -> {"start", "work", "pausing", "paused", "awaiting", "resolved",
                          "done", "dead"}]
    BY <1>1
  <2>4. QED
    BY <1>1, <2>1, <2>2, <2>3 DEF IInv, Types
<1>4. ASSUME NEW r \in Runs
      PROVE  RunOK(r)'
  <2>1. (at'[r] = at[r] /\ at[r] \in {"start", "done"}) \/ at'[r] = "dead"
    BY <1>1
  <2>2. Progress(r)' /\ Decided(r)' /\ Registered(r)'
    BY <1>1, <2>1 DEF IInv, RunOK, Progress, Decided, Registered
  <2>3. Acted(r)'
    BY <1>1, <2>1 DEF IInv, RunOK, Acted
  <2>4. QED
    BY <2>2, <2>3 DEF RunOK
<1>5. \A s \in Submits : Request(s)'
  BY <1>1, <1>2 DEF IInv, Request
<1>6. OneDecisionPerRow'
  BY <1>2 DEF IInv, OneDecisionPerRow
<1>7. QED
  BY <1>3, <1>4, <1>5, <1>6 DEF IInv

-----------------------------------------------------------------------------
(* The invariant of the specification *)

LEMMA IInvInit == Init => IInv
<1> SUFFICES ASSUME Init PROVE IInv
  OBVIOUS
<1>1. Types
  <2>1. Nothing \in [decision : Decisions \cup {"none"}, timedOut : BOOLEAN]
    BY DEF Nothing
  <2>2. 1 \in 1 .. NumCheckpoints + 1 /\ 0 \in 0 .. MaxCrashes
    BY CheckpointAssumption
  <2>3. QED
    BY <2>1, <2>2 DEF Init, Types
<1>2. ASSUME NEW r \in Runs
      PROVE  RunOK(r)
  BY CheckpointAssumption DEF Init, RunOK, Progress, Acted, Decided, Registered
<1>3. (\A s \in Submits : Request(s)) /\ OneDecisionPerRow
  BY DEF Init, Request, OneDecisionPerRow, Accepted
<1>4. QED
  BY <1>1, <1>2, <1>3 DEF IInv

LEMMA IInvStep == IInv /\ [Next]_vars => IInv'
<1> SUFFICES ASSUME IInv, [Next]_vars PROVE IInv'
  OBVIOUS
<1>1. ASSUME NEW r \in Runs, RunnerStep(r)
      PROVE  IInv'
  BY <1>1, StartKeepsIInv, PauseKeepsIInv, InsertKeepsIInv, AwaitKeepsIInv, ActKeepsIInv,
     FinishKeepsIInv DEF RunnerStep
<1>2. ASSUME NEW s \in Submits, NEW r \in Runs, NEW cp \in Checkpoints, NEW d \in Decisions,
             NEW f \in Flows, Post(s, r, cp, d, f)
      PROVE  IInv'
  BY <1>2, PostKeepsIInv
<1>3. CASE UNCHANGED vars
  <2>1. UNCHANGED <<state, rows, pending, at, step, result, acted, submit, crashes>>
    BY <1>3 DEF vars, tables, runner
  <2>2. (\A s \in Submits : Request(s)') /\ OneDecisionPerRow'
    BY <2>1 DEF IInv, Request, OneDecisionPerRow, Accepted
  <2>3. Types' /\ \A r \in Runs : RunOK(r)'
    BY <2>1, OtherRun DEF IInv, Types
  <2>4. QED
    BY <2>2, <2>3 DEF IInv
<1>4. QED
  BY <1>1, <1>2, <1>3, TimeOutKeepsIInv, PersistKeepsIInv, WakeKeepsIInv, RestartKeepsIInv
     DEF Next

LEMMA SpecIInv == Spec => []IInv
BY IInvInit, IInvStep, PTL DEF Spec

\* The tables, the registry, the runners and the requests stay in their domains.
THEOREM CheckpointTypeOK == Spec => []TypeOK
<1>1. IInv => TypeOK
  BY DEF IInv, Types, TypeOK, RowType, SubmitType
<1>2. QED
  BY <1>1, SpecIInv, PTL

\* __pending and the runners agree whatever requests, timers and restarts
\* interleave: a runner that waits has its resolver, and no resolver outlives
\* the wait it was registered for.
THEOREM RegistryAgreement == Spec => []RegistryAgrees
<1>1. IInv => RegistryAgrees
  BY DEF IInv, RunOK, Registered, RegistryAgrees
<1>2. QED
  BY <1>1, SpecIInv, PTL

\* Any number of concurrent calls of the decision route, for the same or for
\* another run: the UPDATE lets one of them decide a given checkpoint row.
THEOREM OneDecisionEach == Spec => []OneDecisionPerRow
<1>1. IInv => OneDecisionPerRow
  BY DEF IInv
<1>2. QED
  BY <1>1, SpecIInv, PTL

\* A runner goes on with the decision its own row records, or with the fallback
\* after a timeout; a decision for an earlier row of a regenerated step never
\* reaches a later wait.
THEOREM RunnerActsOnItsRow == Spec => []ActsOnItsRow
<1>1. IInv => ActsOnItsRow
  <2> SUFFICES ASSUME IInv, NEW r \in Runs, NEW i \in DOMAIN acted[r]
               PROVE  /\ acted[r][i].row = i
                      /\ acted[r][i].timedOut \/ acted[r][i].decision = rows[r][i].decision
    BY DEF ActsOnItsRow
  <2>1. i \in 1 .. Len(acted[r])
    BY RunFacts DEF IInv
  <2>2. QED
    BY <2>1 DEF IInv, RunOK, Acted
<1>2. QED
  BY <1>1, SpecIInv, PTL
=============================================================================
