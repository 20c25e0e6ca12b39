--------------------------- MODULE FlowCheckpoint ---------------------------
(***************************************************************************)
(* Flow checkpoints of a generated service: the flow_runs and              *)
(* flow_run_checkpoints tables, the in-process registry of awaiters, the   *)
(* decision route, and the flow runner that pauses at a checkpoint and     *)
(* waits.  A decision and the runner meet in three places that are not     *)
(* updated together: the checkpoint row, the registry and the timer.       *)
(*                                                                         *)
(* The compiler emits the functions but no caller of startFlowRun() and    *)
(* awaitDecision(): the runner is external, and follows the state machine  *)
(* in the header of the emitted module.  All requests reach the process    *)
(* of the runner.                                                          *)
(***************************************************************************)
EXTENDS Integers, Sequences, FiniteSets

CONSTANTS Runs,
          NumCheckpoints,  \* every flow pauses at checkpoints 1, 2, ... in order
          Allow,           \* Allow[flow][checkpoint]: the allow: list
          Submits,         \* requests to the decision route
          HasTimeout,      \* whether the checkpoints declare timeout:
          OnTimeout,       \* what awaitDecision() falls back to
          MaxPauses,       \* bound: checkpoint rows of a run
          MaxCrashes,      \* bound: restarts of the process
          NoSubmit

Decisions == {"approve", "reject", "edit", "regenerate", "cancel"}
Checkpoints == 1 .. NumCheckpoints
Flows == DOMAIN Allow

ASSUME CheckpointAssumption ==
  /\ NumCheckpoints \in Nat \ {0}
  /\ \A f \in Flows : Allow[f] \in [Checkpoints -> SUBSET Decisions]
  /\ HasTimeout \in BOOLEAN /\ OnTimeout \in {"cancel", "reject"}
  /\ MaxPauses \in Nat /\ MaxCrashes \in Nat

VARIABLES
  state,    \* flow_runs.state
  rows,     \* flow_run_checkpoints of a run, oldest first
  pending,  \* __pending: the (run, checkpoint) pairs with a resolver
  at,       \* where the runner of a run is
  step,     \* the checkpoint the runner is at
  result,   \* what its awaitDecision() resolved with
  acted,    \* history: the row and decision of every resolved wait
  submit,   \* of each request: where it is, and what it decides
  crashes

tables == <<state, rows>>
runner == <<at, step, result, acted>>
vars == <<tables, pending, runner, submit, crashes>>

Nothing == [decision |-> "none", timedOut |-> FALSE]

Init ==
  /\ state = [r \in Runs |-> "absent"]
  /\ rows = [r \in Runs |-> <<>>]
  /\ pending = {}
  /\ at = [r \in Runs |-> "start"]
  /\ step = [r \in Runs |-> 1]
  /\ result = [r \in Runs |-> Nothing]
  /\ acted = [r \in Runs |-> <<>>]
  /\ submit = [s \in Submits |-> NoSubmit]
  /\ crashes = 0

-----------------------------------------------------------------------------
(* The runner *)

Moves(r, from, to) == at[r] = from /\ at' = [at EXCEPT ![r] = to]
Mark(r, st) == state' = [state EXCEPT ![r] = st]

StartFlowRun(r) ==
  /\ Moves(r, "start", "work")
  /\ Mark(r, "running")
  /\ UNCHANGED <<rows, pending, step, result, acted, submit, crashes>>

\* The step before a checkpoint is done: pauseFlowRun() marks the run first ...
PauseFlowRun(r) ==
  /\ Moves(r, "work", "pausing")
  /\ step[r] <= NumCheckpoints /\ Len(rows[r]) < MaxPauses
  /\ Mark(r, "paused")
  /\ UNCHANGED <<rows, pending, step, result, acted, submit, crashes>>

\* ... and inserts the checkpoint row in a second statement.
InsertCheckpoint(r) ==
  /\ Moves(r, "pausing", "paused")
  /\ rows' = [rows EXCEPT ![r] = Append(@, [cp |-> step[r], decision |-> "pending"])]
  /\ UNCHANGED <<state, pending, step, result, acted, submit, crashes>>

\* The INSERT has answered: the resolver is registered and the timer armed.
AwaitDecision(r) ==
  /\ Moves(r, "paused", "awaiting")
  /\ pending' = pending \cup {<<r, step[r]>>}
  /\ UNCHANGED <<tables, step, result, acted, submit, crashes>>

\* Resolving the promise of whoever registered under this key.
Resolve(r, cp, decision, timedOut) ==
  /\ pending' = pending \ {<<r, cp>>}
  /\ result' = [result EXCEPT ![r] = [decision |-> decision, timedOut |-> timedOut]]
  /\ acted' = [acted EXCEPT ![r] = Append(@, [row |-> Len(rows[r]), decision |-> decision,
                                              timedOut |-> timedOut])]
  /\ at' = [at EXCEPT ![r] = "resolved"]

\* Mutant of TimeOut: the entry stays in the registry.
TimeOutKeepsEntry(r) ==
  /\ HasTimeout /\ at[r] = "awaiting"
  /\ at' = [at EXCEPT ![r] = "resolved"]
  /\ result' = [result EXCEPT ![r] = [decision |-> OnTimeout, timedOut |-> TRUE]]
  /\ acted' = [acted EXCEPT ![r] = Append(@, [row |-> Len(rows[r]), decision |-> OnTimeout,
                                              timedOut |-> TRUE])]
  /\ UNCHANGED <<tables, pending, step, submit, crashes>>

\* Mutant of TimeOut: the entry is deleted and the promise left unresolved.
TimeOutUnresolved(r) ==
  /\ HasTimeout /\ <<r, step[r]>> \in pending
  /\ pending' = pending \ {<<r, step[r]>>}
  /\ UNCHANGED <<tables, runner, submit, crashes>>

TimeOut(r) ==
  /\ HasTimeout /\ <<r, step[r]>> \in pending
  /\ Resolve(r, step[r], OnTimeout, TRUE)
  /\ UNCHANGED <<tables, step, submit, crashes>>

\* reject and cancel: markRunCancelled(); else markRunResumed(), and the runner
\* runs the step again (regenerate) or goes on.
ActOnDecision(r) ==
  /\ at[r] = "resolved"
  /\ \/ /\ result[r].decision \in {"reject", "cancel"}
        /\ Moves(r, "resolved", "done") /\ Mark(r, "cancelled") /\ UNCHANGED step
     \/ /\ result[r].decision \notin {"reject", "cancel"}
        /\ Moves(r, "resolved", "work") /\ Mark(r, "resumed")
        /\ step' = [step EXCEPT ![r] = IF result[r].decision = "regenerate" THEN @ ELSE @ + 1]
  /\ result' = [result EXCEPT ![r] = Nothing]
  /\ UNCHANGED <<rows, pending, acted, submit, crashes>>

\* markRunCompleted() after the last step, markRunFailed() when a step or one of
\* the statements of pauseFlowRun() throws.
Finish(r, st) ==
  /\ \/ at[r] = "work" /\ (st = "completed" => step[r] > NumCheckpoints)
     \/ at[r] \in {"pausing", "paused"} /\ st = "failed"
  /\ at' = [at EXCEPT ![r] = "done"]
  /\ Mark(r, st)
  /\ UNCHANGED <<rows, pending, step, result, acted, submit, crashes>>

-----------------------------------------------------------------------------
(* POST /flow_runs/:id/checkpoint/:name *)

\* The route checks the decision against the allow list of the flow the
\* request names, which may be another than the run's.
Post(s, r, cp, decision, flow) ==
  /\ submit[s] = NoSubmit
  /\ submit' = [submit EXCEPT ![s] =
       [pc |-> IF decision \in Allow[flow][cp] THEN "update" ELSE "not_allowed",
        run |-> r, cp |-> cp, decision |-> decision, row |-> 0]]
  /\ UNCHANGED <<tables, pending, runner, crashes>>

\* Mutant of Undecided: "AND decision IS NULL" is missing.
UndecidedAny(r, cp) == {i \in DOMAIN rows[r] : rows[r][i].cp = cp}
Undecided(r, cp) == {i \in DOMAIN rows[r] : rows[r][i].cp = cp /\ rows[r][i].decision = "pending"}

\* Mutant of PersistDecision: the awaiter is woken before the row is written.
WakeThenPersist(s) ==
  LET q == submit[s] IN
  /\ q # NoSubmit /\ q.pc = "update"
  /\ \/ /\ <<q.run, q.cp>> \in pending
        /\ Resolve(q.run, q.cp, q.decision, FALSE)
        /\ submit' = [submit EXCEPT ![s].pc = "ok"]
     \/ /\ <<q.run, q.cp>> \notin pending
        /\ submit' = [submit EXCEPT ![s].pc = "conflict"]
        /\ UNCHANGED <<pending, result, acted, at>>
  /\ UNCHANGED <<tables, step, crashes>>

\* submitDecision() persists first: the UPDATE decides the undecided rows, and
\* "no pending checkpoint matches" is a 409.
PersistDecision(s) ==
  LET q == submit[s]  hit == Undecided(q.run, q.cp) IN
  /\ q # NoSubmit /\ q.pc = "update"
  /\ rows' = [rows EXCEPT ![q.run] = [i \in DOMAIN @ |->
                IF i \in hit THEN [@[i] EXCEPT !.decision = q.decision] ELSE @[i]]]
  /\ submit' = [submit EXCEPT ![s] =
       IF hit = {} THEN [q EXCEPT !.pc = "conflict"]
       ELSE [q EXCEPT !.pc = "wake", !.row = CHOOSE i \in hit : \A j \in hit : j <= i]]
  /\ UNCHANGED <<state, pending, runner, crashes>>

\* ... and then wakes the awaiter, if any.
WakeAwaiter(s) ==
  LET q == submit[s] IN
  /\ q # NoSubmit /\ q.pc = "wake"
  /\ submit' = [submit EXCEPT ![s].pc = "ok"]
  /\ IF <<q.run, q.cp>> \in pending
       THEN Resolve(q.run, q.cp, q.decision, FALSE)
       ELSE UNCHANGED <<pending, result, acted, at>>
  /\ UNCHANGED <<tables, step, crashes>>

\* The process restarts: the registry, the timers, the runners and the requests
\* in flight are gone; nothing resumes a run from its row.  The route has no try
\* block, so this is also what happens when its UPDATE fails.
Restart ==
  /\ crashes < MaxCrashes
  /\ crashes' = crashes + 1
  /\ pending' = {}
  /\ at' = [r \in Runs |-> IF at[r] \in {"start", "done"} THEN at[r] ELSE "dead"]
  /\ submit' = [s \in Submits |->
       IF submit[s] # NoSubmit /\ submit[s].pc \in {"update", "wake"}
         THEN [submit[s] EXCEPT !.pc = "dropped"] ELSE submit[s]]
  /\ UNCHANGED <<tables, step, result, acted>>

RunnerStep(r) ==
  \/ StartFlowRun(r) \/ PauseFlowRun(r) \/ InsertCheckpoint(r) \/ AwaitDecision(r)
  \/ ActOnDecision(r) \/ Finish(r, "completed") \/ Finish(r, "failed")

Next ==
  \/ \E r \in Runs : RunnerStep(r) \/ TimeOut(r)
  \/ \E s \in Submits : PersistDecision(s) \/ WakeAwaiter(s)
  \/ \E s \in Submits, r \in Runs, cp \in Checkpoints, d \in Decisions, f \in Flows :
       Post(s, r, cp, d, f)
  \/ Restart

Spec == Init /\ [][Next]_vars

(* A runner that can go on does, a request that was accepted is carried      *)
(* through, and a timer fires; nobody is obliged to post a decision.         *)
FairSpec == Spec /\ (\A r \in Runs : WF_vars(RunnerStep(r)) /\ WF_vars(TimeOut(r)))
                 /\ (\A s \in Submits : WF_vars(PersistDecision(s) \/ WakeAwaiter(s)))

-----------------------------------------------------------------------------
(* Properties *)

Accepted(s) == submit[s] # NoSubmit /\ submit[s].pc \in {"wake", "ok"}

\* The tables, the registry, the runners and the requests stay in their domains.
TypeOK ==
  /\ state \in [Runs -> {"absent", "running", "paused", "resumed",
                         "completed", "cancelled", "failed"}]
  /\ rows \in [Runs -> Seq([cp : Checkpoints, decision : Decisions \cup {"pending"}])]
  /\ pending \subseteq Runs \X Checkpoints
  /\ at \in [Runs -> {"start", "work", "pausing", "paused", "awaiting", "resolved",
                      "done", "dead"}]
  /\ step \in [Runs -> 1 .. NumCheckpoints + 1]
  /\ result \in [Runs -> [decision : Decisions \cup {"none"}, timedOut : BOOLEAN]]
  /\ \A s \in Submits : submit[s] = NoSubmit \/
       submit[s] \in [pc : {"update", "not_allowed", "conflict", "wake", "ok", "dropped"},
                      run : Runs, cp : Checkpoints, decision : Decisions,
                      row : 0 .. MaxPauses]
  /\ crashes \in 0 .. MaxCrashes

\* A registered resolver belongs to a runner that waits at that checkpoint, and
\* a runner that waits is registered: no promise is orphaned and none is woken
\* that has gone on.
RegistryAgrees ==
  \A r \in Runs : /\ at[r] = "awaiting" <=> <<r, step[r]>> \in pending
                  /\ \A cp \in Checkpoints : <<r, cp>> \in pending => cp = step[r]

\* Of concurrent decisions on one checkpoint one is accepted: two accepted
\* requests never decided the same row.
OneDecisionPerRow ==
  \A s, t \in Submits : Accepted(s) /\ Accepted(t) /\ s # t =>
    submit[s].run # submit[t].run \/ submit[s].row # submit[t].row

\* A wait resolves once, and unless it timed out with the decision that its own
\* row records, whatever requests race with it and however often the step was
\* regenerated.
ActsOnItsRow ==
  \A r \in Runs : \A i \in DOMAIN acted[r] :
    /\ acted[r][i].row = i
    /\ acted[r][i].timedOut \/ acted[r][i].decision = rows[r][i].decision

\* With a timeout no run waits forever, even if nobody ever decides.
EveryWaitEnds == \A r \in Runs : at[r] = "awaiting" ~> at[r] # "awaiting"
=============================================================================
