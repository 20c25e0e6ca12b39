------------------------------ MODULE SagaFlow ------------------------------
(***************************************************************************)
(* executeFlow(): the steps of a flow in order, each a POST to the service *)
(* that runs a capability, and on failure the compensations of the         *)
(* completed steps in reverse order.  The caller and the capabilities are  *)
(* the environment: a call may be refused, may be applied although the     *)
(* caller sees an error, at once or after the caller has gone on, or may   *)
(* find no route.  Nothing is persisted.                                   *)
(***************************************************************************)
EXTENDS Integers, Sequences, FiniteSets

CONSTANTS Flows,         \* executions of a flow
          NumSteps,
          Compensable,   \* the steps that declare compensate:
          StepRouters,   \* the routers on which the capability of a flow's
          UndoRouters,   \* step, and its compensation, are emitted
          Base,          \* the router SERVICE_BASE_URL points at; "root" by default
          Faults,        \* what may go wrong in a run
          MaxFaults      \* bound: how often

Steps == 1 .. NumSteps

ASSUME SagaAssumption ==
  /\ NumSteps \in Nat \ {0} /\ Compensable \subseteq Steps
  /\ \A f \in Flows : DOMAIN StepRouters[f] = Steps /\ DOMAIN UndoRouters[f] = Steps
  /\ Faults \subseteq {"refused", "lost", "undo_refused", "undo_lost", "crash"}
  /\ MaxFaults \in Nat

VARIABLES
  at,           \* idle, forward, backward, done, or dead with the process
  step,         \* the step executeFlow() is at
  completed,    \* the steps that have answered ok, in order
  left,         \* how many of them the reverse loop has still to look at
  compensated,  \* FlowResult.compensated
  ok,           \* FlowResult.ok
  applied,      \* in the service: how often a step has taken effect
  undone,       \* ... and how often its compensation has
  late,         \* ... and the steps whose call (for a completed step that of its
                \* compensation) was given up while its handler goes on
  undoLog,      \* history: the compensations called, in order
  trouble,      \* history: a call was lost, a compensation failed, or a crash
  faults

runner == <<at, step, completed, left, compensated, ok>>
service == <<applied, undone, late>>
sagaVars == <<runner, service, undoLog, trouble, faults>>

None == [s \in Steps |-> 0]

SagaInit ==
  /\ at = [f \in Flows |-> "idle"]
  /\ step = [f \in Flows |-> 1]
  /\ completed = [f \in Flows |-> <<>>]
  /\ left = [f \in Flows |-> 0]
  /\ compensated = [f \in Flows |-> <<>>]
  /\ ok = [f \in Flows |-> FALSE]
  /\ applied = [f \in Flows |-> None]
  /\ undone = [f \in Flows |-> None]
  /\ late = [f \in Flows |-> {}]
  /\ undoLog = [f \in Flows |-> <<>>]
  /\ trouble = [f \in Flows |-> FALSE]
  /\ faults = 0

InTrouble(F) == trouble' = [f \in Flows |-> trouble[f] \/ f \in F]

Fault(kind) == kind \in Faults /\ faults < MaxFaults /\ faults' = faults + 1

\* The emitted URL is the base and the capability's name, while a capability is
\* served under the routers of the entities it is declared on.
Served(f, s) == Base \in StepRouters[f][s]
UndoServed(f, s) == Base \in UndoRouters[f][s]

-----------------------------------------------------------------------------
(* Forward *)

Start(f) ==
  /\ at[f] = "idle"
  /\ at' = [at EXCEPT ![f] = "forward"]
  /\ UNCHANGED <<step, completed, left, compensated, ok, service, undoLog, trouble, faults>>

StepSucceeds(f) ==
  /\ at[f] = "forward" /\ step[f] \in Steps /\ Served(f, step[f])
  /\ applied' = [applied EXCEPT ![f][step[f]] = @ + 1]
  /\ completed' = [completed EXCEPT ![f] = Append(@, step[f])]
  /\ step' = [step EXCEPT ![f] = @ + 1]
  /\ UNCHANGED <<at, left, compensated, ok, undone, late, undoLog, trouble, faults>>

\* The response is not ok, or fetch() or response.json() throws; in the latter
\* case the capability may have taken effect.
StepFails(f, takesEffect) ==
  /\ at[f] = "forward" /\ step[f] \in Steps
  /\ \/ ~Served(f, step[f]) /\ ~takesEffect /\ UNCHANGED faults
     \/ Served(f, step[f]) /\ Fault(IF takesEffect THEN "lost" ELSE "refused")
  /\ InTrouble(IF takesEffect THEN {f} ELSE {})
  /\ applied' = IF takesEffect THEN [applied EXCEPT ![f][step[f]] = @ + 1] ELSE applied
  /\ at' = [at EXCEPT ![f] = "backward"]
  /\ left' = [left EXCEPT ![f] = Len(completed[f])]
  /\ UNCHANGED <<step, completed, compensated, ok, undone, late, undoLog>>

\* The answer is the 503 of the timeout middleware, or the connection is lost,
\* while the capability goes on.
StepTimesOut(f) ==
  /\ at[f] = "forward" /\ step[f] \in Steps /\ Served(f, step[f])
  /\ Fault("lost") /\ InTrouble({f})
  /\ late' = [late EXCEPT ![f] = @ \cup {step[f]}]
  /\ at' = [at EXCEPT ![f] = "backward"]
  /\ left' = [left EXCEPT ![f] = Len(completed[f])]
  /\ UNCHANGED <<step, completed, compensated, ok, applied, undone, undoLog>>

Complete(f) ==
  /\ at[f] = "forward" /\ step[f] \notin Steps
  /\ at' = [at EXCEPT ![f] = "done"]
  /\ ok' = [ok EXCEPT ![f] = TRUE]
  /\ UNCHANGED <<step, completed, left, compensated, service, undoLog, trouble, faults>>

-----------------------------------------------------------------------------
(* Backward *)

\* Mutant of Due: the step that was completed last is passed over.
DueOffByOne(f) == {i \in 1 .. left[f] - 1 : completed[f][i] \in Compensable}

\* The completed steps that declare a compensation, of those which the loop over
\* [...completed].reverse() has still to look at.
Due(f) == {i \in 1 .. left[f] : completed[f][i] \in Compensable}

\* Mutant of NextDue: in the order of completion.
NextDueInOrder(f) == CHOOSE i \in Due(f) : \A j \in Due(f) : i <= j
NextDue(f) == CHOOSE i \in Due(f) : \A j \in Due(f) : j <= i

\* The step whose compensation is called.
ToUndo(f) == completed[f][NextDue(f)]

\* Calling the next compensation; reported if fetch() does not throw.
TakesUndo(f, reported) ==
  /\ at[f] = "backward" /\ Due(f) # {}
  /\ undoLog' = [undoLog EXCEPT ![f] = Append(@, ToUndo(f))]
  /\ left' = [left EXCEPT ![f] = NextDue(f) - 1]
  /\ compensated' = [compensated EXCEPT ![f] = IF reported THEN Append(@, ToUndo(f)) ELSE @]
  /\ UNCHANGED <<at, step, completed, ok, applied>>

UndoSucceeds(f) ==
  /\ TakesUndo(f, TRUE)
  /\ UndoServed(f, ToUndo(f))
  /\ undone' = [undone EXCEPT ![f][ToUndo(f)] = @ + 1]
  /\ UNCHANGED <<late, trouble, faults>>

\* The compensation answers 4xx or 5xx; its status is not looked at.
UndoRefused(f) ==
  /\ TakesUndo(f, TRUE)
  /\ \/ ~UndoServed(f, ToUndo(f)) /\ UNCHANGED faults
     \/ UndoServed(f, ToUndo(f)) /\ Fault("undo_refused")
  /\ InTrouble({f})
  /\ UNCHANGED <<undone, late>>

\* fetch() throws, whether or not the compensation has run; the loop goes on
\* with the others.
UndoThrows(f, takesEffect) ==
  /\ TakesUndo(f, FALSE)
  /\ takesEffect => UndoServed(f, ToUndo(f))
  /\ Fault("undo_lost")
  /\ InTrouble({f})
  /\ undone' = IF takesEffect THEN [undone EXCEPT ![f][ToUndo(f)] = @ + 1] ELSE undone
  /\ UNCHANGED late

\* The compensation goes on after a 503, which counts as an answer, or after
\* fetch() has thrown.
UndoTimesOut(f, reported) ==
  /\ TakesUndo(f, reported)
  /\ UndoServed(f, ToUndo(f))
  /\ Fault("undo_lost") /\ InTrouble({f})
  /\ late' = [late EXCEPT ![f] = @ \cup {ToUndo(f)}]
  /\ UNCHANGED undone

\* Mutant of GiveUp: the result is returned only if everything was compensated.
GiveUpWhenUndone(f) ==
  /\ at[f] = "backward" /\ Due(f) = {} /\ Len(compensated[f]) = Len(undoLog[f])
  /\ at' = [at EXCEPT ![f] = "done"]
  /\ UNCHANGED <<step, completed, left, compensated, ok, service, undoLog, trouble, faults>>

GiveUp(f) ==
  /\ at[f] = "backward" /\ Due(f) = {}
  /\ at' = [at EXCEPT ![f] = "done"]
  /\ UNCHANGED <<step, completed, left, compensated, ok, service, undoLog, trouble, faults>>

\* A call that was given up takes effect after all, whatever has become of its flow.
TakesEffectLate(f, s) ==
  /\ s \in late[f]
  /\ late' = [late EXCEPT ![f] = @ \ {s}]
  /\ applied' = IF s = step[f] THEN [applied EXCEPT ![f][s] = @ + 1] ELSE applied
  /\ undone' = IF s = step[f] THEN undone ELSE [undone EXCEPT ![f][s] = @ + 1]
  /\ UNCHANGED <<runner, undoLog, trouble, faults>>

Crash ==
  /\ Fault("crash")
  /\ at' = [f \in Flows |-> IF at[f] \in {"forward", "backward"} THEN "dead" ELSE at[f]]
  /\ InTrouble({f \in Flows : at[f] \in {"forward", "backward"}})
  /\ UNCHANGED <<step, completed, left, compensated, ok, service, undoLog>>

FlowStep(f) ==
  \/ StepSucceeds(f) \/ StepFails(f, TRUE) \/ StepFails(f, FALSE)
  \/ StepTimesOut(f) \/ Complete(f)
  \/ UndoSucceeds(f) \/ UndoRefused(f)
  \/ UndoThrows(f, TRUE) \/ UndoThrows(f, FALSE)
  \/ UndoTimesOut(f, TRUE) \/ UndoTimesOut(f, FALSE) \/ GiveUp(f)

SagaNext ==
  \/ \E f \in Flows : Start(f) \/ FlowStep(f) \/ \E s \in Steps : TakesEffectLate(f, s)
  \/ Crash

SagaSpec == SagaInit /\ [][SagaNext]_sagaVars

(* Every call is answered or fails.                                         *)
FairSpec == SagaSpec /\ \A f \in Flows : WF_sagaVars(FlowStep(f))

-----------------------------------------------------------------------------
(* Properties *)

InEffect(f) == {s \in Steps : applied[f][s] > undone[f][s]}

\* The runner and the service stay in their domains.
SagaTypeOK ==
  /\ at \in [Flows -> {"idle", "forward", "backward", "done", "dead"}]
  /\ step \in [Flows -> 1 .. NumSteps + 1]
  /\ \A f \in Flows : /\ completed[f] \in Seq(Steps) /\ left[f] \in 0 .. Len(completed[f])
                      /\ compensated[f] \in Seq(Compensable) /\ undoLog[f] \in Seq(Compensable)
  /\ ok \in [Flows -> BOOLEAN]
  /\ applied \in [Flows -> [Steps -> 0 .. 1]] /\ undone \in [Flows -> [Steps -> 0 .. 1]]
  /\ late \in [Flows -> SUBSET Steps]
  /\ trouble \in [Flows -> BOOLEAN] /\ faults \in 0 .. MaxFaults

\* Compensations run in the reverse of the order of completion, each once and
\* none passed over, also after one that failed: the n-th is that of the step
\* after which n - 1 others with a compensation have been completed.  When the
\* flow has failed, all of them were run.
UndoneInReverse ==
  \A f \in Flows :
    LET owed == {i \in DOMAIN completed[f] : completed[f][i] \in Compensable} IN
      /\ \A n \in DOMAIN undoLog[f] :
           \E i \in owed : /\ undoLog[f][n] = completed[f][i]
                          /\ Cardinality({j \in owed : j > i}) = n - 1
      /\ at[f] = "done" /\ ~ok[f] => Len(undoLog[f]) = Cardinality(owed)

\* Every flow that started reports a result, unless the process died.
EveryFlowEnds == \A f \in Flows : at[f] = "forward" ~> at[f] \in {"done", "dead"}

Effects == [f \in Flows |-> InEffect(f)]
Outcomes == [f \in Flows |-> IF at[f] # "done" THEN "open"
                             ELSE IF ok[f] THEN "committed" ELSE "aborted"]

\* The runner implements the atomicity that the semantic model promises as far
\* as the code gives it: ok means all steps, and a failed flow leaves the effect
\* of a compensable step behind only after a lost call, a failed compensation
\* or a crash.
Contract == INSTANCE SagaContract WITH inEffect <- Effects, outcome <- Outcomes
ContractSpec == Contract!Spec
=============================================================================
