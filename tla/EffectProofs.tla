---------------------------- MODULE EffectProofs ----------------------------
(***************************************************************************)
(* Proofs about the two components in which a failure half way must not    *)
(* leave effects behind: SagaFlow, which compensates, for any flows,       *)
(* steps, compensations, routes and faults; and SqliteService, which rolls *)
(* back, for any requests, routes, flushes, failures and restarts.  They   *)
(* share no name, and neither part uses the other; Init, Next, Spec and    *)
(* IInv are those of SqliteService.                                        *)
(***************************************************************************)
EXTENDS SagaFlow, SqliteService, FiniteSetTheorems, WellFoundedInduction, NaturalsInduction, TLAPS

(***************************************************************************)
(* SagaFlow                                                                *)
(***************************************************************************)
\* The completed steps that declare a compensation, those after one of them, and
\* those that the loop has looked at.
Owed(f) == {i \in DOMAIN completed[f] : completed[f][i] \in Compensable}
Later(f, i) == {j \in Owed(f) : j > i}
Seen(f) == Later(f, left[f])

SagaTypes ==
  /\ at \in [Flows -> {"idle", "forward", "backward", "done", "dead"}]
  /\ step \in [Flows -> 1 .. NumSteps + 1]
  /\ completed \in [Flows -> Seq(Steps)] /\ left \in [Flows -> Nat]
  /\ compensated \in [Flows -> Seq(Compensable)] /\ undoLog \in [Flows -> Seq(Compensable)]
  /\ ok \in [Flows -> BOOLEAN]
  /\ applied \in [Flows -> [Steps -> 0 .. 1]] /\ undone \in [Flows -> [Steps -> 0 .. 1]]
  /\ late \in [Flows -> SUBSET Steps]
  /\ trouble \in [Flows -> BOOLEAN] /\ faults \in 0 .. MaxFaults

\* The steps complete in their order.
Path(f) ==
  /\ Len(completed[f]) = step[f] - 1 /\ \A i \in 1 .. step[f] - 1 : completed[f][i] = i
  /\ left[f] <= step[f] - 1

\* The n-th compensation is that of the step after which n - 1 others were completed.
InTurn(f) ==
  \A n \in DOMAIN undoLog[f] :
    \E i \in Owed(f) : /\ undoLog[f][n] = completed[f][i]
                       /\ Cardinality(Later(f, i)) = n - 1

\* Before anything has failed, what is in effect is what was completed.
Ahead(f) ==
  /\ (at[f] \in {"idle", "forward"} \/ ok[f]) =>
       /\ undoLog[f] = <<>>
       /\ \A s \in Steps : /\ undone[f][s] = 0
                           /\ applied[f][s] = IF s < step[f] THEN 1 ELSE 0
  /\ ok[f] => at[f] = "done" /\ step[f] = NumSteps + 1

\* In the reverse loop: each step it has seen is undone unless there was
\* trouble, no other one is, and the step that failed has no effect unless its
\* call was lost.
Reversing(f) == at[f] = "backward" \/ (at[f] = "done" /\ ~ok[f])

Behind(f) ==
  Reversing(f) =>
    /\ Len(undoLog[f]) = Cardinality(Seen(f))
    /\ at[f] = "done" => Due(f) = {}
    /\ \A s \in Steps :
         /\ s \notin Seen(f) => undone[f][s] = 0
         /\ s \in Seen(f) => undone[f][s] = 1 \/ trouble[f]
         /\ s < step[f] => applied[f][s] = 1
         /\ s = step[f] => applied[f][s] = 0 \/ trouble[f]
         /\ s > step[f] => applied[f][s] = 0

\* A call that was given up has not taken effect yet; it is that of the step
\* that failed, or of a compensation that the loop has seen.
Lingering(f) ==
  /\ at[f] \in {"idle", "forward"} \/ ok[f] => late[f] = {}
  /\ late[f] # {} => trouble[f]
  /\ \A s \in late[f] : /\ undone[f][s] = 0
                        /\ applied[f][s] = IF s = step[f] THEN 0 ELSE 1
                        /\ s # step[f] => s \in Seen(f)

SagaOK(f) == Path(f) /\ InTurn(f) /\ Ahead(f) /\ Behind(f) /\ Lingering(f)

SagaInv == SagaTypes /\ \A f \in Flows : SagaOK(f)

-----------------------------------------------------------------------------
(* Operators *)

\* A nonempty set of numbers up to n has a greatest element.
LEMMA GreatestUpTo ==
  ASSUME NEW n \in Nat, NEW S \in SUBSET (1 .. n), S # {}
  PROVE  \E i \in S : \A j \in S : j <= i
<1> DEFINE T == {n - j : j \in S}
<1>1. T \in SUBSET Nat /\ T # {}
  <2>1. \A j \in S : n - j \in Nat
    OBVIOUS
  <2>2. PICK k : k \in S
    OBVIOUS
  <2>3. n - k \in T
    BY <2>2
  <2>4. QED
    BY <2>1, <2>3
<1>2. IsWellFoundedOn(OpToRel(<, Nat), Nat)
  BY NatLessThanWellFounded
<1> HIDE DEF T
<1>3. PICK t \in T : \A u \in T : <<u, t>> \notin OpToRel(<, Nat)
  BY <1>1, <1>2, WFMin
<1>4. \A u \in T : t <= u
  <2>1. \A u \in T : ~(u < t)
    BY <1>1, <1>3 DEF OpToRel
  <2>2. \A u \in T : u \in Nat /\ t \in Nat
    BY <1>1, <1>3
  <2>3. QED
    BY <2>1, <2>2
<1>5. PICK i \in S : t = n - i
  BY DEF T
<1>6. ASSUME NEW j \in S
      PROVE  j <= i
  <2>1. n - j \in T
    BY DEF T
  <2>2. n - i <= n - j /\ i \in Nat /\ j \in Nat
    BY <1>4, <1>5, <2>1
  <2>3. QED
    BY <2>2
<1>7. QED
  BY <1>6

\* Step i is the i-th that completed.
LEMMA OwedSteps ==
  ASSUME SagaTypes, NEW f \in Flows, Path(f)
  PROVE  /\ step[f] \in Nat \ {0} /\ step[f] - 1 \in Nat /\ Len(completed[f]) = step[f] - 1
         /\ Owed(f) = {i \in 1 .. step[f] - 1 : i \in Compensable}
         /\ IsFiniteSet(Owed(f)) /\ IsFiniteSet(Seen(f))
         /\ Cardinality(Seen(f)) \in Nat
<1>1. step[f] \in Nat \ {0} /\ step[f] - 1 \in Nat /\ Len(completed[f]) = step[f] - 1
  BY SagaAssumption DEF SagaTypes, Path
<1>2. completed[f] \in Seq(Steps)
  BY DEF SagaTypes
<1>3. DOMAIN completed[f] = 1 .. step[f] - 1
  BY <1>1, <1>2
<1>4. Owed(f) = {i \in 1 .. step[f] - 1 : i \in Compensable}
  BY <1>3 DEF Owed, Path
<1>5. IsFiniteSet(1 .. step[f] - 1)
  BY <1>1, FS_Interval
<1>6. IsFiniteSet(Owed(f)) /\ IsFiniteSet(Seen(f))
  BY <1>4, <1>5, FS_Subset DEF Seen, Later
<1>7. QED
  BY <1>1, <1>4, <1>6, FS_CardinalityType

\* The step whose compensation the loop calls next: it has seen all that
\* completed after it and none before.
LEMMA NextDueFacts ==
  ASSUME SagaTypes, NEW f \in Flows, Path(f), Due(f) # {}
  PROVE  /\ NextDue(f) \in Owed(f) /\ NextDue(f) \in 1 .. left[f]
         /\ ToUndo(f) = NextDue(f) /\ NextDue(f) \in Steps /\ NextDue(f) \in Compensable
         /\ Later(f, NextDue(f)) = Seen(f)
         /\ Later(f, NextDue(f) - 1) = Seen(f) \cup {NextDue(f)}
         /\ NextDue(f) \notin Seen(f)
<1>1. left[f] \in Nat /\ left[f] <= step[f] - 1 /\ step[f] - 1 \in Nat /\ step[f] - 1 <= NumSteps
  BY SagaAssumption DEF SagaTypes, Path
<1>2. Due(f) = {i \in 1 .. left[f] : i \in Compensable}
  BY <1>1 DEF Due, Path
<1>3. PICK m \in Due(f) : \A j \in Due(f) : j <= m
  BY <1>1, <1>2, GreatestUpTo
<1>4. NextDue(f) \in Due(f) /\ \A j \in Due(f) : j <= NextDue(f)
  BY <1>3 DEF NextDue
<1> DEFINE d == NextDue(f)
<1> HIDE DEF d
<1>5. d \in 1 .. left[f] /\ d \in Compensable /\ \A j \in Due(f) : j <= d
  BY <1>2, <1>4 DEF d
<1>6. d \in 1 .. step[f] - 1 /\ d \in Owed(f)
  BY <1>1, <1>5, OwedSteps
<1>7. ToUndo(f) = d /\ d \in Steps
  BY <1>1, <1>6, SagaAssumption DEF ToUndo, Path, Steps, d
<1>8. ASSUME NEW j \in Owed(f)
      PROVE  /\ j > d <=> j > left[f]
             /\ j > d - 1 <=> j > left[f] \/ j = d
  <2>1. j \in Nat /\ (j <= left[f] => j \in Due(f))
    BY <1>1, <1>2, OwedSteps
  <2>2. j <= left[f] => j <= d
    BY <1>5, <2>1
  <2>3. QED
    BY <1>1, <1>5, <2>1, <2>2
<1>9. QED
  BY <1>1, <1>5, <1>6, <1>7, <1>8 DEF Seen, Later, d

-----------------------------------------------------------------------------
(* What a step of one flow leaves alone *)

Frame(g) ==
  /\ at'[g] = at[g] /\ step'[g] = step[g] /\ completed'[g] = completed[g] /\ left'[g] = left[g]
  /\ ok'[g] = ok[g] /\ applied'[g] = applied[g] /\ undone'[g] = undone[g]
  /\ late'[g] = late[g] /\ undoLog'[g] = undoLog[g] /\ (trouble[g] => trouble'[g])

\* The order of the compensations is kept while none is called.
LEMMA InTurnKept ==
  ASSUME NEW f, InTurn(f), completed'[f] = completed[f], undoLog'[f] = undoLog[f]
  PROVE  InTurn(f)'
<1>1. Owed(f)' = Owed(f)
  BY DEF Owed
<1>2. \A i : Later(f, i)' = Later(f, i)
  BY <1>1 DEF Later
<1>3. QED
  BY <1>1, <1>2 DEF InTurn

\* Nothing happens to a flow but trouble.
LEMMA FrameKeeps ==
  ASSUME NEW g, SagaOK(g), Frame(g)
  PROVE  SagaOK(g)'
<1>1. Owed(g)' = Owed(g) /\ Seen(g)' = Seen(g) /\ Due(g)' = Due(g)
  BY DEF Frame, Owed, Seen, Later, Due
<1>2. Path(g)'
  BY DEF Frame, SagaOK, Path
<1>3. InTurn(g)'
  BY InTurnKept DEF Frame, SagaOK
<1>4. Ahead(g)'
  BY DEF Frame, SagaOK, Ahead
<1>5. Behind(g)'
  BY <1>1 DEF Frame, SagaOK, Behind, Reversing
<1>6. Lingering(g)'
  BY <1>1 DEF Frame, SagaOK, Lingering
<1>7. QED
  BY <1>2, <1>3, <1>4, <1>5, <1>6 DEF SagaOK

\* The invariant after a step of one flow.
LEMMA OneFlow ==
  ASSUME SagaInv, NEW f \in Flows, SagaTypes', SagaOK(f)', \A g \in Flows \ {f} : Frame(g)
  PROVE  SagaInv'
  BY FrameKeeps DEF SagaInv

\* Initially no flow has run.
LEMMA SagaInvInit == SagaInit => SagaInv
<1> SUFFICES ASSUME SagaInit
             PROVE  SagaInv
  OBVIOUS
<1>1. SagaTypes
  <2>1. None \in [Steps -> 0 .. 1]
    BY DEF None
  <2>2. <<>> \in Seq(Steps) /\ <<>> \in Seq(Compensable)
    OBVIOUS
  <2>3. QED
    BY <2>1, <2>2, SagaAssumption DEF SagaInit, SagaTypes
<1>2. ASSUME NEW f \in Flows
      PROVE  SagaOK(f)
  <2>1. /\ at[f] = "idle" /\ step[f] = 1 /\ completed[f] = <<>> /\ left[f] = 0 /\ ok[f] = FALSE
        /\ undoLog[f] = <<>> /\ applied[f] = None /\ undone[f] = None /\ late[f] = {}
    BY DEF SagaInit
  <2>2. Path(f) /\ InTurn(f) /\ Behind(f) /\ Lingering(f)
    BY <2>1 DEF Path, InTurn, Behind, Reversing, Lingering
  <2>3. Ahead(f)
    BY <2>1 DEF Ahead, None, Steps
  <2>4. QED
    BY <2>2, <2>3 DEF SagaOK
<1>3. QED
  BY <1>1, <1>2 DEF SagaInv

-----------------------------------------------------------------------------
(* The steps that keep the invariant: forward *)

\* What is known of one flow.
LEMMA OneFlowTypes ==
  ASSUME SagaTypes, NEW f \in Flows
  PROVE  /\ step[f] \in 1 .. NumSteps + 1 /\ step[f] \in Nat /\ left[f] \in Nat
         /\ completed[f] \in Seq(Steps) /\ compensated[f] \in Seq(Compensable)
         /\ undoLog[f] \in Seq(Compensable)
         /\ applied[f] \in [Steps -> 0 .. 1] /\ undone[f] \in [Steps -> 0 .. 1]
         /\ NumSteps \in Nat
BY SagaAssumption DEF SagaTypes

LEMMA StartKeeps ==
  ASSUME SagaInv, NEW f \in Flows, Start(f)
  PROVE  SagaInv'
<1> USE DEF Start, runner, service
<1>1. SagaTypes /\ SagaOK(f) /\ at[f] = "idle" /\ at'[f] = "forward"
  BY DEF SagaInv, SagaTypes
<1>2. SagaTypes'
  BY <1>1 DEF SagaTypes
<1>3. \A g \in Flows \ {f} : Frame(g)
  BY <1>1 DEF Frame, SagaTypes
<1>4. Path(f)' /\ InTurn(f)'
  BY <1>1, InTurnKept DEF SagaOK, Path
<1>5. Ahead(f)' /\ Behind(f)' /\ Lingering(f)'
  BY <1>1 DEF SagaOK, Ahead, Behind, Reversing, Lingering
<1>6. QED
  BY <1>2, <1>3, <1>4, <1>5, OneFlow DEF SagaOK

LEMMA StepSucceedsKeeps ==
  ASSUME SagaInv, NEW f \in Flows, StepSucceeds(f)
  PROVE  SagaInv'
<1>1. /\ SagaTypes /\ SagaOK(f) /\ Path(f) /\ Ahead(f)
      /\ at[f] = "forward" /\ step[f] \in Steps
  BY DEF SagaInv, SagaOK, StepSucceeds
<1>2. /\ applied[f][step[f]] = 0 /\ undoLog[f] = <<>> /\ ~ok[f]
      /\ \A s \in Steps : /\ undone[f][s] = 0
                          /\ applied[f][s] = IF s < step[f] THEN 1 ELSE 0
  BY <1>1, OneFlowTypes DEF Ahead
<1>3. /\ at' = at /\ left' = left /\ compensated' = compensated /\ ok' = ok
      /\ undone' = undone /\ late' = late /\ undoLog' = undoLog /\ trouble' = trouble /\ faults' = faults
      /\ applied' = [applied EXCEPT ![f] = [applied[f] EXCEPT ![step[f]] = 1]]
      /\ completed' = [completed EXCEPT ![f] = Append(completed[f], step[f])]
      /\ step' = [step EXCEPT ![f] = step[f] + 1]
  BY <1>1, <1>2 DEF StepSucceeds, SagaTypes
<1>4. /\ applied'[f] = [applied[f] EXCEPT ![step[f]] = 1] /\ step'[f] = step[f] + 1
      /\ completed'[f] = Append(completed[f], step[f])
  BY <1>1, <1>3 DEF SagaTypes
<1>5. SagaTypes'
  <2>1. applied'[f] \in [Steps -> 0 .. 1] /\ step'[f] \in 1 .. NumSteps + 1
        /\ completed'[f] \in Seq(Steps)
    BY <1>1, <1>4, OneFlowTypes DEF Steps
  <2>2. QED
    BY <1>1, <1>3, <1>4, <2>1 DEF SagaTypes
<1>6. \A g \in Flows \ {f} : Frame(g)
  BY <1>1, <1>3 DEF Frame, SagaTypes
<1>7. Path(f)'
  <2>1. Len(completed'[f]) = step[f]
    BY <1>1, <1>4, OneFlowTypes DEF Path
  <2>2. ASSUME NEW i \in 1 .. step'[f] - 1
        PROVE  completed'[f][i] = i
    BY <1>1, <1>4, OneFlowTypes DEF Path
  <2>3. QED
    BY <1>1, <1>3, <1>4, <2>1, <2>2, OneFlowTypes DEF Path
<1>8. InTurn(f)'
  BY <1>2, <1>3 DEF InTurn
<1>9. Ahead(f)'
  <2>1. ASSUME NEW s \in Steps
        PROVE  applied'[f][s] = IF s < step'[f] THEN 1 ELSE 0
    BY <1>1, <1>2, <1>4, OneFlowTypes DEF Steps
  <2>2. QED
    BY <1>2, <1>3, <2>1 DEF Ahead
<1>10. Behind(f)'
  BY <1>1, <1>3 DEF Behind, Reversing
<1>11. Lingering(f)'
  BY <1>1, <1>3 DEF SagaInv, SagaOK, Lingering
<1>12. QED
  BY <1>5, <1>6, <1>7, <1>8, <1>9, <1>10, <1>11, OneFlow DEF SagaOK

\* A flow is marked.
LEMMA Marked ==
  ASSUME SagaInv, NEW F, InTrouble(F)
  PROVE  /\ trouble' \in [Flows -> BOOLEAN] /\ \A g \in Flows : trouble[g] => trouble'[g]
         /\ \A g \in Flows : g \in F => trouble'[g]
BY DEF InTrouble, SagaInv, SagaTypes

LEMMA FaultCounted ==
  ASSUME SagaInv, NEW kind, Fault(kind) \/ faults' = faults
  PROVE  faults' \in 0 .. MaxFaults
BY SagaAssumption DEF Fault, SagaInv, SagaTypes

\* Whatever has become of the call that failed, if there is trouble where it has
\* an effect or may still have one.
LEMMA FailureKeeps ==
  ASSUME SagaInv, NEW f \in Flows, NEW takesEffect \in BOOLEAN, at[f] = "forward",
         step[f] \in Steps,
         UNCHANGED <<step, completed, compensated, ok, undone, undoLog>>,
         at' = [at EXCEPT ![f] = "backward"],
         left' = [left EXCEPT ![f] = Len(completed[f])],
         applied' = IF takesEffect THEN [applied EXCEPT ![f][step[f]] = @ + 1] ELSE applied,
         late' \in [Flows -> SUBSET Steps], \A g \in Flows \ {f} : late'[g] = late[g],
         late'[f] \subseteq {step[f]}, late'[f] # {} => ~takesEffect /\ trouble'[f],
         trouble' \in [Flows -> BOOLEAN], \A g \in Flows : trouble[g] => trouble'[g],
         takesEffect => trouble'[f], faults' \in 0 .. MaxFaults
  PROVE  SagaInv'
<1>1. /\ SagaTypes /\ SagaOK(f) /\ Path(f) /\ Ahead(f) /\ InTurn(f) /\ Lingering(f)
      /\ at[f] = "forward" /\ step[f] \in Steps
  BY DEF SagaInv, SagaOK
<1>2. /\ applied[f][step[f]] = 0 /\ undoLog[f] = <<>> /\ ~ok[f]
      /\ \A s \in Steps : /\ undone[f][s] = 0
                          /\ applied[f][s] = IF s < step[f] THEN 1 ELSE 0
  BY <1>1, OneFlowTypes DEF Ahead
<1>3. /\ step' = step /\ completed' = completed /\ compensated' = compensated /\ ok' = ok
      /\ undone' = undone /\ undoLog' = undoLog
      /\ applied' = IF takesEffect THEN [applied EXCEPT ![f] = [applied[f] EXCEPT ![step[f]] = 1]]
                     ELSE applied
  BY <1>1, <1>2 DEF SagaTypes
<1>4. /\ at'[f] = "backward" /\ left'[f] = step[f] - 1
      /\ applied'[f] = IF takesEffect THEN [applied[f] EXCEPT ![step[f]] = 1] ELSE applied[f]
  BY <1>1, <1>3 DEF SagaTypes, Path
<1>5. SagaTypes'
  <2>1. applied'[f] \in [Steps -> 0 .. 1] /\ left'[f] \in Nat
    BY <1>1, <1>4, OneFlowTypes DEF Steps
  <2>2. applied' \in [Flows -> [Steps -> 0 .. 1]]
    BY <1>1, <1>3, <1>4, <2>1 DEF SagaTypes
  <2>3. at' \in [Flows -> {"idle", "forward", "backward", "done", "dead"}]
        /\ left' \in [Flows -> Nat]
    BY <1>1, <1>4, <2>1 DEF SagaTypes
  <2>4. QED
    BY <1>1, <1>3, <2>2, <2>3 DEF SagaTypes
<1>6. ASSUME NEW g \in Flows \ {f}
      PROVE  Frame(g)
  <2>1. applied'[g] = applied[g] /\ at'[g] = at[g] /\ left'[g] = left[g]
    BY <1>1, <1>3 DEF SagaTypes
  <2>2. QED
    BY <1>3, <2>1 DEF Frame
<1>7. Owed(f)' = Owed(f) /\ Owed(f) = {i \in 1 .. step[f] - 1 : i \in Compensable}
  BY <1>1, <1>3, OwedSteps DEF Owed
<1>8. Seen(f)' = {}
  BY <1>1, <1>4, <1>7, OneFlowTypes DEF Seen, Later
<1>9. Path(f)' /\ InTurn(f)' /\ Ahead(f)'
  <2>1. InTurn(f)'
    BY <1>1, <1>3, InTurnKept
  <2>2. Path(f)' /\ Ahead(f)'
    BY <1>1, <1>2, <1>3, <1>4, OneFlowTypes DEF Path, Ahead
  <2>3. QED
    BY <2>1, <2>2
<1>10. Behind(f)'
  <2>1. Len(undoLog'[f]) = Cardinality(Seen(f)')
    BY <1>2, <1>3, <1>8, FS_EmptySet
  <2>2. ASSUME NEW s \in Steps
        PROVE  /\ undone'[f][s] = 0
               /\ s < step[f] => applied'[f][s] = 1
               /\ s = step[f] => applied'[f][s] = 0 \/ trouble'[f]
               /\ s > step[f] => applied'[f][s] = 0
    BY <1>1, <1>2, <1>3, <1>4, OneFlowTypes DEF Steps
  <2>3. QED
    BY <1>3, <1>4, <1>8, <2>1, <2>2 DEF Behind
<1>11. Lingering(f)'
  BY <1>1, <1>2, <1>3, <1>4 DEF Lingering
<1>12. QED
  BY <1>5, <1>6, <1>9, <1>10, <1>11, OneFlow DEF SagaOK

LEMMA StepFailsKeeps ==
  ASSUME SagaInv, NEW f \in Flows, NEW takesEffect \in BOOLEAN, StepFails(f, takesEffect)
  PROVE  SagaInv'
<1>1. /\ at[f] = "forward" /\ step[f] \in Steps /\ late' = late
      /\ InTrouble(IF takesEffect THEN {f} ELSE {})
      /\ (\E kind : Fault(kind)) \/ faults' = faults
  BY DEF StepFails
<1>2. late[f] = {} /\ late' \in [Flows -> SUBSET Steps]
  BY <1>1 DEF SagaInv, SagaOK, SagaTypes, Lingering
<1>3. faults' \in 0 .. MaxFaults
  BY <1>1, FaultCounted
<1>4. /\ trouble' \in [Flows -> BOOLEAN] /\ \A g \in Flows : trouble[g] => trouble'[g]
      /\ takesEffect => trouble'[f]
  BY <1>1, Marked
<1>5. QED
  BY <1>1, <1>2, <1>3, <1>4, FailureKeeps DEF StepFails

LEMMA StepTimesOutKeeps ==
  ASSUME SagaInv, NEW f \in Flows, StepTimesOut(f)
  PROVE  SagaInv'
<1>1. /\ at[f] = "forward" /\ step[f] \in Steps /\ InTrouble({f}) /\ Fault("lost")
      /\ late' = [late EXCEPT ![f] = @ \cup {step[f]}] /\ applied' = applied
  BY DEF StepTimesOut
<1>2. late[f] = {} /\ late \in [Flows -> SUBSET Steps]
  BY <1>1 DEF SagaInv, SagaOK, SagaTypes, Lingering
<1>3. /\ late' \in [Flows -> SUBSET Steps] /\ late'[f] = {step[f]}
      /\ \A g \in Flows \ {f} : late'[g] = late[g]
  BY <1>1, <1>2
<1>4. /\ trouble' \in [Flows -> BOOLEAN] /\ \A g \in Flows : trouble[g] => trouble'[g]
      /\ trouble'[f] /\ faults' \in 0 .. MaxFaults
  BY <1>1, Marked, FaultCounted
<1>5. UNCHANGED <<step, completed, compensated, ok, undone, undoLog>>
      /\ at' = [at EXCEPT ![f] = "backward"] /\ left' = [left EXCEPT ![f] = Len(completed[f])]
  BY DEF StepTimesOut
<1>6. QED
  BY <1>1, <1>3, <1>4, <1>5, FailureKeeps

LEMMA CompleteKeeps ==
  ASSUME SagaInv, NEW f \in Flows, Complete(f)
  PROVE  SagaInv'
<1> USE DEF Complete, service
<1>1. /\ SagaTypes /\ SagaOK(f) /\ at[f] = "forward" /\ at'[f] = "done" /\ ok'[f]
      /\ step[f] = NumSteps + 1
  <2>1. SagaTypes /\ SagaOK(f) /\ at[f] = "forward" /\ step[f] \notin Steps
    BY DEF SagaInv
  <2>2. at'[f] = "done" /\ ok'[f]
    BY <2>1 DEF SagaTypes
  <2>3. step[f] = NumSteps + 1
    BY <2>1, OneFlowTypes DEF Steps
  <2>4. QED
    BY <2>1, <2>2, <2>3
<1>2. SagaTypes'
  BY <1>1 DEF SagaTypes
<1>3. \A g \in Flows \ {f} : Frame(g)
  BY <1>1 DEF Frame, SagaTypes
<1>4. Path(f)' /\ InTurn(f)'
  BY <1>1, InTurnKept DEF SagaOK, Path
<1>5. Ahead(f)' /\ Behind(f)' /\ Lingering(f)'
  BY <1>1 DEF SagaOK, Ahead, Behind, Reversing, Lingering
<1>6. QED
  BY <1>2, <1>3, <1>4, <1>5, OneFlow DEF SagaOK

-----------------------------------------------------------------------------
(* The steps that keep the invariant: backward *)

\* Whatever becomes of the compensation that is called, if there is trouble
\* where it has no effect.
LEMMA TakesUndoKeeps ==
  ASSUME SagaInv, NEW f \in Flows, NEW reported \in BOOLEAN, TakesUndo(f, reported),
         undone' \in [Flows -> [Steps -> 0 .. 1]], trouble' \in [Flows -> BOOLEAN],
         faults' \in 0 .. MaxFaults, late' \in [Flows -> SUBSET Steps],
         \A g \in Flows : trouble[g] => trouble'[g],
         \A g \in Flows \ {f} : undone'[g] = undone[g] /\ late'[g] = late[g],
         late'[f] = late[f] \/ (/\ late'[f] = late[f] \cup {ToUndo(f)}
                               /\ undone' = undone /\ trouble'[f]),
         \A s \in Steps \ {ToUndo(f)} : undone'[f][s] = undone[f][s],
         undone'[f][ToUndo(f)] = 1 \/ trouble'[f]
  PROVE  SagaInv'
<1> DEFINE d == NextDue(f)
<1>1. /\ SagaTypes /\ SagaOK(f) /\ Path(f) /\ InTurn(f) /\ Ahead(f) /\ Behind(f)
      /\ Lingering(f) /\ at[f] = "backward" /\ Due(f) # {}
  BY DEF SagaInv, SagaOK, TakesUndo
<1>2. /\ d \in Owed(f) /\ d \in 1 .. left[f] /\ ToUndo(f) = d /\ d \in Steps /\ d \in Compensable
      /\ Later(f, d) = Seen(f) /\ Later(f, d - 1) = Seen(f) \cup {d}
      /\ d \notin Seen(f)
  BY <1>1, NextDueFacts
<1> HIDE DEF d
<1>3. /\ at' = at /\ step' = step /\ completed' = completed /\ ok' = ok /\ applied' = applied
      /\ undoLog' = [undoLog EXCEPT ![f] = Append(undoLog[f], d)]
      /\ left' = [left EXCEPT ![f] = d - 1]
      /\ compensated' = [compensated EXCEPT ![f] = IF reported THEN Append(compensated[f], d)
                                                  ELSE compensated[f]]
  BY <1>1, <1>2 DEF TakesUndo, SagaTypes, d
<1>4. undoLog'[f] = Append(undoLog[f], d) /\ left'[f] = d - 1
  BY <1>1, <1>3 DEF SagaTypes
<1>5. SagaTypes'
  <2>1. left' \in [Flows -> Nat]
    BY <1>1, <1>2, <1>3, OneFlowTypes DEF SagaTypes
  <2>2. undoLog' \in [Flows -> Seq(Compensable)]
    BY <1>1, <1>2, <1>3, OneFlowTypes DEF SagaTypes
  <2>3. compensated' \in [Flows -> Seq(Compensable)]
    BY <1>1, <1>2, <1>3, OneFlowTypes DEF SagaTypes
  <2>4. QED
    BY <1>1, <1>3, <2>1, <2>2, <2>3 DEF SagaTypes
<1>6. \A g \in Flows \ {f} : Frame(g)
  BY <1>1, <1>3 DEF Frame, SagaTypes
<1>7. Path(f)'
  BY <1>1, <1>2, <1>3, <1>4, OneFlowTypes DEF Path
<1>8. Ahead(f)'
  <2>1. at'[f] = "backward" /\ ~ok'[f]
    BY <1>1, <1>3 DEF Ahead
  <2>2. QED
    BY <2>1 DEF Ahead
<1>9. Owed(f)' = Owed(f) /\ Seen(f)' = Seen(f) \cup {d}
  <2>1. Owed(f)' = Owed(f)
    BY <1>3 DEF Owed
  <2>2. QED
    BY <1>2, <1>4, <2>1 DEF Seen, Later
<1>10. Len(undoLog[f]) = Cardinality(Seen(f)) /\ ~ok[f]
  BY <1>1 DEF Ahead, Behind, Reversing
<1>11. InTurn(f)'
  <2>0. completed' = completed /\ \A i : Later(f, i)' = Later(f, i)
    BY <1>3, <1>9 DEF Later
  <2>1. completed[f][d] = d /\ undoLog[f] \in Seq(Compensable)
    BY <1>1, <1>2, OneFlowTypes DEF Path
  <2> SUFFICES ASSUME NEW n \in DOMAIN undoLog'[f]
               PROVE  \E i \in Owed(f) : /\ undoLog'[f][n] = completed[f][i]
                                         /\ Cardinality(Later(f, i)) = n - 1
    BY <1>9, <2>0 DEF InTurn
  <2>2. Len(undoLog[f]) \in Nat /\ (n = Len(undoLog[f]) + 1 \/ n \in 1 .. Len(undoLog[f]))
    BY <1>4, <2>1
  <2>3. CASE n = Len(undoLog[f]) + 1
    <3>1. undoLog'[f][n] = d
      BY <1>4, <2>1, <2>3
    <3>2. Cardinality(Later(f, d)) = Cardinality(Seen(f))
      BY <1>2
    <3>3. Cardinality(Later(f, d)) = n - 1
      BY <1>10, <2>2, <2>3, <3>2
    <3>4. QED
      BY <1>2, <2>1, <3>1, <3>3
  <2>4. CASE n \in 1 .. Len(undoLog[f])
    <3>1. undoLog'[f][n] = undoLog[f][n] /\ n \in DOMAIN undoLog[f]
      BY <1>4, <2>1, <2>4
    <3>2. QED
      BY <1>1, <3>1 DEF InTurn
  <2>5. QED
    BY <2>2, <2>3, <2>4
<1>12. Behind(f)'
  <2>1. IsFiniteSet(Seen(f)) /\ Cardinality(Seen(f)) \in Nat
    BY <1>1, OwedSteps
  <2>2. Cardinality(Seen(f)') = Cardinality(Seen(f)) + 1
    BY <1>2, <1>9, <2>1, FS_AddElement
  <2>3. Len(undoLog'[f]) = Cardinality(Seen(f)')
    BY <1>1, <1>4, <1>10, <2>2, OneFlowTypes
  <2>4. ASSUME NEW s \in Steps
        PROVE  /\ s \notin Seen(f)' => undone'[f][s] = 0
               /\ s \in Seen(f)' => undone'[f][s] = 1 \/ trouble'[f]
               /\ s < step[f] => applied'[f][s] = 1
               /\ s = step[f] => applied'[f][s] = 0 \/ trouble'[f]
               /\ s > step[f] => applied'[f][s] = 0
    <3>1. /\ s \notin Seen(f) => undone[f][s] = 0
          /\ s \in Seen(f) => undone[f][s] = 1 \/ trouble[f]
          /\ s < step[f] => applied[f][s] = 1
          /\ s = step[f] => applied[f][s] = 0 \/ trouble[f]
          /\ s > step[f] => applied[f][s] = 0
      BY <1>1 DEF Behind, Reversing
    <3>2. s # d => undone'[f][s] = undone[f][s]
      BY <1>2
    <3>3. s = d => undone'[f][s] = 1 \/ trouble'[f]
      BY <1>2
    <3>4. QED
      BY <1>3, <1>9, <3>1, <3>2, <3>3
  <2>5. QED
    BY <1>1, <1>3, <2>3, <2>4 DEF Behind
<1>13. Lingering(f)'
  <2>1. d \notin late[f] /\ d < step[f] /\ applied[f][d] = 1 /\ undone[f][d] = 0
    <3>1. d < step[f] /\ step[f] \in Nat
      BY <1>1, <1>2, OwedSteps, OneFlowTypes
    <3>2. QED
      BY <1>1, <1>2, <3>1 DEF Lingering, Behind, Reversing
  <2>2. /\ late'[f] # {} => trouble'[f]
        /\ late'[f] \subseteq late[f] \cup {d}
        /\ d \in late'[f] => undone'[f] = undone[f]
    BY <1>1, <1>2, <2>1 DEF Lingering
  <2>3. ASSUME NEW s \in late'[f]
        PROVE  /\ undone'[f][s] = 0
               /\ applied'[f][s] = IF s = step'[f] THEN 0 ELSE 1
               /\ s # step'[f] => s \in Seen(f)'
    <3>1. CASE s = d
      BY <1>1, <1>3, <1>9, <2>1, <2>2, <3>1, OneFlowTypes
    <3>2. CASE s # d
      <4>1. s \in late[f] /\ s \in Steps
        BY <1>1, <2>2, <3>2 DEF SagaTypes
      <4>2. undone'[f][s] = undone[f][s]
        BY <1>2, <3>2, <4>1
      <4>3. QED
        BY <1>1, <1>3, <1>9, <4>1, <4>2 DEF Lingering
    <3>3. QED
      BY <3>1, <3>2
  <2>4. QED
    BY <1>1, <1>3, <1>10, <2>2, <2>3 DEF Lingering
<1>14. QED
  BY <1>5, <1>6, <1>7, <1>8, <1>11, <1>12, <1>13, OneFlow DEF SagaOK

\* A compensation has not run before it is called.
LEMMA ToUndoFacts ==
  ASSUME SagaInv, NEW f \in Flows, at[f] = "backward", Due(f) # {}
  PROVE  ToUndo(f) \in Steps /\ ToUndo(f) \in Compensable /\ ToUndo(f) < step[f]
         /\ undone[f][ToUndo(f)] = 0 /\ applied[f][ToUndo(f)] = 1
<1>1. SagaTypes /\ Path(f) /\ Behind(f)
  BY DEF SagaInv, SagaOK
<1>2. ToUndo(f) \in Steps /\ ToUndo(f) \in Compensable /\ ToUndo(f) \in Owed(f)
      /\ ToUndo(f) \notin Seen(f)
  BY <1>1, NextDueFacts
<1>3. ToUndo(f) < step[f]
  BY <1>1, <1>2, OwedSteps
<1>4. QED
  BY <1>1, <1>2, <1>3 DEF Behind, Reversing

\* What a call of a compensation does to the service.
LEMMA UndoneOnce ==
  ASSUME SagaInv, NEW f \in Flows, NEW takesEffect \in BOOLEAN, at[f] = "backward", Due(f) # {},
         undone' = IF takesEffect THEN [undone EXCEPT ![f][ToUndo(f)] = @ + 1] ELSE undone
  PROVE  /\ undone' \in [Flows -> [Steps -> 0 .. 1]]
         /\ \A g \in Flows \ {f} : undone'[g] = undone[g]
         /\ \A s \in Steps \ {ToUndo(f)} : undone'[f][s] = undone[f][s]
         /\ undone'[f][ToUndo(f)] = IF takesEffect THEN 1 ELSE 0
<1>1. undone \in [Flows -> [Steps -> 0 .. 1]] /\ ToUndo(f) \in Steps /\ undone[f][ToUndo(f)] = 0
  BY ToUndoFacts DEF SagaInv, SagaTypes
<1>2. takesEffect => undone' = [undone EXCEPT ![f] = [undone[f] EXCEPT ![ToUndo(f)] = 1]]
  BY <1>1
<1>3. undone[f] \in [Steps -> 0 .. 1]
  BY <1>1
<1>4. [undone[f] EXCEPT ![ToUndo(f)] = 1] \in [Steps -> 0 .. 1]
  BY <1>1, <1>3
<1>5. CASE takesEffect
  BY <1>1, <1>2, <1>3, <1>4, <1>5
<1>6. CASE ~takesEffect
  BY <1>1, <1>6
<1>7. QED
  BY <1>5, <1>6

LEMMA UndoSucceedsKeeps ==
  ASSUME SagaInv, NEW f \in Flows, UndoSucceeds(f)
  PROVE  SagaInv'
<1>1. TakesUndo(f, TRUE) /\ trouble' = trouble /\ faults' = faults /\ late' = late
      /\ undone' = [undone EXCEPT ![f][ToUndo(f)] = @ + 1]
  BY DEF UndoSucceeds
<1>2. at[f] = "backward" /\ Due(f) # {}
  BY <1>1 DEF TakesUndo
<1>3. /\ trouble' \in [Flows -> BOOLEAN] /\ faults' \in 0 .. MaxFaults
      /\ late' \in [Flows -> SUBSET Steps]
  BY <1>1 DEF SagaInv, SagaTypes
<1>4. /\ undone' \in [Flows -> [Steps -> 0 .. 1]]
      /\ \A g \in Flows \ {f} : undone'[g] = undone[g]
      /\ \A s \in Steps \ {ToUndo(f)} : undone'[f][s] = undone[f][s]
      /\ undone'[f][ToUndo(f)] = 1
  BY <1>1, <1>2, UndoneOnce
<1>5. QED
  BY <1>1, <1>3, <1>4, TakesUndoKeeps

LEMMA UndoRefusedKeeps ==
  ASSUME SagaInv, NEW f \in Flows, UndoRefused(f)
  PROVE  SagaInv'
<1>1. TakesUndo(f, TRUE) /\ InTrouble({f}) /\ undone' = undone /\ late' = late
      /\ (Fault("undo_refused") \/ faults' = faults)
  BY DEF UndoRefused
<1>2. /\ trouble' \in [Flows -> BOOLEAN] /\ \A g \in Flows : trouble[g] => trouble'[g]
      /\ trouble'[f] /\ faults' \in 0 .. MaxFaults
  BY <1>1, Marked, FaultCounted
<1>3. undone' \in [Flows -> [Steps -> 0 .. 1]] /\ late' \in [Flows -> SUBSET Steps]
  BY <1>1 DEF SagaInv, SagaTypes
<1>4. QED
  BY <1>1, <1>2, <1>3, TakesUndoKeeps

LEMMA UndoThrowsKeeps ==
  ASSUME SagaInv, NEW f \in Flows, NEW takesEffect \in BOOLEAN, UndoThrows(f, takesEffect)
  PROVE  SagaInv'
<1>1. TakesUndo(f, FALSE) /\ InTrouble({f}) /\ Fault("undo_lost") /\ late' = late
      /\ undone' = IF takesEffect THEN [undone EXCEPT ![f][ToUndo(f)] = @ + 1] ELSE undone
  BY DEF UndoThrows
<1>2. /\ trouble' \in [Flows -> BOOLEAN] /\ \A g \in Flows : trouble[g] => trouble'[g]
      /\ trouble'[f] /\ faults' \in 0 .. MaxFaults
  BY <1>1, Marked, FaultCounted
<1>3. at[f] = "backward" /\ Due(f) # {}
  BY <1>1 DEF TakesUndo
<1>4. /\ undone' \in [Flows -> [Steps -> 0 .. 1]]
      /\ \A g \in Flows \ {f} : undone'[g] = undone[g]
      /\ \A s \in Steps \ {ToUndo(f)} : undone'[f][s] = undone[f][s]
  BY <1>1, <1>3, UndoneOnce
<1>5. late' \in [Flows -> SUBSET Steps]
  BY <1>1 DEF SagaInv, SagaTypes
<1>6. QED
  BY <1>1, <1>2, <1>4, <1>5, TakesUndoKeeps

LEMMA UndoTimesOutKeeps ==
  ASSUME SagaInv, NEW f \in Flows, NEW reported \in BOOLEAN, UndoTimesOut(f, reported)
  PROVE  SagaInv'
<1>1. TakesUndo(f, reported) /\ InTrouble({f}) /\ Fault("undo_lost") /\ undone' = undone
      /\ late' = [late EXCEPT ![f] = @ \cup {ToUndo(f)}]
  BY DEF UndoTimesOut
<1>2. /\ trouble' \in [Flows -> BOOLEAN] /\ \A g \in Flows : trouble[g] => trouble'[g]
      /\ trouble'[f] /\ faults' \in 0 .. MaxFaults
  BY <1>1, Marked, FaultCounted
<1>3. ToUndo(f) \in Steps
  BY <1>1, ToUndoFacts DEF TakesUndo
<1>4. /\ undone' \in [Flows -> [Steps -> 0 .. 1]] /\ late' \in [Flows -> SUBSET Steps]
      /\ late'[f] = late[f] \cup {ToUndo(f)} /\ \A g \in Flows \ {f} : late'[g] = late[g]
  BY <1>1, <1>3 DEF SagaInv, SagaTypes
<1>5. QED
  BY <1>1, <1>2, <1>4, TakesUndoKeeps

\* What a call that was given up does when it takes effect after all.
LEMMA LateOnce ==
  ASSUME SagaInv, NEW f \in Flows, NEW s \in Steps, TakesEffectLate(f, s)
  PROVE  /\ trouble[f] /\ ~ok[f] /\ at[f] \notin {"idle", "forward"}
         /\ undone[f][s] = 0 /\ applied[f][s] = IF s = step[f] THEN 0 ELSE 1
         /\ applied' \in [Flows -> [Steps -> 0 .. 1]] /\ undone' \in [Flows -> [Steps -> 0 .. 1]]
         /\ \A g \in Flows \ {f} : applied'[g] = applied[g] /\ undone'[g] = undone[g]
         /\ \A t \in Steps \ {s} : /\ applied'[f][t] = applied[f][t]
                                  /\ undone'[f][t] = undone[f][t]
         /\ applied'[f][s] = 1 /\ undone'[f][s] = IF s = step[f] THEN 0 ELSE 1
<1>1. SagaTypes /\ Lingering(f) /\ s \in late[f]
  BY DEF SagaInv, SagaOK, TakesEffectLate
<1>2. /\ trouble[f] /\ ~ok[f] /\ at[f] \notin {"idle", "forward"}
      /\ undone[f][s] = 0 /\ applied[f][s] = IF s = step[f] THEN 0 ELSE 1
  BY <1>1 DEF Lingering
<1>3. /\ applied[f] \in [Steps -> 0 .. 1] /\ undone[f] \in [Steps -> 0 .. 1]
      /\ applied \in [Flows -> [Steps -> 0 .. 1]] /\ undone \in [Flows -> [Steps -> 0 .. 1]]
  BY <1>1 DEF SagaTypes
<1>4. CASE s = step[f]
  <2>1. applied' = [applied EXCEPT ![f] = [applied[f] EXCEPT ![s] = 1]] /\ undone' = undone
    BY <1>2, <1>3, <1>4 DEF TakesEffectLate
  <2>2. [applied[f] EXCEPT ![s] = 1] \in [Steps -> 0 .. 1]
    BY <1>3
  <2>3. QED
    BY <1>2, <1>3, <1>4, <2>1, <2>2
<1>5. CASE s # step[f]
  <2>1. undone' = [undone EXCEPT ![f] = [undone[f] EXCEPT ![s] = 1]] /\ applied' = applied
    BY <1>2, <1>3, <1>5 DEF TakesEffectLate
  <2>2. [undone[f] EXCEPT ![s] = 1] \in [Steps -> 0 .. 1]
    BY <1>3
  <2>3. QED
    BY <1>2, <1>3, <1>5, <2>1, <2>2
<1>6. QED
  BY <1>4, <1>5

LEMMA TakesEffectLateKeeps ==
  ASSUME SagaInv, NEW f \in Flows, NEW s \in Steps, TakesEffectLate(f, s)
  PROVE  SagaInv'
<1>1. /\ SagaTypes /\ SagaOK(f) /\ Path(f) /\ Behind(f) /\ Lingering(f) /\ s \in late[f]
      /\ late' = [late EXCEPT ![f] = @ \ {s}]
      /\ at' = at /\ step' = step /\ completed' = completed /\ left' = left
      /\ compensated' = compensated /\ ok' = ok /\ undoLog' = undoLog /\ trouble' = trouble
      /\ faults' = faults
  BY DEF SagaInv, SagaOK, TakesEffectLate, runner
<1>2. late' \in [Flows -> SUBSET Steps] /\ late'[f] = late[f] \ {s}
      /\ \A g \in Flows \ {f} : late'[g] = late[g]
  BY <1>1 DEF SagaTypes
<1>3. SagaTypes'
  BY <1>1, <1>2, LateOnce DEF SagaTypes
<1>4. \A g \in Flows \ {f} : Frame(g)
  BY <1>1, <1>2, LateOnce DEF Frame
<1>5. Owed(f)' = Owed(f) /\ Seen(f)' = Seen(f) /\ Due(f)' = Due(f)
  BY <1>1 DEF Owed, Seen, Later, Due
<1>6. Path(f)' /\ InTurn(f)' /\ Ahead(f)'
  <2>1. ~ok'[f] /\ at'[f] \notin {"idle", "forward"}
    BY <1>1, LateOnce
  <2>2. QED
    BY <1>1, <2>1, InTurnKept DEF SagaOK, Path, Ahead
<1>7. Behind(f)'
  <2> SUFFICES ASSUME Reversing(f)
               PROVE  \A t \in Steps :
                        /\ t \notin Seen(f) => undone'[f][t] = 0
                        /\ t \in Seen(f) => undone'[f][t] = 1 \/ trouble[f]
                        /\ t < step[f] => applied'[f][t] = 1
                        /\ t = step[f] => applied'[f][t] = 0 \/ trouble[f]
                        /\ t > step[f] => applied'[f][t] = 0
    BY <1>1, <1>5 DEF Behind, Reversing
  <2>1. /\ trouble[f] /\ (s # step[f] => s \in Seen(f) /\ applied[f][s] = 1)
        /\ s = step[f] => ~(s > step[f])
    BY <1>1, LateOnce, OneFlowTypes DEF Lingering
  <2>2. ASSUME NEW t \in Steps
        PROVE  /\ t \notin Seen(f) => undone[f][t] = 0
               /\ t < step[f] => applied[f][t] = 1
               /\ t > step[f] => applied[f][t] = 0
    BY <1>1 DEF Behind
  <2>3. QED
    BY <2>1, <2>2, LateOnce
<1>8. Lingering(f)'
  <2>1. \A t \in late[f] \ {s} : t \in Steps \ {s}
    BY <1>1 DEF SagaTypes
  <2>2. \A t \in late[f] \ {s} : undone'[f][t] = undone[f][t] /\ applied'[f][t] = applied[f][t]
    BY <2>1, LateOnce
  <2>3. QED
    BY <1>1, <1>2, <1>5, <2>2 DEF Lingering
<1>9. QED
  BY <1>3, <1>4, <1>6, <1>7, <1>8, OneFlow DEF SagaOK

LEMMA GiveUpKeeps ==
  ASSUME SagaInv, NEW f \in Flows, GiveUp(f)
  PROVE  SagaInv'
<1> USE DEF GiveUp, service
<1>1. SagaTypes /\ SagaOK(f) /\ at[f] = "backward" /\ at'[f] = "done" /\ Due(f) = {}
  BY DEF SagaInv, SagaTypes
<1>2. SagaTypes'
  BY <1>1 DEF SagaTypes
<1>3. \A g \in Flows \ {f} : Frame(g)
  BY <1>1 DEF Frame, SagaTypes
<1>4. Owed(f)' = Owed(f) /\ Seen(f)' = Seen(f) /\ Due(f)' = Due(f)
  BY DEF Owed, Seen, Later, Due
<1>5. Path(f)' /\ InTurn(f)'
  BY <1>1, InTurnKept DEF SagaOK, Path
<1>6. Ahead(f)'
  BY <1>1 DEF SagaOK, Ahead
<1>7. Behind(f)' /\ Lingering(f)'
  BY <1>1, <1>4 DEF SagaOK, Ahead, Behind, Reversing, Lingering
<1>8. QED
  BY <1>2, <1>3, <1>5, <1>6, <1>7, OneFlow DEF SagaOK

\* A crash leaves the completed steps of the flows it kills in place.
LEMMA CrashKeeps ==
  ASSUME SagaInv, Crash
  PROVE  SagaInv'
<1> DEFINE Running == {f \in Flows : at[f] \in {"forward", "backward"}}
<1>1. InTrouble(Running) /\ Fault("crash") /\ UNCHANGED <<step, completed, left, compensated, ok>>
      /\ UNCHANGED <<applied, undone, late, undoLog>>
      /\ at' = [f \in Flows |-> IF at[f] \in {"forward", "backward"} THEN "dead" ELSE at[f]]
  BY DEF Crash, service
<1>2. /\ trouble' \in [Flows -> BOOLEAN] /\ \A g \in Flows : trouble[g] => trouble'[g]
      /\ faults' \in 0 .. MaxFaults
  BY <1>1, Marked, FaultCounted
<1>3. SagaTypes /\ at' \in [Flows -> {"idle", "forward", "backward", "done", "dead"}]
  BY <1>1 DEF SagaInv, SagaTypes
<1>4. SagaTypes'
  BY <1>1, <1>2, <1>3 DEF SagaTypes
<1>5. ASSUME NEW f \in Flows
      PROVE  SagaOK(f)'
  <2>1. SagaOK(f)
    BY DEF SagaInv
  <2>2. CASE f \notin Running
    <3>1. Frame(f)
      BY <1>1, <1>2, <2>2 DEF Frame
    <3>2. QED
      BY <2>1, <3>1, FrameKeeps
  <2>3. CASE f \in Running
    <3>1. at'[f] = "dead" /\ ~ok[f]
      BY <1>1, <2>1, <2>3 DEF SagaOK, Ahead
    <3>2. Path(f)' /\ InTurn(f)'
      BY <1>1, <2>1, InTurnKept DEF SagaOK, Path
    <3>3. Ahead(f)' /\ Behind(f)'
      BY <1>1, <3>1 DEF Ahead, Behind, Reversing
    <3>4. Lingering(f)'
      <4>1. Seen(f)' = Seen(f)
        BY <1>1 DEF Seen, Later, Owed
      <4>2. QED
        BY <1>1, <1>2, <2>1, <3>1, <4>1 DEF SagaOK, Lingering
    <3>5. QED
      BY <3>2, <3>3, <3>4 DEF SagaOK
  <2>4. QED
    BY <2>2, <2>3
<1>6. QED
  BY <1>4, <1>5 DEF SagaInv

\* Every step keeps the invariant.
LEMMA SagaInvStep == SagaInv /\ [SagaNext]_sagaVars => SagaInv'
<1> SUFFICES ASSUME SagaInv, [SagaNext]_sagaVars
             PROVE  SagaInv'
  OBVIOUS
<1>0. ASSUME NEW f \in Flows, NEW s \in Steps, TakesEffectLate(f, s)
      PROVE  SagaInv'
  BY <1>0, TakesEffectLateKeeps
<1>1. ASSUME NEW f \in Flows, Start(f) \/ FlowStep(f)
      PROVE  SagaInv'
  <2>1. CASE Start(f)
    BY <2>1, StartKeeps
  <2>2. CASE StepSucceeds(f)
    BY <2>2, StepSucceedsKeeps
  <2>3. CASE StepFails(f, TRUE) \/ StepFails(f, FALSE)
    BY <2>3, StepFailsKeeps
  <2>4. CASE Complete(f)
    BY <2>4, CompleteKeeps
  <2>5. CASE UndoSucceeds(f)
    BY <2>5, UndoSucceedsKeeps
  <2>6. CASE UndoRefused(f)
    BY <2>6, UndoRefusedKeeps
  <2>7. CASE UndoThrows(f, TRUE) \/ UndoThrows(f, FALSE)
    BY <2>7, UndoThrowsKeeps
  <2>8. CASE GiveUp(f)
    BY <2>8, GiveUpKeeps
  <2>9. CASE StepTimesOut(f)
    BY <2>9, StepTimesOutKeeps
  <2>10. CASE UndoTimesOut(f, TRUE) \/ UndoTimesOut(f, FALSE)
    BY <2>10, UndoTimesOutKeeps
  <2>11. QED
    BY <1>1, <2>1, <2>2, <2>3, <2>4, <2>5, <2>6, <2>7, <2>8, <2>9, <2>10 DEF FlowStep
<1>2. CASE Crash
  BY <1>2, CrashKeeps
<1>3. CASE UNCHANGED sagaVars
  <2>1. \A f \in Flows : Frame(f)
    BY <1>3 DEF Frame, sagaVars, runner, service
  <2>2. SagaTypes'
    BY <1>3 DEF SagaInv, SagaTypes, sagaVars, runner, service
  <2>3. QED
    BY <2>1, <2>2, FrameKeeps DEF SagaInv
<1>4. QED
  BY <1>0, <1>1, <1>2, <1>3 DEF SagaNext

LEMMA SagaInvAlways == SagaSpec => []SagaInv
BY SagaInvInit, SagaInvStep, PTL DEF SagaSpec

-----------------------------------------------------------------------------
(* Theorems *)

\* The runner and the service stay in their domains.
THEOREM SagaTypesOK == SagaSpec => []SagaTypeOK
<1>1. SagaInv => SagaTypeOK
  <2> SUFFICES ASSUME SagaInv
               PROVE  SagaTypeOK
    OBVIOUS
  <2>1. SagaTypes
    BY DEF SagaInv
  <2>2. ASSUME NEW f \in Flows
        PROVE  /\ completed[f] \in Seq(Steps) /\ left[f] \in 0 .. Len(completed[f])
               /\ compensated[f] \in Seq(Compensable) /\ undoLog[f] \in Seq(Compensable)
    <3>1. Path(f)
      BY DEF SagaInv, SagaOK
    <3>2. QED
      BY <2>1, <3>1, OneFlowTypes DEF Path
  <2>3. QED
    BY <2>1, <2>2 DEF SagaTypes, SagaTypeOK
<1>2. QED
  BY <1>1, SagaInvAlways, PTL

\* Compensations run in the reverse of the order of completion, each once and
\* none passed over, also after one that failed; a failed flow has run them all.
THEOREM UndoneOnlyInReverse == SagaSpec => []UndoneInReverse
<1>1. SagaInv => UndoneInReverse
  <2> SUFFICES ASSUME SagaInv, NEW f \in Flows
               PROVE  /\ \A n \in DOMAIN undoLog[f] :
                           \E i \in Owed(f) :
                             /\ undoLog[f][n] = completed[f][i]
                             /\ Cardinality({j \in Owed(f) : j > i}) = n - 1
                      /\ at[f] = "done" /\ ~ok[f] => Len(undoLog[f]) = Cardinality(Owed(f))
    BY DEF UndoneInReverse, Owed
  <2>1. SagaTypes /\ Path(f) /\ InTurn(f) /\ Behind(f)
    BY DEF SagaInv, SagaOK
  <2>2. ASSUME at[f] = "done", ~ok[f]
        PROVE  Len(undoLog[f]) = Cardinality(Owed(f))
    <3>1. Due(f) = {} /\ Len(undoLog[f]) = Cardinality(Seen(f))
      BY <2>1, <2>2 DEF Behind, Reversing
    <3>2. Seen(f) = Owed(f)
      BY <2>1, <3>1, OneFlowTypes, OwedSteps DEF Seen, Later, Owed, Due
    <3>3. QED
      BY <3>1, <3>2
  <2>3. QED
    BY <2>1, <2>2 DEF InTurn, Later
<1>2. QED
  BY <1>1, SagaInvAlways, PTL

(* The runner implements SagaContract. *)

\* What is in effect, and when that of a flow or its result changes.
LEMMA EffectFacts ==
  ASSUME SagaInv, NEW f \in Flows
  PROVE  /\ Effects[f] = InEffect(f)
         /\ \A s \in Steps : s \in InEffect(f) <=> applied[f][s] = 1 /\ undone[f][s] = 0
<1>1. SagaTypes
  BY DEF SagaInv
<1>2. QED
  BY <1>1, OneFlowTypes DEF InEffect, Effects

LEMMA EffectsChange ==
  ASSUME NEW f \in Flows, NEW E, InEffect(f)' = E,
         \A g \in Flows \ {f} : applied'[g] = applied[g] /\ undone'[g] = undone[g]
  PROVE  Effects' = [Effects EXCEPT ![f] = E]
BY DEF Effects, InEffect

LEMMA OutcomesKept ==
  ASSUME ok' = ok, \A g \in Flows : at'[g] = "done" <=> at[g] = "done"
  PROVE  Outcomes' = Outcomes
BY DEF Outcomes

LEMMA OutcomesChange ==
  ASSUME NEW f \in Flows, NEW o, Outcomes'[f] = o,
         \A g \in Flows \ {f} : at'[g] = at[g] /\ ok'[g] = ok[g]
  PROVE  Outcomes' = [Outcomes EXCEPT ![f] = o]
BY DEF Outcomes

\* A capability that runs takes effect, whether or not its answer arrives.
LEMMA StepPerforms ==
  ASSUME SagaInv, SagaInv', NEW f \in Flows, StepSucceeds(f) \/ StepFails(f, TRUE)
  PROVE  Contract!Perform(f, step[f])
<1>1. /\ SagaTypes /\ Ahead(f) /\ at[f] = "forward" /\ step[f] \in Steps
      /\ ok' = ok /\ undone' = undone
      /\ at' = at \/ at' = [at EXCEPT ![f] = "backward"]
      /\ applied' = [applied EXCEPT ![f][step[f]] = @ + 1]
      /\ InTrouble({}) \/ InTrouble({f})
  <2>1. SagaTypes /\ Ahead(f)
    BY DEF SagaInv, SagaOK
  <2>2. CASE StepSucceeds(f)
    <3>1. InTrouble({})
      BY <2>1, <2>2 DEF StepSucceeds, InTrouble, SagaTypes
    <3>2. QED
      BY <2>1, <2>2, <3>1 DEF StepSucceeds
  <2>3. CASE StepFails(f, TRUE)
    BY <2>1, <2>3 DEF StepFails
  <2>4. QED
    BY <2>2, <2>3
<1>2. /\ applied[f][step[f]] = 0 /\ undone[f][step[f]] = 0 /\ applied[f] \in [Steps -> 0 .. 1]
  BY <1>1, OneFlowTypes DEF Ahead
<1>3. applied'[f] = [applied[f] EXCEPT ![step[f]] = 1]
  BY <1>1, <1>2 DEF SagaTypes
<1>4. InEffect(f)' = InEffect(f) \cup {step[f]}
  <2>1. ASSUME NEW s \in Steps
        PROVE  (applied'[f][s] > undone'[f][s]) <=> (applied[f][s] > undone[f][s] \/ s = step[f])
    BY <1>1, <1>2, <1>3
  <2>2. QED
    BY <1>1, <2>1 DEF InEffect
<1>5. Effects' = [Effects EXCEPT ![f] = Effects[f] \cup {step[f]}]
  <2>1. \A g \in Flows \ {f} : applied'[g] = applied[g] /\ undone'[g] = undone[g]
    BY <1>1 DEF SagaTypes
  <2>2. Effects[f] = InEffect(f)
    BY EffectFacts
  <2>3. QED
    BY <1>4, <2>1, <2>2, EffectsChange
<1>6. step[f] \notin Effects[f]
  BY <1>1, <1>2, EffectFacts
<1>7. Outcomes' = Outcomes /\ Outcomes[f] = "open"
  <2>1. \A g \in Flows : at'[g] = "done" <=> at[g] = "done"
    BY <1>1 DEF SagaTypes
  <2>2. QED
    BY <1>1, <2>1, OutcomesKept DEF Outcomes
<1>8. \E F \in {{}, {f}} : Contract!InTrouble(F)
  BY <1>1 DEF InTrouble, Contract!InTrouble
<1>9. QED
  BY <1>5, <1>6, <1>7, <1>8 DEF Contract!Perform, Contract!Open

\* A compensation that runs takes back the effect of its step.
LEMMA CompensationUndoes ==
  ASSUME SagaInv, NEW f \in Flows, UndoSucceeds(f) \/ UndoThrows(f, TRUE)
  PROVE  Contract!Undo(f, ToUndo(f))
<1>1. /\ at[f] = "backward" /\ Due(f) # {} /\ at' = at /\ ok' = ok /\ applied' = applied
      /\ undone' = [undone EXCEPT ![f][ToUndo(f)] = @ + 1]
      /\ InTrouble({}) \/ InTrouble({f})
  <2>1. CASE UndoSucceeds(f)
    <3>1. InTrouble({})
      BY <2>1 DEF UndoSucceeds, InTrouble, SagaInv, SagaTypes
    <3>2. QED
      BY <2>1, <3>1 DEF UndoSucceeds, TakesUndo
  <2>2. CASE UndoThrows(f, TRUE)
    BY <2>2 DEF UndoThrows, TakesUndo
  <2>3. QED
    BY <2>1, <2>2
<1>2. ToUndo(f) \in Steps /\ undone[f][ToUndo(f)] = 0 /\ applied[f][ToUndo(f)] = 1
  BY <1>1, ToUndoFacts
<1>3. /\ \A g \in Flows \ {f} : undone'[g] = undone[g]
      /\ \A s \in Steps \ {ToUndo(f)} : undone'[f][s] = undone[f][s]
      /\ undone'[f][ToUndo(f)] = 1
  BY <1>1, UndoneOnce
<1>4. InEffect(f)' = InEffect(f) \ {ToUndo(f)}
  <2>1. ASSUME NEW s \in Steps
        PROVE  (applied'[f][s] > undone'[f][s]) <=> (applied[f][s] > undone[f][s] /\ s # ToUndo(f))
    BY <1>1, <1>2, <1>3
  <2>2. QED
    BY <2>1 DEF InEffect
<1>5. Effects' = [Effects EXCEPT ![f] = Effects[f] \ {ToUndo(f)}] /\ ToUndo(f) \in Effects[f]
  BY <1>1, <1>2, <1>3, <1>4, EffectFacts, EffectsChange
<1>6. Outcomes' = Outcomes /\ Outcomes[f] = "open"
  BY <1>1, OutcomesKept DEF Outcomes
<1>7. \E F \in {{}, {f}} : Contract!InTrouble(F)
  BY <1>1 DEF InTrouble, Contract!InTrouble
<1>8. QED
  BY <1>5, <1>6, <1>7 DEF Contract!Undo, Contract!Open

\* A call that was given up performs its step, or undoes it, when it takes effect.
LEMMA LatePerformsOrUndoes ==
  ASSUME SagaInv, NEW f \in Flows, NEW s \in Steps, TakesEffectLate(f, s)
  PROVE  Contract!Perform(f, s) \/ Contract!Undo(f, s)
<1>1. at' = at /\ ok' = ok /\ trouble' = trouble /\ SagaTypes
  BY DEF TakesEffectLate, runner, SagaInv
<1>2. Outcomes' = Outcomes /\ Contract!Open(f)
  <2>1. Outcomes[f] = "open" \/ (Outcomes[f] = "aborted" /\ trouble[f])
    BY LateOnce DEF Outcomes
  <2>2. QED
    BY <1>1, <2>1, OutcomesKept DEF Contract!Open
<1>3. \E F \in {{}, {f}} : Contract!InTrouble(F)
  <2>1. trouble' = [g \in Flows |-> trouble[g] \/ g \in {}]
    BY <1>1 DEF SagaTypes
  <2>2. Contract!InTrouble({})
    BY <2>1 DEF Contract!InTrouble
  <2>3. QED
    BY <2>2
<1>4. \A t \in Steps \ {s} : t \in InEffect(f)' <=> t \in InEffect(f)
  BY LateOnce DEF InEffect
<1>5. CASE s = step[f]
  <2>1. s \in InEffect(f)' /\ s \notin InEffect(f)
    BY <1>5, LateOnce DEF InEffect
  <2>2. InEffect(f)' = InEffect(f) \cup {s}
    BY <1>4, <2>1 DEF InEffect
  <2>3. Effects' = [Effects EXCEPT ![f] = Effects[f] \cup {s}] /\ s \notin Effects[f]
    BY <2>1, <2>2, LateOnce, EffectFacts, EffectsChange
  <2>4. QED
    BY <1>2, <1>3, <2>3 DEF Contract!Perform
<1>6. CASE s # step[f]
  <2>1. s \notin InEffect(f)' /\ s \in InEffect(f)
    BY <1>6, LateOnce DEF InEffect
  <2>2. InEffect(f)' = InEffect(f) \ {s}
    BY <1>4, <2>1 DEF InEffect
  <2>3. Effects' = [Effects EXCEPT ![f] = Effects[f] \ {s}] /\ s \in Effects[f]
    BY <2>1, <2>2, LateOnce, EffectFacts, EffectsChange
  <2>4. QED
    BY <1>2, <1>3, <2>3 DEF Contract!Undo
<1>7. QED
  BY <1>5, <1>6

\* A compensation that does not run, and a crash, only strike.
LEMMA TroubleStrikes ==
  ASSUME SagaInv, NEW F \in SUBSET Flows, InTrouble(F), \A f \in F : at[f] # "done",
         applied' = applied, undone' = undone, ok' = ok,
         \A g \in Flows : at'[g] = "done" <=> at[g] = "done"
  PROVE  Contract!Strike(F)
<1>1. Effects' = Effects /\ Outcomes' = Outcomes
  BY OutcomesKept DEF Effects, InEffect
<1>2. \A f \in F : Outcomes[f] = "open"
  BY DEF Outcomes
<1>3. QED
  BY <1>1, <1>2 DEF InTrouble, Contract!InTrouble, Contract!Strike

\* A flow that reports ok has performed all its steps.
LEMMA CompleteCommits ==
  ASSUME SagaInv, SagaInv', NEW f \in Flows, Complete(f)
  PROVE  Contract!Commit(f)
<1>1. /\ SagaTypes /\ Ahead(f) /\ at[f] = "forward" /\ step[f] \notin Steps
      /\ at' = [at EXCEPT ![f] = "done"] /\ ok' = [ok EXCEPT ![f] = TRUE]
      /\ applied' = applied /\ undone' = undone /\ trouble' = trouble
  BY DEF SagaInv, SagaOK, Complete, service
<1>2. Effects[f] = Steps /\ Effects' = Effects
  <2>1. \A s \in Steps : s < step[f]
    BY <1>1, OneFlowTypes DEF Steps
  <2>2. \A s \in Steps : s \in InEffect(f)
    BY <1>1, <2>1, EffectFacts DEF Ahead
  <2>3. InEffect(f) = Steps
    BY <2>2 DEF InEffect
  <2>4. QED
    BY <1>1, <2>3, EffectFacts DEF Effects, InEffect
<1>3. Outcomes[f] = "open" /\ Outcomes' = [Outcomes EXCEPT ![f] = "committed"]
  <2>1. /\ Outcomes'[f] = "committed" /\ Outcomes[f] = "open"
        /\ \A g \in Flows \ {f} : at'[g] = at[g] /\ ok'[g] = ok[g]
    BY <1>1 DEF Outcomes, SagaTypes
  <2>2. QED
    BY <2>1, OutcomesChange
<1>4. QED
  BY <1>1, <1>2, <1>3 DEF Contract!Commit

\* A flow that reports a failure has taken back what can be, or had trouble.
LEMMA GiveUpAborts ==
  ASSUME SagaInv, SagaInv', NEW f \in Flows, GiveUp(f)
  PROVE  Contract!Abort(f)
<1>1. /\ SagaTypes /\ Path(f) /\ Ahead(f) /\ Behind(f) /\ at[f] = "backward" /\ Due(f) = {}
      /\ at' = [at EXCEPT ![f] = "done"] /\ ok' = ok
      /\ applied' = applied /\ undone' = undone /\ trouble' = trouble
  BY DEF SagaInv, SagaOK, GiveUp, service
<1>2. ASSUME ~trouble[f], NEW s \in Compensable, s \in Effects[f]
      PROVE  FALSE
  <2>1. s \in Steps /\ applied[f][s] = 1 /\ undone[f][s] = 0
    BY <1>2, EffectFacts DEF Effects, InEffect
  <2>2. s < step[f] /\ s \notin Seen(f)
    <3>1. /\ s \in Seen(f) => undone[f][s] = 1 \/ trouble[f]
          /\ s = step[f] => applied[f][s] = 0 \/ trouble[f]
          /\ s > step[f] => applied[f][s] = 0
      BY <1>1, <2>1 DEF Behind, Reversing
    <3>2. s \notin Seen(f) /\ s # step[f] /\ ~(s > step[f])
      BY <1>2, <2>1, <3>1
    <3>3. s \in Nat /\ step[f] \in Nat
      BY <1>1, <2>1, OneFlowTypes DEF Steps
    <3>4. QED
      BY <3>2, <3>3
  <2>3. s \in Owed(f) /\ completed[f][s] \in Compensable
    <3>1. s \in 1 .. step[f] - 1
      BY <1>1, <2>1, <2>2, OneFlowTypes DEF Steps
    <3>2. s \in Owed(f)
      BY <1>1, <1>2, <3>1, OwedSteps
    <3>3. QED
      BY <3>2 DEF Owed
  <2>4. s \in Due(f)
    BY <1>1, <2>1, <2>2, <2>3, OneFlowTypes DEF Seen, Later, Due, Steps
  <2>5. QED
    BY <1>1, <2>4
<1>3. Effects[f] \cap Compensable = {} \/ trouble[f]
  BY <1>2
<1>4. Effects' = Effects
  BY <1>1 DEF Effects, InEffect
<1>5. Outcomes[f] = "open" /\ Outcomes' = [Outcomes EXCEPT ![f] = "aborted"]
  <2>1. /\ Outcomes'[f] = "aborted" /\ Outcomes[f] = "open"
        /\ \A g \in Flows \ {f} : at'[g] = at[g] /\ ok'[g] = ok[g]
    BY <1>1 DEF Outcomes, SagaTypes, Ahead
  <2>2. QED
    BY <2>1, OutcomesChange
<1>6. QED
  BY <1>1, <1>3, <1>4, <1>5 DEF Contract!Abort

LEMMA QuietSteps ==
  ASSUME SagaInv, trouble' = trouble, applied' = applied, undone' = undone, ok' = ok,
         \A g \in Flows : at'[g] = "done" <=> at[g] = "done"
  PROVE  UNCHANGED <<Effects, Outcomes, trouble>>
BY OutcomesKept DEF Effects, InEffect

LEMMA SagaStepRefines == SagaInv /\ SagaInv' /\ [SagaNext]_sagaVars => [Contract!Next]_(Contract!vars)
<1> SUFFICES ASSUME SagaInv, SagaInv', [SagaNext]_sagaVars
             PROVE  Contract!Next \/ UNCHANGED <<Effects, Outcomes, trouble>>
  BY DEF Contract!vars
<1>1. SagaTypes
  BY DEF SagaInv
<1>2. ASSUME NEW f \in Flows, Start(f) \/ FlowStep(f)
      PROVE  Contract!Next \/ UNCHANGED <<Effects, Outcomes, trouble>>
  <2>1. CASE Start(f)
    BY <1>1, <2>1, QuietSteps DEF Start, service, SagaTypes
  <2>2. CASE StepSucceeds(f) \/ StepFails(f, TRUE)
    <3>1. step[f] \in Steps
      BY <2>2 DEF StepSucceeds, StepFails
    <3>2. QED
      BY <2>2, <3>1, StepPerforms DEF Contract!Next
  <2>3. CASE StepFails(f, FALSE)
    <3>1. trouble' = trouble
      BY <1>1, <2>3 DEF StepFails, InTrouble, SagaTypes
    <3>2. \A g \in Flows : at'[g] = "done" <=> at[g] = "done"
      BY <1>1, <2>3 DEF StepFails, SagaTypes
    <3>3. QED
      BY <2>3, <3>1, <3>2, QuietSteps DEF StepFails
  <2>4. CASE Complete(f)
    <3>1. Contract!Commit(f)
      BY <2>4, CompleteCommits
    <3>2. QED
      BY <3>1 DEF Contract!Next
  <2>5. CASE UndoSucceeds(f) \/ UndoThrows(f, TRUE)
    <3>1. ToUndo(f) \in Steps
      BY <2>5, ToUndoFacts DEF UndoSucceeds, UndoThrows, TakesUndo
    <3>2. QED
      BY <2>5, <3>1, CompensationUndoes DEF Contract!Next
  <2>6. CASE UndoRefused(f) \/ UndoThrows(f, FALSE)
    <3>1. /\ InTrouble({f}) /\ at[f] = "backward" /\ at' = at /\ ok' = ok
          /\ applied' = applied /\ undone' = undone
      BY <2>6 DEF UndoRefused, UndoThrows, TakesUndo
    <3>2. Contract!Strike({f})
      BY <3>1, TroubleStrikes
    <3>3. QED
      BY <3>2 DEF Contract!Next
  <2>7. CASE GiveUp(f)
    <3>1. Contract!Abort(f)
      BY <2>7, GiveUpAborts
    <3>2. QED
      BY <3>1 DEF Contract!Next
  <2>8. CASE StepTimesOut(f)
    <3>1. /\ InTrouble({f}) /\ at[f] = "forward" /\ at' = [at EXCEPT ![f] = "backward"]
          /\ ok' = ok /\ applied' = applied /\ undone' = undone
      BY <2>8 DEF StepTimesOut
    <3>2. \A g \in Flows : at'[g] = "done" <=> at[g] = "done"
      BY <1>1, <3>1 DEF SagaTypes
    <3>3. Contract!Strike({f})
      BY <3>1, <3>2, TroubleStrikes
    <3>4. QED
      BY <3>3 DEF Contract!Next
  <2>9. CASE UndoTimesOut(f, TRUE) \/ UndoTimesOut(f, FALSE)
    <3>1. /\ InTrouble({f}) /\ at[f] = "backward" /\ at' = at /\ ok' = ok
          /\ applied' = applied /\ undone' = undone
      BY <2>9 DEF UndoTimesOut, TakesUndo
    <3>2. Contract!Strike({f})
      BY <3>1, TroubleStrikes
    <3>3. QED
      BY <3>2 DEF Contract!Next
  <2>10. QED
    BY <1>2, <2>1, <2>2, <2>3, <2>4, <2>5, <2>6, <2>7, <2>8, <2>9 DEF FlowStep
<1>3. CASE Crash
  <2> DEFINE Running == {f \in Flows : at[f] \in {"forward", "backward"}}
  <2>1. /\ InTrouble(Running) /\ applied' = applied /\ undone' = undone /\ ok' = ok
        /\ \A g \in Flows : at'[g] = "done" <=> at[g] = "done"
    BY <1>3 DEF Crash, service
  <2>2. Contract!Strike(Running)
    BY <2>1, TroubleStrikes
  <2>3. QED
    BY <2>2 DEF Contract!Next
<1>4. CASE UNCHANGED sagaVars
  BY <1>4, QuietSteps DEF sagaVars, runner, service
<1>5. ASSUME NEW f \in Flows, NEW s \in Steps, TakesEffectLate(f, s)
      PROVE  Contract!Next
  BY <1>5, LatePerformsOrUndoes DEF Contract!Next
<1>6. QED
  BY <1>2, <1>3, <1>4, <1>5 DEF SagaNext

\* executeFlow() implements SagaContract: ok means that every step is in effect,
\* and a failed flow leaves the effect of a compensable step behind only after a
\* lost call, a failed compensation or a crash.
THEOREM FlowImplementsContract == SagaSpec => ContractSpec
<1>1. SagaInit => Contract!Init
  <2> SUFFICES ASSUME SagaInit
               PROVE  Contract!Init
    OBVIOUS
  <2>1. \A f \in Flows : InEffect(f) = {} /\ at[f] = "idle"
    BY DEF SagaInit, InEffect, None
  <2>2. Effects = [f \in Flows |-> {}] /\ Outcomes = [f \in Flows |-> "open"]
    BY <2>1 DEF Effects, Outcomes
  <2>3. QED
    BY <2>2 DEF SagaInit, Contract!Init
<1>2. QED
  BY <1>1, SagaStepRefines, SagaInvAlways, PTL DEF SagaSpec, ContractSpec, Contract!Spec

(***************************************************************************)
(* SqliteService                                                           *)
(***************************************************************************)
\* What is told to a client is told once, and an attempt that is not the last
\* one is followed by another only after it has.
Told ==
  \A r \in Requests :
    /\ pc[r] = "new" \/ ~Sent(r) => attempt[r] = 1
    /\ pc[r] = "new" => ~Sent(r)
    /\ pc[r] = "again" => attempt[r] > 1
    /\ pc[r] \in {"waiting", "queued", "drained"} /\ attempt[r] = 1 =>
         response[r] \in {"none", "timeout"}

\* The items of a flush are of batch capabilities, which do not run again after
\* they were told ok, and those that a flush is through with were told something.
Flushed ==
  /\ \A r \in Requests :
       /\ pc[r] \in {"queued", "drained"} => Kind(r) = "batch"
       /\ Kind(r) = "batch" /\ pc[r] # "done" => response[r] \in {"none", "failed", "timeout"}
  /\ \A f \in Flushes :
       /\ \A r \in flush[f].items : Kind(r) = "batch"
       /\ \A r \in flush[f].done : Sent(r)
       /\ flush[f] # NoFlush => flush[f].items # {}

\* The effects of an attempt of a transactional request stay together, in the
\* transaction as in the file.
Whole(ws) == pending \cap ws \in {{}, ws} /\ durable \cap ws \in {{}, ws}

Together ==
  \A r \in Requests : Transactional(r) => \A n \in Nat : Whole(Writes(r, n))

\* Something took a transaction back in which r may have written: a restart, or
\* the failure, the timeout or a later attempt of another request.
Excuse(q) ==
  \/ Kind(q) \in {"transactional", "batch"} /\ response[q] \in {"failed", "timeout"}
  \/ Transactional(q) /\ attempt[q] > 1

Undone(r) == restarts > 0 \/ \E q \in Requests \ {r} : Excuse(q)

\* What a request has written is there from its effects on, and in the file once
\* a transactional request was told ok; or it was undone.
Kept ==
  \A r \in Requests :
    /\ response[r] = "ok" \/ (pc[r] = "waiting" /\ ~Sent(r)) =>
         Writes(r, 1) \subseteq Visible \/ Undone(r)
    /\ Transactional(r) /\ response[r] = "ok" => Writes(r, 1) \subseteq durable \/ Undone(r)

\* Somebody else's COMMIT may have taken in what r had written.
Takes(q) == (Transactional(q) /\ response[q] = "ok") \/ (Kind(q) = "batch" /\ Sent(q))
Taken(r) == \E q \in Requests \ {r} : Takes(q)

Earned ==
  \A r \in Requests : Transactional(r) =>
    \A n \in Nat : durable \cap Writes(r, n) # {} =>
      (n = 1 /\ response[r] = "ok") \/ Taken(r)

IInv == TypeOK /\ Told /\ Flushed /\ Together /\ Kept /\ Earned /\ StrayTransaction

\* What no step takes back: answers, attempts, restarts, and what is in the file.
Advance ==
  /\ route' = route /\ restarts \in Nat /\ restarts' \in Nat /\ restarts' >= restarts
  /\ \A r \in Requests : /\ attempt[r] \in Nat /\ attempt'[r] \in Nat /\ attempt'[r] >= attempt[r]
                         /\ Sent(r) => response'[r] = response[r]
  /\ durable \subseteq durable'

-----------------------------------------------------------------------------
(* The writes of a request *)

\* Writes of different requests and attempts are different.
LEMMA WritesDisjoint ==
  ASSUME NEW q, NEW r, NEW m, NEW n, q # r \/ m # n, NEW k, NEW l
  PROVE  Upto(q, m, k) \cap Upto(r, n, l) = {}
  BY DEF Upto

\* A request has effects, and some attempt is its last.
LEMMA RouteTypes ==
  ASSUME TypeOK, NEW r \in Requests
  PROVE  /\ route[r].effects \in Nat \ {0} /\ route[r].attempts \in Nat \ {0}
         /\ Kind(r) \in {"transactional", "batch", "update", "plain"}
         /\ attempt[r] \in Nat \ {0}
<1>1. route[r] \in RouteType
  BY SqliteAssumption DEF TypeOK
<1>2. QED
  BY <1>1 DEF RouteType, Kind, TypeOK

\* A prefix of the effects is part of them.
LEMMA PrefixWrites ==
  ASSUME TypeOK, NEW r \in Requests, NEW n, NEW k \in 0 .. route[r].effects
  PROVE  Upto(r, n, k) \subseteq Writes(r, n)
<1>1. route[r].effects \in Nat
  BY RouteTypes
<1>2. QED
  BY <1>1 DEF Writes, Upto

-----------------------------------------------------------------------------
(* Types *)

\* The visible writes are of attempts that were begun.
Begun(ws) == \A w \in ws : \E r \in Requests : \E n \in 1 .. attempt[r] : w \in Writes(r, n)

\* The writes of the attempt that runs are such.
LEMMA OwnBegun ==
  ASSUME TypeOK, NEW r \in Requests, NEW ws \in SUBSET Writes(r, attempt[r])
  PROVE  Begun(ws)
<1>1. attempt[r] \in 1 .. attempt[r]
  BY RouteTypes
<1>2. QED
  BY <1>1 DEF Begun

\* The types of the handlers' variables.
HandlerTypes ==
  /\ route \in [Requests -> Routes]
  /\ pc \in [Requests -> {"new", "again", "waiting", "queued", "drained", "done"}]
  /\ attempt \in [Requests -> Nat]
  /\ \A r \in Requests : attempt[r] \in 1 .. route[r].attempts
  /\ response \in [Requests -> {"none", "ok", "refused", "failed", "timeout"}]

\* And of the others, but for the writes.
Shapes ==
  /\ HandlerTypes
  /\ flush \in [Flushes -> [items : SUBSET Requests, done : SUBSET Requests]]
  /\ failures \in 0 .. MaxFailures /\ restarts \in 0 .. MaxRestarts

\* A step that keeps the rest and writes nothing, or what begun attempts write.
LEMMA TypesKept ==
  ASSUME TypeOK, Shapes', Advance, tx' \in {"none", "open"}, tx' = "none" => pending' = {},
         NEW ws, Begun(ws), Visible' \subseteq Visible \cup ws
  PROVE  TypeOK'
<1>1. ASSUME NEW w \in Visible'
      PROVE  \E r \in Requests : \E n \in 1 .. attempt'[r] : w \in Writes(r, n)'
  <2>1. PICK r \in Requests : \E n \in 1 .. attempt[r] : w \in Writes(r, n)
    BY DEF TypeOK, Begun
  <2>2. PICK n \in 1 .. attempt[r] : w \in Writes(r, n)
    BY <2>1
  <2>3. n \in 1 .. attempt'[r] /\ Writes(r, n)' = Writes(r, n)
    BY DEF Advance, Writes
  <2>4. QED
    BY <2>2, <2>3
<1>2. QED
  BY <1>1 DEF TypeOK, Shapes, HandlerTypes

-----------------------------------------------------------------------------
(* What the steps of a handler do *)

\* A step leaves a request alone; answers it and returns; ends its attempt; or
\* only moves on.
Rests(r) == pc'[r] = pc[r] /\ attempt'[r] = attempt[r] /\ response'[r] = response[r]

Returns(r, answer) ==
  ~Sent(r) /\ pc'[r] = "done" /\ attempt'[r] = attempt[r] /\ response'[r] = answer

Ends(r, answer) ==
  /\ pc[r] # "done"
  /\ response'[r] = IF Sent(r) THEN response[r] ELSE answer
  /\ \/ pc'[r] = "done" /\ attempt'[r] = attempt[r]
     \/ /\ attempt'[r] = attempt[r] + 1
        /\ pc'[r] = IF Kind(r) = "batch" THEN "queued" ELSE "again"

Moves(r, point) == pc'[r] = point /\ attempt'[r] = attempt[r] /\ response'[r] = response[r]

TimesOut(r) ==
  /\ pc[r] \in {"waiting", "queued", "drained"} /\ ~Sent(r)
  /\ pc'[r] = pc[r] /\ attempt'[r] = attempt[r] /\ response'[r] = "timeout"

Does(r) ==
  \/ Rests(r) \/ TimesOut(r) \/ Moves(r, "done")
  \/ Kind(r) # "batch" /\ (Ends(r, "ok") \/ Returns(r, "refused"))
  \/ Ends(r, "failed") \/ Returns(r, "ok")
  \/ pc[r] # "done" /\ Moves(r, "waiting")
  \/ pc[r] = "new" /\ Kind(r) = "batch" /\ Moves(r, "queued")
  \/ pc[r] = "queued" /\ Moves(r, "drained")

\* The attempts that end are those of S; the others rest.
LEMMA EndAttemptDoes ==
  ASSUME TypeOK, NEW S \in SUBSET Requests, NEW answer \in {"ok", "failed"},
         \A r \in S : pc[r] # "done", EndAttempt(S, answer)
  PROVE  /\ HandlerTypes'
         /\ \A r \in S : Ends(r, answer)
         /\ \A r \in Requests \ S : Rests(r)
<1>1. \A r \in Requests : attempt[r] \in Nat \ {0} /\ route[r].attempts \in Nat \ {0}
  BY RouteTypes
<1>2. HandlerTypes'
  BY <1>1 DEF TypeOK, EndAttempt, HandlerTypes
<1>3. QED
  BY <1>2 DEF TypeOK, EndAttempt, Ends, Rests

\* The same for one request.
LEMMA EndsOne ==
  ASSUME TypeOK, NEW r \in Requests, NEW answer \in {"ok", "failed"}, pc[r] # "done",
         EndAttempt({r}, answer)
  PROVE  /\ HandlerTypes' /\ Ends(r, answer) /\ \A q \in Requests \ {r} : Rests(q)
         /\ route' = route
<1>1. {r} \in SUBSET Requests /\ \A q \in {r} : pc[q] # "done"
  OBVIOUS
<1>2. HandlerTypes' /\ (\A q \in {r} : Ends(q, answer)) /\ \A q \in Requests \ {r} : Rests(q)
  BY <1>1, EndAttemptDoes
<1>3. QED
  BY <1>2 DEF EndAttempt

\* What was told and how far a request has come is never taken back.
LEMMA DoesTold ==
  ASSUME TypeOK, HandlerTypes', route' = route, Told, \A r \in Requests : Does(r)
  PROVE  Told'
<1> SUFFICES ASSUME NEW r \in Requests
             PROVE  /\ pc'[r] = "new" \/ ~Sent(r)' => attempt'[r] = 1
                    /\ pc'[r] = "new" => ~Sent(r)'
                    /\ pc'[r] = "again" => attempt'[r] > 1
                    /\ pc'[r] \in {"waiting", "queued", "drained"} /\ attempt'[r] = 1 =>
                         response'[r] \in {"none", "timeout"}
  BY DEF Told
<1>1. attempt[r] \in Nat \ {0}
  BY RouteTypes
<1>2. QED
  BY <1>1 DEF Told, Does, Rests, TimesOut, Moves, Ends, Returns, Sent, TypeOK

\* The same for what the answers of a batch capability are.
LEMMA DoesFlushed ==
  ASSUME TypeOK, route' = route, Told, Flushed, \A r \in Requests : Does(r),
         \A r \in Requests : pc[r] = "done" => pc'[r] = "done",
         \A f \in Flushes :
           \/ flush'[f] = NoFlush
           \/ flush'[f] = flush[f]
           \/ /\ \A r \in flush'[f].items : Kind(r) = "batch"
              /\ \A r \in flush'[f].done : r \in flush[f].done \/ Sent(r)'
              /\ flush'[f].items # {}
  PROVE  Flushed'
<1>1. ASSUME NEW r \in Requests
      PROVE  /\ Sent(r) => Sent(r)'
             /\ Kind(r)' = Kind(r)
             /\ pc'[r] \in {"queued", "drained"} => Kind(r) = "batch"
             /\ Kind(r) = "batch" /\ pc'[r] # "done" => response'[r] \in {"none", "failed", "timeout"}
  BY DEF Told, Flushed, Does, Rests, TimesOut, Moves, Ends, Returns, Sent, Kind, TypeOK
<1>2. ASSUME NEW f \in Flushes
      PROVE  /\ \A r \in flush'[f].items : Kind(r)' = "batch"
             /\ \A r \in flush'[f].done : Sent(r)'
             /\ flush'[f] # NoFlush => flush'[f].items # {}
  <2>1. flush[f].items \subseteq Requests /\ flush[f].done \subseteq Requests
    BY DEF TypeOK
  <2>2. \A r \in flush[f].done : Sent(r)'
    BY <1>1, <2>1 DEF Flushed
  <2>3. \A r : Kind(r)' = Kind(r)
    BY DEF Kind
  <2>4. CASE flush'[f] = NoFlush
    BY <2>4 DEF NoFlush
  <2>5. CASE flush'[f] # NoFlush
    BY <2>2, <2>3, <2>5 DEF Flushed
  <2>6. QED
    BY <2>4, <2>5
<1>3. NoFlush' = NoFlush
  BY DEF NoFlush
<1>4. QED
  BY <1>1, <1>2, <1>3 DEF Flushed

\* And what all of these have in common.
LEMMA DoesAdvance ==
  ASSUME TypeOK, HandlerTypes', route' = route, \A r \in Requests : Does(r),
         restarts' = restarts \/ restarts' = restarts + 1, durable \subseteq durable'
  PROVE  Advance
<1>1. ASSUME NEW r \in Requests
      PROVE  /\ attempt[r] \in Nat /\ attempt'[r] \in Nat /\ attempt'[r] >= attempt[r]
             /\ Sent(r) => response'[r] = response[r]
  <2>1. attempt[r] \in Nat /\ attempt'[r] \in Nat
    BY DEF TypeOK, HandlerTypes
  <2>2. QED
    BY <2>1 DEF Does, Rests, TimesOut, Moves, Ends, Returns
<1>2. restarts \in Nat
  BY SqliteAssumption DEF TypeOK
<1>3. QED
  BY <1>1, <1>2 DEF Advance

-----------------------------------------------------------------------------
(* What the steps do to the writes *)

\* Nobody's writes are touched unless it is r's own, in a step of r: they are
\* added, as a whole if it is transactional.
LEMMA WriteTogether ==
  ASSUME Together, NEW r \in Requests, NEW m, NEW ws \in SUBSET Writes(r, m),
         Transactional(r) => ws = Writes(r, m), route' = route,
         \/ pending' = pending \cup ws /\ durable' = durable
         \/ durable' = durable \cup ws /\ pending' = pending
  PROVE  Together'
<1> SUFFICES ASSUME NEW q \in Requests, Transactional(q), NEW n \in Nat
             PROVE  Whole(Writes(q, n))'
  BY DEF Together, Transactional, Kind
<1>1. Writes(q, n)' = Writes(q, n) /\ Whole(Writes(q, n))
  BY DEF Writes, Together
<1>2. CASE q = r /\ n = m
  BY <1>1, <1>2 DEF Whole
<1>3. CASE q # r \/ n # m
  <2>1. ws \cap Writes(q, n) = {}
    BY <1>3, WritesDisjoint DEF Writes
  <2>2. QED
    BY <1>1, <2>1 DEF Whole
<1>4. QED
  BY <1>2, <1>3

\* A transaction that ends takes all of a request's writes in it along.
LEMMA EndTogether ==
  ASSUME Together, route' = route, pending' \in {{}, pending},
         durable' = durable \/ durable' = Visible
  PROVE  Together'
<1> SUFFICES ASSUME NEW q \in Requests, Transactional(q), NEW n \in Nat
             PROVE  Whole(Writes(q, n))'
  BY DEF Together, Transactional, Kind
<1>1. Writes(q, n)' = Writes(q, n) /\ Whole(Writes(q, n))
  BY DEF Writes, Together
<1>2. QED
  BY <1>1 DEF Whole, Visible

\* What excuses a loss, and what may have committed, stays.
LEMMA ReasonsStay ==
  ASSUME Advance, NEW r \in Requests
  PROVE  /\ Undone(r) => Undone(r)'
         /\ Taken(r) => Taken(r)'
<1>1. \A q \in Requests : (Excuse(q) => Excuse(q)') /\ (Takes(q) => Takes(q)')
  BY DEF Advance, Excuse, Takes, Transactional, Kind, Sent
<1>2. QED
  BY <1>1 DEF Undone, Taken, Advance

\* A step that loses no write, and reports and commits none it has not made.
LEMMA KeptWithoutLoss ==
  ASSUME Kept, Advance, Visible \subseteq Visible',
         \A r \in Requests :
           /\ (response'[r] = "ok" /\ ~Sent(r))
                \/ (pc'[r] = "waiting" /\ pc[r] # "waiting" /\ ~Sent(r)') =>
                Writes(r, 1) \subseteq Visible' \/ Undone(r)
           /\ Transactional(r) /\ response'[r] = "ok" /\ ~Sent(r) =>
                Writes(r, 1) \subseteq durable' \/ Undone(r)
  PROVE  Kept'
<1> SUFFICES ASSUME NEW r \in Requests
             PROVE  /\ response'[r] = "ok" \/ (pc'[r] = "waiting" /\ ~Sent(r)') =>
                         Writes(r, 1)' \subseteq Visible' \/ Undone(r)'
                    /\ Transactional(r)' /\ response'[r] = "ok" =>
                         Writes(r, 1)' \subseteq durable' \/ Undone(r)'
  BY DEF Kept
<1>1. /\ Writes(r, 1)' = Writes(r, 1) /\ (Transactional(r)' <=> Transactional(r))
      /\ Undone(r) => Undone(r)'
      /\ durable \subseteq durable'
      /\ Sent(r) => response'[r] = response[r]
  BY ReasonsStay DEF Advance, Writes, Transactional, Kind
<1>2. Sent(r) \/ ~Sent(r)' => response'[r] = response[r]
  BY <1>1 DEF Sent
<1>3. QED
  BY <1>1, <1>2 DEF Kept, Sent

\* A ROLLBACK that is excused by q: what q itself had been told of is safe.
LEMMA KeptDespiteLoss ==
  ASSUME Kept, Advance, NEW q \in Requests, Excuse(q)',
         ~(pc'[q] = "waiting" /\ ~Sent(q)'),
         response'[q] = "ok" => Transactional(q) /\ Sent(q)
  PROVE  Kept'
<1>1. \A r \in Requests \ {q} : Undone(r)'
  BY DEF Undone
<1>2. Writes(q, 1)' = Writes(q, 1) /\ (Undone(q) => Undone(q)')
  BY ReasonsStay DEF Advance, Writes
<1>3. response'[q] = "ok" => Writes(q, 1) \subseteq durable \/ Undone(q)
  BY DEF Kept, Advance
<1>4. durable' \subseteq Visible' /\ durable \subseteq durable'
  BY DEF Visible, Advance
<1>5. QED
  BY <1>1, <1>2, <1>3, <1>4 DEF Kept

\* A restart excuses every loss.
LEMMA KeptAfterRestart ==
  ASSUME restarts' > 0
  PROVE  Kept'
  BY DEF Kept, Undone

\* What comes into the file is of a request that is told ok, of one that is not
\* transactional, or a matter of the COMMIT of a q that takes others' writes in.
LEMMA EarnedKept ==
  ASSUME Earned, Advance,
         \A r \in Requests : Transactional(r) =>
           \A n \in Nat : (durable' \ durable) \cap Writes(r, n) # {} =>
             (n = 1 /\ response'[r] = "ok") \/ Taken(r)'
  PROVE  Earned'
<1> SUFFICES ASSUME NEW r \in Requests, Transactional(r), NEW n \in Nat,
                    durable' \cap Writes(r, n) # {}
             PROVE  (n = 1 /\ response'[r] = "ok") \/ Taken(r)'
  BY DEF Earned, Advance, Transactional, Kind, Writes
<1>1. CASE durable \cap Writes(r, n) # {}
  <2>1. (n = 1 /\ response[r] = "ok") \/ Taken(r)
    BY <1>1 DEF Earned
  <2>2. QED
    BY <2>1, ReasonsStay DEF Advance, Sent
<1>2. CASE durable \cap Writes(r, n) = {}
  BY <1>2
<1>3. QED
  BY <1>1, <1>2

\* Nothing comes into the file but writes of q's attempt m.
LEMMA EarnedOwn ==
  ASSUME Earned, Advance, NEW q \in Requests, NEW m, durable' \subseteq durable \cup Writes(q, m),
         Transactional(q) /\ durable' # durable => m = 1 /\ response'[q] = "ok"
  PROVE  Earned'
<1>1. ASSUME NEW r \in Requests, Transactional(r), NEW n \in Nat,
             (durable' \ durable) \cap Writes(r, n) # {}
      PROVE  n = 1 /\ response'[r] = "ok"
  <2>1. r = q /\ n = m
    BY <1>1, WritesDisjoint DEF Writes
  <2>2. QED
    BY <1>1, <2>1
<1>2. QED
  BY <1>1, EarnedKept

-----------------------------------------------------------------------------
(* The invariant *)

\* At first nothing has run and nothing is written.
LEMMA InitIInv == Init => IInv
<1> SUFFICES ASSUME Init
             PROVE  IInv
  OBVIOUS
<1>1. \A r \in Requests : route[r] \in RouteType /\ route[r].attempts \in Nat \ {0}
  <2>1. \A r \in Requests : route[r] \in RouteType
    BY SqliteAssumption DEF Init
  <2>2. QED
    BY <2>1 DEF RouteType
<1>2. TypeOK
  BY <1>1, SqliteAssumption DEF Init, TypeOK, Visible, NoFlush
<1>3. QED
  BY <1>2 DEF Init, IInv, Told, Flushed, Together, Whole, Kept, Earned, StrayTransaction, Visible,
     Sent, NoFlush

\* What any step keeps in which each request does one of the above and writes of
\* begun attempts are all that is added.
LEMMA StepCommon ==
  ASSUME IInv, HandlerTypes', route' = route, \A r \in Requests : Does(r),
         \A r \in Requests : pc[r] = "done" => pc'[r] = "done",
         flush' \in [Flushes -> [items : SUBSET Requests, done : SUBSET Requests]],
         \A f \in Flushes :
           \/ flush'[f] = NoFlush
           \/ flush'[f] = flush[f]
           \/ /\ \A r \in flush'[f].items : Kind(r) = "batch"
              /\ \A r \in flush'[f].done : r \in flush[f].done \/ Sent(r)'
              /\ flush'[f].items # {},
         failures' = failures \/ (failures' = failures + 1 /\ failures < MaxFailures),
         restarts' = restarts \/ (restarts' = restarts + 1 /\ restarts < MaxRestarts),
         tx' \in {"none", "open"}, tx' = "none" => pending' = {}, durable \subseteq durable',
         NEW ws, Begun(ws), Visible' \subseteq Visible \cup ws
  PROVE  TypeOK' /\ Told' /\ Flushed' /\ Advance
<1>1. Advance
  BY DoesAdvance DEF IInv
<1>2. failures' \in 0 .. MaxFailures /\ restarts' \in 0 .. MaxRestarts
  BY SqliteAssumption DEF IInv, TypeOK
<1>3. Shapes'
  BY <1>2 DEF Shapes
<1>4. TypeOK'
  BY <1>1, <1>3, TypesKept DEF IInv
<1>5. Told'
  BY DoesTold DEF IInv
<1>6. Flushed'
  BY DoesFlushed DEF IInv
<1>7. QED
  BY <1>1, <1>4, <1>5, <1>6

\* The same for a handler's step, which leaves the flushes alone.
LEMMA HandlerCommon ==
  ASSUME IInv, HandlerTypes', route' = route, flush' = flush,
         NEW r \in Requests, pc[r] # "done", Does(r), \A q \in Requests \ {r} : Rests(q),
         failures' = failures \/ (failures' = failures + 1 /\ failures < MaxFailures),
         restarts' = restarts,
         tx' \in {"none", "open"}, tx' = "none" => pending' = {}, durable \subseteq durable',
         NEW ws \in SUBSET Writes(r, attempt[r]), Visible' \subseteq Visible \cup ws
  PROVE  TypeOK' /\ Told' /\ Flushed' /\ Advance
<1>1. \A q \in Requests : Does(q) /\ (pc[q] = "done" => pc'[q] = "done")
  BY DEF Does, Rests
<1>2. flush' \in [Flushes -> [items : SUBSET Requests, done : SUBSET Requests]]
  BY DEF IInv, TypeOK
<1>3. Begun(ws)
  BY OwnBegun DEF IInv
<1>4. QED
  BY <1>1, <1>2, <1>3, StepCommon

\* Writes are visible only of attempts that were begun.
LEMMA OnlyBegun ==
  ASSUME TypeOK, NEW r \in Requests, NEW n, Visible \cap Writes(r, n) # {}
  PROVE  n \in 1 .. attempt[r]
<1>1. PICK w : w \in Visible /\ w \in Writes(r, n)
  OBVIOUS
<1>2. PICK q \in Requests : \E m \in 1 .. attempt[q] : w \in Writes(q, m)
  BY <1>1 DEF TypeOK
<1>3. PICK m \in 1 .. attempt[q] : w \in Writes(q, m)
  BY <1>2
<1>4. q = r /\ m = n
  BY <1>1, <1>3, WritesDisjoint DEF Writes
<1>5. QED
  BY <1>4

\* A step of a handler that leaves the connection alone and reports no success.
LEMMA QuietIInv ==
  ASSUME IInv, HandlerTypes', route' = route, NEW r \in Requests, pc[r] # "done", Does(r),
         pc'[r] = pc[r] \/ (pc[r] # "waiting" /\ pc'[r] # "waiting"),
         response'[r] = response[r] \/ response'[r] \notin {"none", "ok"},
         \A q \in Requests \ {r} : Rests(q), UNCHANGED <<flush, db, bounds>>
  PROVE  IInv'
<1>1. /\ {} \in SUBSET Writes(r, attempt[r]) /\ Visible' = Visible
      /\ tx' \in {"none", "open"} /\ (tx' = "none" => pending' = {})
  BY DEF IInv, TypeOK, db, Visible
<1>2. TypeOK' /\ Told' /\ Flushed' /\ Advance
  BY <1>1, HandlerCommon DEF db, bounds
<1>3. Together'
  BY EndTogether DEF IInv, db
<1>4. Kept'
  <2>1. \A q \in Requests : /\ response'[q] = "ok" => Sent(q)
                            /\ pc'[q] = "waiting" => pc[q] = "waiting"
    BY DEF Rests, Sent
  <2>2. QED
    BY <1>1, <1>2, <2>1, KeptWithoutLoss DEF IInv
<1>5. Earned'
  BY <1>2, EarnedOwn DEF IInv, db
<1>6. StrayTransaction'
  <2>1. \A q \in Requests : /\ response[q] = "refused" => response'[q] = "refused"
                            /\ pc[q] = "waiting" => pc'[q] = "waiting"
    BY <1>2 DEF Advance, Sent, Rests
  <2>2. QED
    BY <2>1 DEF IInv, StrayTransaction, Transactional, Kind, db
<1>7. QED
  BY <1>2, <1>3, <1>4, <1>5, <1>6 DEF IInv

\* BEGIN in somebody's transaction: that one is rolled back.
LEMMA BeginFailsIInv ==
  ASSUME IInv, NEW r \in Requests, BeginFails(r)
  PROVE  IInv'
<1>1. /\ HandlerTypes' /\ Ends(r, "failed") /\ \A q \in Requests \ {r} : Rests(q)
      /\ route' = route /\ pc[r] # "done"
  <2>1. pc[r] # "done"
    BY DEF BeginFails, Enters
  <2>2. QED
    BY <2>1, EndsOne DEF IInv, BeginFails
<1>2. Does(r)
  BY <1>1 DEF Does
<1>3. TypeOK' /\ Told' /\ Flushed' /\ Advance
  <2>1. {} \in SUBSET Writes(r, attempt[r]) /\ Visible' \subseteq Visible \cup {}
    BY DEF BeginFails, Rollback, Visible
  <2>2. QED
    BY <1>1, <1>2, <2>1, HandlerCommon DEF BeginFails, Rollback, bounds
<1>4. Together'
  BY <1>1, EndTogether DEF IInv, BeginFails, Rollback
<1>5. Kept'
  <2>1. Sent(r) => attempt[r] \in Nat /\ attempt[r] > 1
    BY RouteTypes DEF IInv, Told, BeginFails, Enters
  <2>2. Excuse(r)'
    BY <1>1, <1>3, <2>1 DEF BeginFails, Excuse, Advance, Ends, Transactional, Kind
  <2>3. ~(pc'[r] = "waiting" /\ ~Sent(r)') /\ (response'[r] = "ok" => Sent(r))
    BY <1>1 DEF Ends
  <2>4. QED
    BY <1>3, <2>2, <2>3, KeptDespiteLoss DEF IInv, BeginFails
<1>6. Earned'
  BY <1>3, EarnedOwn DEF IInv, BeginFails, Rollback
<1>7. QED
  BY <1>3, <1>4, <1>5, <1>6 DEF IInv, BeginFails, Rollback, StrayTransaction

\* A refusal writes nothing and leaves its transaction open.
LEMMA RefuseIInv ==
  ASSUME IInv, NEW r \in Requests, Refuse(r)
  PROVE  IInv'
<1>1. /\ HandlerTypes' /\ Returns(r, "refused") /\ \A q \in Requests \ {r} : Rests(q)
      /\ route' = route /\ pc[r] # "done" /\ Kind(r) # "batch"
  BY DEF IInv, TypeOK, Refuse, Starts, Enters, Return, HandlerTypes, Returns, Rests
<1>2. Does(r)
  BY <1>1 DEF Does
<1>3. TypeOK' /\ Told' /\ Flushed' /\ Advance
  <2>1. /\ {} \in SUBSET Writes(r, attempt[r]) /\ Visible' \subseteq Visible \cup {}
        /\ tx' \in {"none", "open"} /\ (tx' = "none" => pending' = {})
    BY DEF IInv, TypeOK, Refuse, Visible
  <2>2. QED
    BY <1>1, <1>2, <2>1, HandlerCommon DEF Refuse, bounds
<1>4. Together'
  BY <1>1, EndTogether DEF IInv, Refuse
<1>5. Kept'
  BY <1>1, <1>3, KeptWithoutLoss DEF IInv, Refuse, Visible, Returns, Rests, Sent
<1>6. Earned'
  BY <1>3, EarnedOwn DEF IInv, Refuse
<1>7. StrayTransaction'
  <2>1. Transactional(r) \/ tx' = tx
    BY DEF Refuse
  <2>2. \A q \in Requests : response[q] = "refused" => response'[q] = "refused"
    BY <1>3 DEF Advance, Sent
  <2>3. QED
    BY <1>1, <2>1, <2>2 DEF IInv, Refuse, StrayTransaction, Transactional, Kind, Returns, Rests, Starts, Enters
<1>8. QED
  BY <1>3, <1>4, <1>5, <1>6, <1>7 DEF IInv

\* An error: a transactional request, which had found no transaction, leaves
\* nothing; another one what it wrote before.
LEMMA ThrowsIInv ==
  ASSUME IInv, NEW r \in Requests, NEW k \in 0 .. route[r].effects, Throws(r, k), Starts(r),
         failures' = failures \/ (failures' = failures + 1 /\ failures < MaxFailures),
         restarts' = restarts
  PROVE  IInv'
<1> DEFINE ws == IF Transactional(r) THEN {} ELSE Upto(r, attempt[r], k)
<1>1. /\ HandlerTypes' /\ Ends(r, "failed") /\ \A q \in Requests \ {r} : Rests(q)
      /\ route' = route /\ pc[r] # "done" /\ Kind(r) # "batch"
  <2>1. pc[r] # "done" /\ Kind(r) # "batch"
    BY DEF Starts, Enters
  <2>2. QED
    BY <2>1, EndsOne DEF IInv, Throws
<1>2. ws \in SUBSET Writes(r, attempt[r])
  BY PrefixWrites DEF IInv
<1>3. /\ Visible' = Visible \cup ws /\ durable \subseteq durable' /\ durable' \subseteq durable \cup ws
      /\ tx' \in {"none", "open"} /\ (tx' = "none" => pending' = {}) /\ (tx' = "open" => tx = "open")
  BY DEF IInv, TypeOK, Throws, Starts, Rollback, Write, Visible
<1>4. TypeOK' /\ Told' /\ Flushed' /\ Advance
  <2>1. Does(r) /\ flush' = flush
    BY <1>1 DEF Does, Throws
  <2>2. QED
    BY <1>1, <1>2, <1>3, <2>1, HandlerCommon
<1>5. Together'
  <2>1. CASE Transactional(r)
    BY <1>1, <2>1, EndTogether DEF IInv, Throws, Rollback
  <2>2. CASE ~Transactional(r)
    BY <1>1, <1>2, <2>2, WriteTogether DEF IInv, Throws, Write
  <2>3. QED
    BY <2>1, <2>2
<1>6. Kept'
  <2>1. \A q \in Requests : /\ ~Sent(q) => response'[q] # "ok"
                            /\ pc'[q] = "waiting" => pc[q] = "waiting"
    BY <1>1 DEF Ends, Rests, Sent
  <2>2. QED
    BY <1>3, <1>4, <2>1, KeptWithoutLoss DEF IInv
<1>7. Earned'
  BY <1>2, <1>3, <1>4, EarnedOwn DEF IInv
<1>8. StrayTransaction'
  <2>1. Transactional(r) => tx' = "none"
    BY DEF Throws, Rollback
  <2>2. flush' = flush
    BY DEF Throws
  <2>3. \A q \in Requests : response[q] = "refused" => response'[q] = "refused"
    BY <1>4 DEF Advance, Sent
  <2>4. QED
    BY <1>1, <1>3, <2>1, <2>2, <2>3 DEF IInv, StrayTransaction, Transactional, Kind, Rests
<1>9. QED
  BY <1>4, <1>5, <1>6, <1>7, <1>8 DEF IInv

\* A later attempt that would refuse throws instead.
LEMMA RefuseAgainIInv ==
  ASSUME IInv, NEW r \in Requests, RefuseAgain(r)
  PROVE  IInv'
<1>1. 0 \in 0 .. route[r].effects
  BY RouteTypes DEF IInv
<1>2. QED
  BY <1>1, ThrowsIInv DEF RefuseAgain, bounds

\* The k-th effect fails.
LEMMA EffectFailsIInv ==
  ASSUME IInv, NEW r \in Requests, NEW k \in 1 .. route[r].effects, EffectFails(r, k)
  PROVE  IInv'
<1>1. k - 1 \in 0 .. route[r].effects
  BY RouteTypes DEF IInv
<1>2. QED
  BY <1>1, ThrowsIInv DEF EffectFails

\* All effects and the event; with no subscriber to wait for, COMMIT as well.
LEMMA BodyIInv ==
  ASSUME IInv, NEW r \in Requests, Body(r)
  PROVE  IInv'
<1> DEFINE W == Writes(r, attempt[r])
<1>1. /\ pc[r] \in {"new", "again"} /\ Kind(r) # "batch" /\ Starts(r) /\ restarts' = restarts
      /\ failures' = failures /\ (Transactional(r) => tx = "none" /\ pending = {})
  BY DEF IInv, TypeOK, Body, Starts, Enters, bounds
<1>2. CASE ~route[r].waits /\ Sent(r)
  <2>1. Throws(r, route[r].effects) /\ route[r].effects \in 0 .. route[r].effects
    BY <1>2, RouteTypes DEF IInv, Body
  <2>2. QED
    BY <1>1, <2>1, ThrowsIInv
<1>3. CASE route[r].waits \/ ~Sent(r)
  <2>1. /\ HandlerTypes' /\ (\A q \in Requests \ {r} : Rests(q))
        /\ route' = route /\ flush' = flush
        /\ \/ Moves(r, "waiting") /\ route[r].waits
           \/ Ends(r, "ok") /\ ~route[r].waits /\ ~Sent(r)
    <3>1. CASE route[r].waits
      BY <1>1, <3>1 DEF IInv, TypeOK, HandlerTypes, Body, Wait, Moves, Rests
    <3>2. CASE ~route[r].waits
      BY <1>1, <1>3, <3>2, EndsOne DEF IInv, Body
    <3>3. QED
      BY <3>1, <3>2
  <2>2. /\ \/ pending' = pending \cup W /\ durable' = durable
           \/ durable' = durable \cup W /\ pending' = pending
        /\ tx' \in {"none", "open"} /\ (tx' = "none" => pending' = {})
        /\ tx' = tx \/ (Transactional(r) /\ route[r].waits)
        /\ Transactional(r) => durable' = IF route[r].waits THEN durable ELSE durable \cup W
    BY <1>1, <1>3 DEF IInv, TypeOK, Body, Write
  <2>3. Visible' = Visible \cup W /\ durable \subseteq durable'
    BY <2>2 DEF Visible
  <2>4. TypeOK' /\ Told' /\ Flushed' /\ Advance
    <3>1. Does(r) /\ pc[r] # "done" /\ W \in SUBSET Writes(r, attempt[r])
      BY <1>1, <2>1 DEF Does
    <3>2. QED
      BY <1>1, <2>1, <2>2, <2>3, <3>1, HandlerCommon
  <2>5. Together'
    BY <2>1, <2>2, WriteTogether DEF IInv
  <2>6. Kept'
    <3>1. ~Sent(r) => W = Writes(r, 1)
      BY DEF IInv, Told
    <3>2. \A q \in Requests \ {r} : /\ response'[q] = "ok" => Sent(q)
                                    /\ pc'[q] = "waiting" => pc[q] = "waiting"
      BY <2>1 DEF Rests, Sent
    <3>3. /\ response'[r] = "ok" /\ ~Sent(r) => W = Writes(r, 1) /\ ~route[r].waits
          /\ pc'[r] = "waiting" /\ ~Sent(r)' => W = Writes(r, 1)
      BY <2>1, <3>1 DEF Moves, Ends, Sent
    <3>4. QED
      BY <2>2, <2>3, <2>4, <3>2, <3>3, KeptWithoutLoss DEF IInv
  <2>7. Earned'
    <3>1. Transactional(r) /\ durable' # durable => attempt[r] = 1 /\ response'[r] = "ok"
      BY <2>1, <2>2 DEF IInv, Told, Ends
    <3>2. QED
      BY <2>2, <2>4, <3>1, EarnedOwn DEF IInv
  <2>8. StrayTransaction'
    <3>1. \A q \in Requests : response[q] = "refused" => response'[q] = "refused"
      BY <2>4 DEF Advance, Sent
    <3>2. QED
      BY <1>1, <2>1, <2>2, <3>1 DEF IInv, StrayTransaction, Transactional, Kind, Rests, Moves
  <2>9. QED
    BY <2>4, <2>5, <2>6, <2>7, <2>8 DEF IInv
<1>4. QED
  BY <1>2, <1>3

\* The response and COMMIT, of the transaction that is open now; or, when the
\* response throws, ROLLBACK of it.
LEMMA FinishIInv ==
  ASSUME IInv, NEW r \in Requests, Finish(r)
  PROVE  IInv'
<1>1. /\ HandlerTypes' /\ Ends(r, "ok") /\ \A q \in Requests \ {r} : Rests(q)
      /\ route' = route /\ pc[r] = "waiting" /\ Kind(r) # "batch"
  BY EndsOne DEF IInv, Finish
<1>2. /\ tx' \in {"none", "open"} /\ (tx' = "none" => pending' = {})
      /\ tx' = "none" \/ (~Transactional(r) /\ tx' = tx)
      /\ Visible' \subseteq Visible /\ durable \subseteq durable' /\ pending' \in {{}, pending}
      /\ durable' = durable \/ (durable' = Visible /\ Transactional(r) /\ ~Sent(r))
  BY DEF IInv, TypeOK, Finish, Commit, Rollback, Visible, db
<1>3. TypeOK' /\ Told' /\ Flushed' /\ Advance
  <2>1. Does(r) /\ {} \in SUBSET Writes(r, attempt[r]) /\ Visible' \subseteq Visible \cup {}
    BY <1>1, <1>2 DEF Does
  <2>2. QED
    BY <1>1, <1>2, <2>1, HandlerCommon DEF Finish, bounds
<1>4. Together'
  BY <1>1, <1>2, EndTogether DEF IInv
<1>5. Kept'
  <2>1. CASE Transactional(r) /\ Sent(r)
    <3>1. response[r] = "timeout" \/ (attempt[r] \in Nat /\ attempt[r] > 1)
      BY <1>1, <2>1, RouteTypes DEF IInv, Told, Sent
    <3>2. Excuse(r)'
      BY <1>1, <1>3, <2>1, <3>1 DEF Advance, Excuse, Ends, Transactional, Kind
    <3>3. ~(pc'[r] = "waiting" /\ ~Sent(r)')
      BY <1>1 DEF Ends
    <3>4. QED
      BY <1>3, <2>1, <3>2, <3>3, KeptDespiteLoss DEF IInv
  <2>2. CASE ~(Transactional(r) /\ Sent(r))
    <3>1. Visible \subseteq Visible' /\ (Transactional(r) => durable' = Visible)
      BY <2>2 DEF Finish, Commit, Visible, db
    <3>2. ~Sent(r) => Writes(r, 1) \subseteq Visible \/ Undone(r)
      BY <1>1 DEF IInv, Kept
    <3>3. \A q \in Requests : /\ q # r /\ response'[q] = "ok" => Sent(q)
                              /\ pc'[q] = "waiting" => pc[q] = "waiting"
      BY <1>1 DEF Ends, Rests, Sent
    <3>4. QED
      BY <1>3, <3>1, <3>2, <3>3, KeptWithoutLoss DEF IInv
  <2>3. QED
    BY <2>1, <2>2
<1>6. Earned'
  <2>1. CASE durable' = durable
    BY <1>3, <2>1, EarnedOwn DEF IInv
  <2>2. CASE durable' = Visible /\ Transactional(r) /\ ~Sent(r)
    <3>1. Takes(r)' /\ response'[r] = "ok" /\ attempt[r] = 1
      BY <1>1, <2>2 DEF IInv, Told, Takes, Ends, Transactional, Kind
    <3>2. ASSUME NEW n \in Nat, (durable' \ durable) \cap Writes(r, n) # {}
          PROVE  n = 1
      BY <2>2, <3>1, <3>2, OnlyBegun DEF IInv
    <3>3. \A q \in Requests \ {r} : Taken(q)'
      BY <3>1 DEF Taken
    <3>4. QED
      BY <1>3, <3>1, <3>2, <3>3, EarnedKept DEF IInv
  <2>3. QED
    BY <1>2, <2>1, <2>2
<1>7. StrayTransaction'
  <2>1. \A q \in Requests : response[q] = "refused" => response'[q] = "refused"
    BY <1>3 DEF Advance, Sent
  <2>2. QED
    BY <1>1, <1>2, <2>1 DEF IInv, Finish, StrayTransaction, Transactional, Kind, Rests
<1>8. QED
  BY <1>3, <1>4, <1>5, <1>6, <1>7 DEF IInv

\* The timeout answers for a handler that still waits, and changes nothing else.
LEMMA TimeOutIInv ==
  ASSUME IInv, NEW r \in Requests, TimeOut(r)
  PROVE  IInv'
<1>1. /\ HandlerTypes' /\ TimesOut(r) /\ \A q \in Requests \ {r} : Rests(q)
      /\ route' = route
  BY DEF IInv, TypeOK, TimeOut, HandlerTypes, TimesOut, Rests
<1>2. QED
  BY <1>1, QuietIInv DEF TimeOut, TimesOut, Does

\* An item is put into its queue.
LEMMA EnqueueIInv ==
  ASSUME IInv, NEW r \in Requests, Enqueue(r)
  PROVE  IInv'
<1>1. /\ HandlerTypes' /\ Moves(r, "queued") /\ \A q \in Requests \ {r} : Rests(q)
      /\ route' = route
  BY DEF IInv, TypeOK, Enqueue, HandlerTypes, Moves, Rests
<1>2. QED
  BY <1>1, QuietIInv DEF Enqueue, Moves, Does

\* What a flush has drained is moved on, and BEGIN finds no transaction.
LEMMA DrainIInv ==
  ASSUME IInv, NEW f \in Flushes, NEW c, Drain(f, c)
  PROVE  IInv'
<1>1. /\ HandlerTypes' /\ route' = route
      /\ \A q \in Requests : \/ pc[q] = "queued" /\ Kind(q) = "batch" /\ Moves(q, "drained")
                             \/ q \notin Queue(c) /\ Rests(q)
  BY DEF IInv, TypeOK, Flushed, Drain, Queue, HandlerTypes, Moves, Rests
<1>2. \A q \in Requests : Does(q) /\ (pc[q] = "done" => pc'[q] = "done")
  BY <1>1 DEF Does, Moves, Rests
<1>3. /\ flush' \in [Flushes -> [items : SUBSET Requests, done : SUBSET Requests]]
      /\ flush'[f].items = Queue(c) /\ flush'[f].done = {} /\ Queue(c) # {}
      /\ \A g \in Flushes \ {f} : flush'[g] = flush[g]
  BY DEF IInv, TypeOK, Drain, Queue
<1>4. TypeOK' /\ Told' /\ Flushed' /\ Advance
  <2>1. \A q \in Queue(c) : Kind(q) = "batch"
    BY DEF IInv, Flushed, Queue
  <2>2. Begun({}) /\ Visible' \subseteq Visible \cup {}
    BY DEF Begun, Drain, Visible
  <2>3. \A g \in Flushes :
          \/ flush'[g] = NoFlush
          \/ flush'[g] = flush[g]
          \/ /\ \A q \in flush'[g].items : Kind(q) = "batch"
             /\ \A q \in flush'[g].done : q \in flush[g].done \/ Sent(q)'
             /\ flush'[g].items # {}
    BY <1>3, <2>1
  <2>4. QED
    BY <1>1, <1>2, <1>3, <2>2, <2>3, StepCommon DEF Drain, bounds
<1>5. Together'
  BY <1>1, EndTogether DEF IInv, Drain
<1>6. Kept'
  <2>1. \A q \in Requests : /\ response'[q] = "ok" => Sent(q)
                            /\ pc'[q] = "waiting" => pc[q] = "waiting"
    BY <1>1 DEF Rests, Moves, Sent
  <2>2. Visible' = Visible
    BY DEF Drain, Visible
  <2>3. QED
    BY <1>4, <2>1, <2>2, KeptWithoutLoss DEF IInv
<1>7. Earned'
  <2>1. durable' \ durable = {}
    BY DEF Drain
  <2>2. QED
    BY <1>4, <2>1, EarnedKept DEF IInv
<1>8. StrayTransaction'
  BY <1>3 DEF StrayTransaction, NoFlush
<1>9. QED
  BY <1>4, <1>5, <1>6, <1>7, <1>8 DEF IInv

\* BEGIN of a flush in somebody's transaction, which is rolled back.
LEMMA DrainFailsIInv ==
  ASSUME IInv, NEW f \in Flushes, NEW c, DrainFails(f, c)
  PROVE  IInv'
<1>1. /\ HandlerTypes' /\ route' = route
      /\ \A q \in Queue(c) : Ends(q, "failed") /\ Kind(q) = "batch" /\ q \in Requests
      /\ \A q \in Requests \ Queue(c) : Rests(q)
  <2>1. Queue(c) \in SUBSET Requests /\ \A q \in Queue(c) : pc[q] # "done" /\ Kind(q) = "batch"
    BY DEF IInv, Flushed, Queue
  <2>2. /\ HandlerTypes' /\ (\A q \in Queue(c) : Ends(q, "failed"))
        /\ \A q \in Requests \ Queue(c) : Rests(q)
    BY <2>1, EndAttemptDoes DEF IInv, DrainFails
  <2>3. QED
    BY <2>1, <2>2 DEF DrainFails, EndAttempt
<1>2. \A q \in Requests : Does(q) /\ (pc[q] = "done" => pc'[q] = "done")
  BY <1>1 DEF Does, Rests, Ends
<1>3. TypeOK' /\ Told' /\ Flushed' /\ Advance
  <2>1. Begun({}) /\ Visible' \subseteq Visible \cup {}
    BY DEF Begun, DrainFails, Rollback, Visible
  <2>2. flush' \in [Flushes -> [items : SUBSET Requests, done : SUBSET Requests]]
    BY DEF IInv, TypeOK, DrainFails
  <2>3. QED
    BY <1>1, <1>2, <2>1, <2>2, StepCommon DEF DrainFails, Rollback, bounds
<1>4. Together'
  BY <1>1, EndTogether DEF IInv, DrainFails, Rollback
<1>5. Kept'
  <2>1. PICK q \in Requests : q \in Queue(c)
    BY <1>1 DEF DrainFails
  <2>2. response[q] \in {"none", "failed", "timeout"} /\ Kind(q) = "batch" /\ Ends(q, "failed")
    BY <1>1, <2>1 DEF IInv, Flushed, Queue
  <2>3. Excuse(q)' /\ response'[q] # "ok" /\ ~(pc'[q] = "waiting" /\ ~Sent(q)')
    BY <1>1, <2>2 DEF Ends, Excuse, Kind, Sent
  <2>4. QED
    BY <1>3, <2>3, KeptDespiteLoss DEF IInv
<1>6. Earned'
  <2>1. durable' \ durable = {}
    BY DEF DrainFails, Rollback
  <2>2. QED
    BY <1>3, <2>1, EarnedKept DEF IInv
<1>7. QED
  BY <1>3, <1>4, <1>5, <1>6 DEF IInv, DrainFails, Rollback, StrayTransaction

\* A step of a flush with one of its items, which writes ws: the item's handler
\* waits, or the item is resolved, or rejected.
LEMMA ItemStepIInv ==
  ASSUME IInv, NEW f \in Flushes, NEW r \in flush[f].items, pc[r] \in {"drained", "waiting"},
         HandlerTypes', route' = route, \A q \in Requests \ {r} : Rests(q),
         NEW ws \in SUBSET Writes(r, attempt[r]), tx' = tx,
         \/ tx = "open" /\ pending' = pending \cup ws /\ durable' = durable
         \/ durable' = durable \cup ws /\ pending' = pending,
         \/ Moves(r, "waiting") /\ flush' = flush /\ ws = Writes(r, attempt[r])
         \/ /\ Returns(r, "ok") /\ ThroughWith(f, r)
            /\ ws = Writes(r, attempt[r]) \/ pc[r] = "waiting"
         \/ Ends(r, "failed") /\ ThroughWith(f, r),
         failures' = failures \/ (failures' = failures + 1 /\ failures < MaxFailures),
         restarts' = restarts
  PROVE  IInv'
<1>1. r \in Requests /\ Kind(r) = "batch" /\ ~Transactional(r) /\ flush[f].items # {}
  BY DEF IInv, TypeOK, Flushed, Transactional
<1>2. /\ flush' \in [Flushes -> [items : SUBSET Requests, done : SUBSET Requests]]
      /\ \A g \in Flushes : flush'[g].items = flush[g].items
      /\ \A g \in Flushes : flush'[g] # flush[g] =>
           g = f /\ flush'[g].done = flush[g].done \cup {r} /\ Sent(r)'
  BY <1>1 DEF IInv, TypeOK, ThroughWith, Returns, Ends, Sent
<1>3. Visible' = Visible \cup ws /\ durable \subseteq durable' /\ durable' \subseteq durable \cup ws
  BY DEF Visible
<1>4. TypeOK' /\ Told' /\ Flushed' /\ Advance
  <2>1. \A q \in Requests : Does(q) /\ (pc[q] = "done" => pc'[q] = "done")
    BY DEF Does, Rests
  <2>2. Begun(ws)
    BY <1>1, OwnBegun DEF IInv
  <2>3. \A g \in Flushes :
          \/ flush'[g] = flush[g]
          \/ /\ \A q \in flush'[g].items : Kind(q) = "batch"
             /\ \A q \in flush'[g].done : q \in flush[g].done \/ Sent(q)'
             /\ flush'[g].items # {}
    BY <1>1, <1>2 DEF IInv, Flushed
  <2>4. tx' \in {"none", "open"} /\ (tx' = "none" => pending' = {})
    BY DEF IInv, TypeOK
  <2>5. QED
    BY <1>2, <1>3, <2>1, <2>2, <2>3, <2>4, StepCommon
<1>5. Together'
  BY <1>1, WriteTogether DEF IInv
<1>6. Kept'
  <2>1. \A q \in Requests \ {r} : /\ response'[q] = "ok" => Sent(q)
                                  /\ pc'[q] = "waiting" => pc[q] = "waiting"
    BY DEF Rests, Sent
  <2>2. response'[r] = "ok" /\ ~Sent(r) => Writes(r, 1) \subseteq Visible' \/ Undone(r)
    BY <1>1, <1>3 DEF IInv, Told, Kept, Moves, Returns, Ends, Sent
  <2>3. pc'[r] = "waiting" /\ pc[r] # "waiting" /\ ~Sent(r)' => Writes(r, 1) \subseteq Visible'
    BY <1>1, <1>3 DEF IInv, Told, Moves, Returns, Ends, Sent
  <2>4. QED
    BY <1>1, <1>3, <1>4, <2>1, <2>2, <2>3, KeptWithoutLoss DEF IInv
<1>7. Earned'
  BY <1>1, <1>3, <1>4, EarnedOwn DEF IInv
<1>8. StrayTransaction'
  <2>1. \A g \in Flushes : flush[g] # NoFlush => flush'[g] # NoFlush
    BY <1>2 DEF IInv, Flushed, NoFlush
  <2>2. \A q \in Requests : Transactional(q) => Rests(q)
    BY <1>1
  <2>3. QED
    BY <2>1, <2>2 DEF IInv, StrayTransaction, Transactional, Kind, Rests, NoFlush
<1>9. QED
  BY <1>4, <1>5, <1>6, <1>7, <1>8 DEF IInv

\* item.resolve() for an item that is not done.
LEMMA ResolveDoes ==
  ASSUME TypeOK, NEW f \in Flushes, NEW r \in Requests, pc[r] # "done", Resolve(f, r)
  PROVE  /\ HandlerTypes' /\ route' = route /\ ThroughWith(f, r)
         /\ \A q \in Requests \ {r} : Rests(q)
         /\ Returns(r, "ok") \/ Ends(r, "failed")
<1>1. CASE Sent(r)
  BY <1>1, EndsOne DEF Resolve
<1>2. CASE ~Sent(r)
  BY <1>2 DEF Resolve, Return, Returns, Rests, TypeOK, HandlerTypes
<1>3. QED
  BY <1>1, <1>2

\* The handler of an item runs its statements.
LEMMA ItemIInv ==
  ASSUME IInv, NEW f \in Flushes, NEW r \in flush[f].items, Item(f, r)
  PROVE  IInv'
<1>1. r \in Requests /\ pc[r] = "drained"
  BY DEF IInv, TypeOK, Item, NextItem
<1>2. /\ HandlerTypes' /\ route' = route /\ \A q \in Requests \ {r} : Rests(q)
      /\ \/ Moves(r, "waiting") /\ flush' = flush
         \/ Returns(r, "ok") /\ ThroughWith(f, r)
         \/ Ends(r, "failed") /\ ThroughWith(f, r)
  <2>1. CASE route[r].waits
    BY <1>1, <2>1 DEF IInv, TypeOK, HandlerTypes, Item, Wait, Moves, Rests
  <2>2. CASE ~route[r].waits
    BY <1>1, <2>2, ResolveDoes DEF IInv, Item
  <2>3. QED
    BY <2>1, <2>2
<1>3. QED
  BY <1>1, <1>2, ItemStepIInv DEF Item, Write, bounds

\* It throws after k - 1 of them.
LEMMA ItemFailsIInv ==
  ASSUME IInv, NEW f \in Flushes, NEW r \in flush[f].items,
         NEW k \in 1 .. route[r].effects, ItemFails(f, r, k)
  PROVE  IInv'
<1>1. r \in Requests /\ pc[r] = "drained"
  BY DEF IInv, TypeOK, ItemFails, NextItem
<1>2. Upto(r, attempt[r], k - 1) \in SUBSET Writes(r, attempt[r])
  <2>1. k - 1 \in 0 .. route[r].effects
    BY <1>1, RouteTypes DEF IInv
  <2>2. QED
    BY <1>1, <2>1, PrefixWrites DEF IInv
<1>3. /\ HandlerTypes' /\ route' = route /\ Ends(r, "failed")
      /\ \A q \in Requests \ {r} : Rests(q)
  BY <1>1, EndsOne DEF IInv, ItemFails
<1>4. QED
  BY <1>1, <1>2, <1>3, ItemStepIInv DEF ItemFails, Write

\* What it waited for has come.
LEMMA ItemEndsIInv ==
  ASSUME IInv, NEW f \in Flushes, NEW r \in flush[f].items, ItemEnds(f, r)
  PROVE  IInv'
<1>1. r \in Requests /\ pc[r] = "waiting"
  BY DEF IInv, TypeOK, ItemEnds
<1>2. /\ HandlerTypes' /\ route' = route /\ ThroughWith(f, r)
      /\ \A q \in Requests \ {r} : Rests(q)
      /\ Returns(r, "ok") \/ Ends(r, "failed")
  BY <1>1, ResolveDoes DEF IInv, ItemEnds
<1>3. {} \in SUBSET Writes(r, attempt[r]) /\ pending' = pending \cup {} /\ durable' = durable \cup {}
  BY DEF ItemEnds, db
<1>4. QED
  BY <1>1, <1>2, <1>3, ItemStepIInv DEF ItemEnds, db, bounds

\* COMMIT of a flush.
LEMMA FlushEndsIInv ==
  ASSUME IInv, NEW f \in Flushes, FlushEnds(f)
  PROVE  IInv'
<1>1. /\ HandlerTypes' /\ route' = route
      /\ \A q \in Requests : Rests(q) /\ Does(q)
  BY DEF IInv, TypeOK, FlushEnds, handlers, HandlerTypes, Rests, Does
<1>2. /\ flush' \in [Flushes -> [items : SUBSET Requests, done : SUBSET Requests]]
      /\ \A g \in Flushes : flush'[g] \in {NoFlush, flush[g]}
  BY DEF IInv, TypeOK, FlushEnds, NoFlush
<1>3. TypeOK' /\ Told' /\ Flushed' /\ Advance
  <2>1. /\ Begun({}) /\ Visible' \subseteq Visible \cup {} /\ durable \subseteq durable'
        /\ tx' \in {"none", "open"} /\ (tx' = "none" => pending' = {})
    BY DEF Begun, FlushEnds, Commit, Visible
  <2>2. \A q \in Requests : pc[q] = "done" => pc'[q] = "done"
    BY <1>1 DEF Rests
  <2>3. QED
    BY <1>1, <1>2, <2>1, <2>2, StepCommon DEF FlushEnds, bounds
<1>4. Together'
  BY <1>1, EndTogether DEF IInv, FlushEnds, Commit
<1>5. Kept'
  <2>1. \A q \in Requests : /\ response'[q] = "ok" => Sent(q)
                            /\ pc'[q] = "waiting" => pc[q] = "waiting"
    BY <1>1 DEF Rests, Sent
  <2>2. Visible' = Visible
    BY DEF FlushEnds, Commit, Visible
  <2>3. QED
    BY <1>3, <2>1, <2>2, KeptWithoutLoss DEF IInv
<1>6. Earned'
  <2>1. PICK q \in Requests : Kind(q) = "batch" /\ Sent(q)
    BY DEF IInv, TypeOK, Flushed, FlushEnds
  <2>2. Takes(q)'
    BY <1>1, <2>1 DEF Takes, Kind, Sent, Rests
  <2>3. \A r \in Requests : Transactional(r) => Taken(r)'
    BY <2>1, <2>2 DEF Taken, Transactional
  <2>4. QED
    BY <1>3, <2>3, EarnedKept DEF IInv
<1>7. QED
  BY <1>3, <1>4, <1>5, <1>6 DEF IInv, FlushEnds, Commit, StrayTransaction

\* A restart rolls back what is open, and excuses every loss.
LEMMA RestartIInv ==
  ASSUME IInv, NEW V, Restart(V),
         failures' = failures \/ (failures' = failures + 1 /\ failures < MaxFailures)
  PROVE  IInv'
<1>1. /\ HandlerTypes' /\ route' = route
      /\ \A q \in Requests : Rests(q) \/ Moves(q, "done")
  BY DEF IInv, TypeOK, Restart, HandlerTypes, Rests, Moves
<1>2. TypeOK' /\ Told' /\ Flushed' /\ Advance
  <2>1. \A q \in Requests : Does(q) /\ (pc[q] = "done" => pc'[q] = "done")
    BY <1>1 DEF Does, Rests, Moves
  <2>2. Begun({}) /\ Visible' \subseteq Visible \cup {}
    BY DEF Begun, Restart, Rollback, Visible
  <2>3. /\ flush' \in [Flushes -> [items : SUBSET Requests, done : SUBSET Requests]]
        /\ \A f \in Flushes : flush'[f] = NoFlush
    BY DEF Restart, NoFlush
  <2>4. QED
    BY <1>1, <2>1, <2>2, <2>3, StepCommon DEF Restart, Rollback
<1>3. Together'
  BY <1>1, EndTogether DEF IInv, Restart, Rollback
<1>4. Kept'
  BY SqliteAssumption, KeptAfterRestart DEF IInv, TypeOK, Restart
<1>5. Earned'
  <2>1. durable' \ durable = {}
    BY DEF Restart, Rollback
  <2>2. QED
    BY <1>2, <2>1, EarnedKept DEF IInv
<1>6. QED
  BY <1>2, <1>3, <1>4, <1>5 DEF IInv, Restart, Rollback, StrayTransaction

\* The steps of the handlers keep the invariant ...
LEMMA HandlerIInv ==
  ASSUME IInv, NEW r \in Requests, Handler(r)
  PROVE  IInv'
<1>1. CASE UpdateFails(r)
  BY <1>1, RestartIInv DEF UpdateFails
<1>2. CASE \E k \in 1 .. route[r].effects : EffectFails(r, k)
  BY <1>2, EffectFailsIInv
<1>3. QED
  BY <1>1, <1>2, BeginFailsIInv, RefuseIInv, RefuseAgainIInv, BodyIInv, FinishIInv, TimeOutIInv,
     EnqueueIInv DEF Handler

\* ... and those of the batch executor.
LEMMA ExecutorIInv ==
  ASSUME IInv, NEW f \in Flushes, Executor(f)
  PROVE  IInv'
<1>1. CASE \E c \in Routes : Drain(f, c) \/ DrainFails(f, c)
  BY <1>1, DrainIInv, DrainFailsIInv
<1>2. CASE \E r \in flush[f].items :
             \/ Item(f, r) \/ ItemEnds(f, r)
             \/ \E k \in 1 .. route[r].effects : ItemFails(f, r, k)
  BY <1>2, ItemIInv, ItemEndsIInv, ItemFailsIInv
<1>3. CASE FlushEnds(f)
  BY <1>3, FlushEndsIInv
<1>4. QED
  BY <1>1, <1>2, <1>3 DEF Executor

\* Every step keeps the invariant.
LEMMA IInvStep == IInv /\ [Next]_vars => IInv'
<1> SUFFICES ASSUME IInv, [Next]_vars
             PROVE  IInv'
  OBVIOUS
<1>1. CASE UNCHANGED vars
  BY <1>1 DEF vars, handlers, db, bounds, IInv, TypeOK, Told, Flushed, Together, Whole, Kept, Undone,
     Excuse, Earned, Taken, Takes, StrayTransaction, Visible, Writes, Transactional, Kind, Sent
<1>2. CASE Restart({}) /\ UNCHANGED failures
  BY <1>2, RestartIInv
<1>3. QED
  BY <1>1, <1>2, HandlerIInv, ExecutorIInv DEF Next

\* The variables stay in their domains; what is visible are the effects of
\* attempts that were begun.
THEOREM SqliteTypeOK == Spec => []TypeOK
<1>1. IInv => TypeOK
  BY DEF IInv
<1>2. QED
  BY <1>1, InitIInv, IInvStep, PTL DEF Spec

\* The effects of an attempt of a transactional request are never split, whoever
\* shares its transaction, ends it, or restarts the process.
THEOREM EffectsStayTogether == Spec => []AllOrNothing
<1>1. IInv => AllOrNothing
  <2> SUFFICES ASSUME IInv, NEW r \in Requests, Transactional(r), NEW n \in 1 .. attempt[r]
               PROVE  Visible \cap Writes(r, n) \in {{}, Writes(r, n)}
    BY DEF AllOrNothing
  <2>1. n \in Nat
    OBVIOUS
  <2>2. Whole(Writes(r, n))
    BY <2>1 DEF IInv, Together
  <2>3. QED
    BY <2>2 DEF Whole, Visible
<1>2. QED
  BY <1>1, InitIInv, IInvStep, PTL DEF Spec

\* An acknowledged effect is lost to the failure, the timeout or a later attempt
\* of another request that opens transactions or is flushed in one, or to a
\* restart, and to nothing else.
THEOREM OnlyRollbackLoses == Spec => []LostOnlyToRollback
<1>1. IInv => LostOnlyToRollback
  BY DEF IInv, Kept, Undone, Excuse, LostOnlyToRollback
<1>2. QED
  BY <1>1, InitIInv, IInvStep, PTL DEF Spec

\* What a transactional request wrote without being told ok gets into the file
\* only with the COMMIT of somebody else.
THEOREM FailuresLeaveNothing == Spec => []OnlySuccessStays
<1>1. IInv => OnlySuccessStays
  <2> SUFFICES ASSUME IInv, NEW r \in Requests, Transactional(r), NEW n \in 1 .. attempt[r],
                      durable \cap Writes(r, n) # {}
               PROVE  (n = 1 /\ response[r] = "ok") \/ Taken(r)
    BY DEF OnlySuccessStays, Taken, Takes
  <2>1. n \in Nat
    OBVIOUS
  <2>2. QED
    BY <2>1 DEF IInv, Earned
<1>2. QED
  BY <1>1, InitIInv, IInvStep, PTL DEF Spec

\* Only a waiting or a refused transactional request, or a flush that runs,
\* leaves a transaction open.
THEOREM OnlyRefusalsStray == Spec => []StrayTransaction
<1>1. IInv => StrayTransaction
  BY DEF IInv
<1>2. QED
  BY <1>1, InitIInv, IInvStep, PTL DEF Spec
=============================================================================
