\* Two flows, one step without a compensation, calls that find no route, and
\* every kind of fault.
SPECIFICATION FairSpec
CONSTANTS
  f1 = f1
  f2 = f2
  Flows <- TwoFlows
  NumSteps = 3
  Compensable <- SomeSteps
  StepRouters <- StepGateway
  UndoRouters <- UndoGateway
  Base = "gateway"
  Faults <- AllFaults
  MaxFaults = 3
INVARIANTS
  UndoneInReverse
PROPERTIES
  EveryFlowEnds
  ContractSpec
CHECK_DEADLOCK FALSE
