CONSTANTS
  Compile <- TextOf
  Consume <- Load
  Interpret <- Execute
  Simulate <- SimulatorCall
  Pure <- PureCircuit
  Construct <- RunConstructor
  Declaring <- DeployText
  DeployOf <- PreparedDeploy
  Deploy <- StateToDeploy
  Compiled <- Compiles
  Views <- FieldViews
  ListsOf <- ListViews
  Denote <- Meaning
  Executions <- RunsOf
  Base = 4
  U64Bytes = 2
  U128Bytes = 3
  Modulus = 67
  OwnKey = 7
  Address = 11
  Supported <- MCSupported
  Circuits <- MCCircuits
  Sources <- MCSources
  Witnesses <- MCWitnesses
  Natives <- MCNatives
  WitnessMeaning <- MCMethod
  Method <- MCMethod
  Ask <- MCAsk
  DefaultState = 0
  Primitives = {1, 3}
  MaxQueryPathDepth = 4
  Declared <- MCDeclared
  Owner <- MCOwner
  Stock <- MCStock
  DustClock <- MCDustClock
  Now = 10
  Ratio = 5
  Decay = 1
  Jobs <- MCJobs
  Sponsors = {"bob"}
  MaxPayments = 3
  Shielded = {"gold", "silver", "badge"}
  Unshielded = {"night", "usd"}
  MaxRounds = 10
  FeeSegment = 5
  LastSegment = 6
  GlobalTtl = 4
  Margin = 1
  MaxValue = 15
SPECIFICATION Spec
INVARIANTS
  CircuitIsDenoted
  TranscriptInOrder
  PaidIsAccepted
  HoldsWhatItSpends
  AddsUp
  RefusesOnlyWhatItCannot
CHECK_DEADLOCK FALSE
