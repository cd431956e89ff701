\* Calls, build-only calls and deploys, a deadline of two ticks, two reorgs; or two
\* coordinators, two keys, one circuit, an update that overtakes another.
SPECIFICATION Contracts
CONSTANTS
  Kinds = {"call", "build", "deploy"}
  Deadline = 2
  MaxReorgs = 2
  a = a
  b = b
  m1 = m1
  m2 = m2
  Coordinators = {m1, m2}
  Keys = {a, b}
  Circuits = {"inc"}
  Candidates <- MCCandidates
  Batches <- MCBatches
  MaxSignatures = 2
  MaxCounter = 2
  MaxTxs = 2
INVARIANTS InputsFollowTheFate SnapshotFollowsTheFate OneDeadline
  AuthorityIsSound FailsOnlyWhenOvertaken AppliedByAQuorum
PROPERTIES BoundedWaitsEnd RetiredIsFinal
CHECK_DEADLOCK FALSE
