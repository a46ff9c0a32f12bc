CONSTANTS
  Calls = {c1, c2}
  MaxTokens = 2
  MaxFaults = 1
SPECIFICATION FairSpec
INVARIANTS TypeOK OneHeir StoredIsCurrent
PROPERTIES ImplementsSessionChain ClosedShutsOut StrandedRecovers
