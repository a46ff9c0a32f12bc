CONSTANTS
  Requests = {r1, r2}
  MaxAccounts = 2
  MaxIntents = 1
  MaxFaults = 1
SPECIFICATION FairSpec
INVARIANTS TypeOK TrialWholeOrNone OneAccountPerIntent AnsweredIsAudited
PROPERTIES FoundIsDelivered EveryRequestEnds
