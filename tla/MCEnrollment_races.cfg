CONSTANTS
  t1 = t1
  a1 = a1
  a2 = a2
  Agents = {a1, a2, a3, a4}
  Tokens = {t1, t2}
  Local = Local
  Credential <- MCCredential
  Operators = {o1, o2}
  MaxFaults = 2
SPECIFICATION FairSpec
INVARIANTS TypeOK TokenEnrollsOne OneAdmin OrphansFromFaultsOnly
PROPERTIES LocalAgentEnrolls FirstLoginServedUnlessAgentFirst
CHECK_DEADLOCK FALSE
