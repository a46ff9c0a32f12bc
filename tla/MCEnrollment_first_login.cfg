CONSTANTS
  t1 = t1
  a1 = a1
  a2 = a2
  Agents = {a1, a2, a3, a4}
  Tokens = {t1, t2}
  Local = Local
  Credential <- MCCredential
  Operators = {o1, o2}
  MaxFaults = 0
SPECIFICATION FairSpec
PROPERTY FirstLoginServed
CHECK_DEADLOCK FALSE
