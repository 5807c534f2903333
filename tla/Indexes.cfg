CONSTANTS f1 = f1  f2 = f2  c1 = c1  c2 = c2
  Flows <- MCFlows  Owners <- MCOwners  Calls <- MCCalls  Tables <- MCTables
  MaxCalls = 3  MaxLost = 1
SPECIFICATION Spec
INVARIANTS CreatesAllOrNothing ListedIsIndexed RegistryStaysCurrent
