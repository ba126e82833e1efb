CONSTANTS
  Namespaces <- MCNamespaces
  Words <- MCWords
  Starts <- MCStarts
  NewSymbols <- MCNewSymbols
  NewMethods <- MCNewMethods
  NewNames <- MCNewNames
  MaxEdits = 2
SPECIFICATION Spec
INVARIANTS
  RunSettles TypeOK RefusesOnlyFor RunKeepsBoundary PublicViewIsClosed
PROPERTIES
  RunOnlyAdds
