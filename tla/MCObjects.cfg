SPECIFICATION Spec
CONSTANTS
  Nil = Nil
  Kinds <- MCKinds
  FirstSpecs <- MCFirstSpecs
INVARIANTS StatusShowsLastOutcome OnlyTerminalErrorsStopRetries OneConditionPerType
PROPERTIES CopiesStayApart ConditionsAsListed
