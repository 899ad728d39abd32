SPECIFICATION Spec
CONSTANTS
  Shape <- MCShape
  Shared <- MCShared
  Refs <- MCRefs
  Lets <- MCLets
  Stores <- AliasStores
  Bindings <- MCBindings
  Conds <- AliasConds
  Bodies <- AliasBodies
  Demands <- MCDemands
  Terms <- MCTerms
  Verdicts <- MCVerdicts
  MaxIters = 2
  MaxFrames = 2
  MaxSteps = 4
INVARIANT FactsHold
CHECK_DEADLOCK FALSE
