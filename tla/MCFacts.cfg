SPECIFICATION Spec
CONSTANTS
  Shape <- MCShape
  Shared <- MCShared
  Refs <- MCRefs
  Lets <- MCLets
  Stores <- MCStores
  Bindings <- MCBindings
  Conds <- MCConds
  Bodies <- MCBodies
  Demands <- MCDemands
  Terms <- MCTerms
  Verdicts <- MCVerdicts
  MaxIters = 2
  MaxFrames = 2
  MaxSteps = 3
INVARIANTS FactsHold EntailsSound AnswersSound
CHECK_DEADLOCK FALSE
