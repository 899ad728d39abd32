SPECIFICATION Spec
CONSTANTS
  Shape <- MCShape
  Shared <- MCShared
  Refs <- MCRefs
  Lets <- MCLets
  Stores <- MCStores
  Bindings <- MCBindings
  Conds <- MaskConds
  Bodies <- MCBodies
  Demands <- MCDemands
  Terms <- MCTerms
  Verdicts <- MCVerdicts
  MaxIters = 2
  MaxFrames = 2
  MaxSteps = 2
INVARIANT EntailsSound
CHECK_DEADLOCK FALSE
