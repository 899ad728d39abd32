SPECIFICATION Spec
CONSTANTS
  Lines <- MCLines
  MaxMembers = 5
  Helpers = {h1, h2}
  p1 = p1
  p2 = p2
  p3 = p3
  change = change
  keep = keep
  Protos = {p1, p2, p3}
  FuncOf <- MCFuncOf
  Changing <- MCChanging
  NumFns = 2
  MaxLabels = 4
  None = None
INVARIANTS LaidOutAsC SizeAsC ReadFormsAsVerifier ChangesPktCovers
CHECK_DEADLOCK FALSE
