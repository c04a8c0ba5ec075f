SPECIFICATION Spec
CONSTANTS
  Thread = {main, t1, t2}
  Main = main
  MaxNesting = 2
INVARIANT ContextKept
CHECK_DEADLOCK FALSE
