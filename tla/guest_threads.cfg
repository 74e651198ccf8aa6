SPECIFICATION Spec
CONSTANTS
  Recs = {h1, h2, h3}
  Main = main
  None = None
  NSlots = 2
  Stacks = {s1, s2}
  JoinsTwice = FALSE
INVARIANTS NoDangling OwnArena NothingLeaks
PROPERTY JoinEnds
CHECK_DEADLOCK FALSE
