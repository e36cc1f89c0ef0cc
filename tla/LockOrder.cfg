SPECIFICATION LockSpec
CONSTANTS
  Jobs = {1}
  Answers = {1, 2}
  Tx = {t1, t2, t3}
  Kinds <- MCKinds
  Meet <- MCMeet
SYMMETRY Sym
INVARIANTS CyclesKnown NoWorkWithoutSubject
CHECK_DEADLOCK FALSE
