SPECIFICATION Spec
CONSTANTS
  Callers = {c1, c2, c3}
  Inspectors = {i1}
  Answers = {a1, a2}
  MaxSetUps = 2
  None = None
INVARIANTS
  TypeOK
  AnswersAsSetUp
  InvocationsAgree
  CallsWaitInLine
PROPERTY
  CallsReturn
CHECK_DEADLOCK FALSE
