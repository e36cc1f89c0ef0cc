SPECIFICATION Spec
CONSTANTS
  c1 = c1
  c2 = c2
  Students = {s1}
  Cards <- MCCards
  Generated <- MCGenerated
  OptionLists <- MCOptions
  Texts <- MCTexts
  Selections <- MCSelections
  Edits <- MCEdits
  Answerers = {1, 2}
  Reviewers = {1, 2}
  MaxKeys = 4
  Workloads <- MCWorkloads
  MaxDays = 2912000
INVARIANTS AnsweredOnce SameAnswerAgain AuditTrail
CHECK_DEADLOCK FALSE
