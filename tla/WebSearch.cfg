SPECIFICATION SearchSpec
CONSTANTS
  q1 = q1
  q2 = q2
  s1 = s1
  s2 = s2
  Requests = {q1, q2}
  Slots = {s1, s2}
  Setups <- MCSetups
  Urls <- MCUrls
  Patterns <- MCPatterns
  Answers <- MCAnswers
  Texts <- MCTexts
  CONTEXT = 1
  MaxCalls = 3
SYMMETRY Interchangeable
CHECK_DEADLOCK FALSE
INVARIANTS
  FindsWhatWasOpened
  FindsEveryMatch
