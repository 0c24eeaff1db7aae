SPECIFICATION Spec
CONSTANTS
  Workers = {w1, w2, w3}
  MaxRequests = 2
SYMMETRY Symmetry
INVARIANTS
  TypeOK
  OutcomesAddUp
  AnswersCounted
