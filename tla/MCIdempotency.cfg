SPECIFICATION Spec
CONSTANTS
  r1 = r1
  r2 = r2
  r3 = r3
  compact = compact
  spaced = spaced
  other = other
  mathA = mathA
  artA = artA
  Requests = {r1, r2, r3}
  Payloads = {compact, spaced, other}
  SectionOf <- MCSectionOf
  None = None
  IdempotencyTTL = 1
  MaxRows = 3
  MaxTime = 2
SYMMETRY Symmetry
INVARIANTS
  TypeOK
  AnswersAgree
  AnswerMatchesPayload
