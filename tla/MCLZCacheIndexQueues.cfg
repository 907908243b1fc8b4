SPECIFICATION Spec
CONSTANTS
  Keys = {k1}
  Callers = {t1, t2}
  LastByte = 1
  Unknown = Unknown
  Totals = {2}
  MaxQueued = 1
INVARIANTS
  AnswersAsSubmitted
PROPERTIES
  IndexSpec
  CallsReturn
