CONSTANTS
  Callers = {a, b}
  QueryCount = 3
  ChunkSize = 2
  MayPanic = TRUE
SPECIFICATION AuditSpec
INVARIANTS
  EverythingIsAnswered
  AnswersAreTheirOwn
  OneAnswerForAll
