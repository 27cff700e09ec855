SPECIFICATION Spec
CONSTANTS
  r1 = r1
  r2 = r2
  Requests = {r1, r2}
  Headers <- MCHeaders
  FreshText <- MCFreshText
  Keys <- MCKeys
  Parts <- MCParts
  Statuses = {200}
  MaxContexts <- MCMaxContexts
  MaxLines <- MCMaxLines
INVARIANTS
  TypeOK
  ContextsIntact
  LinesTraceable
  AnswersLogged
CHECK_DEADLOCK FALSE
