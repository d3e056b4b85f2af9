SPECIFICATION Spec
CONSTANTS
  p1 = p1
  p2 = p2
  r1 = r1
  r2 = r2
  NoProxy = NoProxy
  Proxies = {p1}
  Requests = {r1}
  ProviderPath <- MCProviderPath
  CanonicalName <- MCCanonicalName
  EndToEndNames = {"Authorization", "Opaque"}
  Messages <- MCSecondLine
  Answers <- MCFewAnswers
  Overlapping = FALSE
INVARIANTS
  ConnectionScopedStaysHere
CHECK_DEADLOCK FALSE
