\* The proxies stop and the clients leave in the end.
SPECIFICATION MCSpec
CONSTANTS
  p1 = p1
  p2 = p2
  r1 = r1
  r2 = r2
  NoProxy = NoProxy
  Proxies = {p1, p2}
  Requests = {r1, r2}
  ProviderPath <- MCProviderPath
  CanonicalName <- MCCanonicalName
  EndToEndNames = {"Authorization", "Opaque"}
  Messages <- MCMessages
  Answers <- MCAnswers
  Overlapping = FALSE
INVARIANTS
  HopByHopStaysHere
  EndToEndForwarded
  StaysWithItsProxy
CHECK_DEADLOCK FALSE
