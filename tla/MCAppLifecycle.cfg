SPECIFICATION FairSpec
CONSTANTS
  r1 = r1
  r2 = r2
  CommandLines <- MCCommandLines
  Files <- MCFiles
  Requests = {r1, r2}
INVARIANTS
  StartupNeverPanics
  OnlyLateHandlersPanic
  ExitCodesTell
PROPERTIES
  SignalEndsProcess
