SPECIFICATION MCSpec
CONSTANTS
  r1 = r1
  r2 = r2
  Requests = {r1, r2}
  Uploads <- MCUploads
  Answered = {r1}
INVARIANTS
  TypeOK
  NothingLostInPipe
  RecordedBeforeResponse
  CleanCloseMeansWholeBody
  NoGoroutineLeft
PROPERTIES
  MeasuringNeverStalls
  AnsweredRequestsEnd
