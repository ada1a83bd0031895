SPECIFICATION FairAccountSpec
CONSTANTS
  Handler = {h1, h2}
  Visitor = {v1, v2}
  CodeTime = 2
  SendWindow = 2
  VerifiedTime = 1
  MaxSend = 2
  MaxAttempt = 2
  MaxFail = 2
  LockTime = 1
  MaxBusy = 2
  MayDie = FALSE
INVARIANTS MarkerUsedOnce CountersExpire AttemptsOutliveCode WrongPasswordsBounded
PROPERTIES FirstLoginAnswered BlocksEnd
