SPECIFICATION CSpec
CONSTANTS
  None = None
  Nothing = Nothing
  Records <- Events
  Claims <- ClaimIds
  Entities <- EntityIds
  ClaimsOf <- ExtractedFrom
  RecordOf <- DerivedFrom
  Mentions <- Mentioned
  References <- Cited
  Sensitive = {}
  OccurredAt <- Dates
  Topic <- Topics
  Content <- Contents
  About <- Subjects
  Owed <- Owners
  Workers = {w1}
  Windows <- FixtureWindows
  MaxJobs = 2
  MaxCrashes = 1
  MaxUnsealed = 0
  MaxSettled = 2
INVARIANTS ColumnsFollowPayload SettledStaysSettled NoObligationTwice
CHECK_DEADLOCK FALSE
