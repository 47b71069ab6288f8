SPECIFICATION JFairSpec
CONSTANTS
  r1 = r1
  r2 = r2
  r3 = r3
  c1 = c1
  c2 = c2
  c3 = c3
  alice = alice
  atlas = atlas
  Nothing = Nothing
  Records <- ThreeRecords
  Claims <- ThreeClaims
  Entities <- AtlasAndAlice
  ClaimsOf <- OneClaimEach
  RecordOf <- Statement
  Mentions <- SecondMentionsAlice
  References <- ThirdCitesFirst
  Sensitive = {r3}
  Topic <- Storage
  Content <- ThreeAnswers
  About <- AboutAtlas
  Owed <- AliceOwesSecond
  Workers = {w1}
  OccurredAt <- LastTwoTogether
  Windows <- SomeWindows
  MaxJobs = 2
  MaxCrashes = 2
  MaxUnsealed = 1
  MaxTime = 1
INVARIANTS JTypeOK ResultNamesWhatIsMissing
PROPERTY JobsEnd
CHECK_DEADLOCK FALSE
