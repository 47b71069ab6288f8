SPECIFICATION Spec
CONSTANTS
  r1 = r1
  r2 = r2
  r3 = r3
  c1 = c1
  c2 = c2
  c3 = c3
  alice = alice
  atlas = atlas
  Nothing = Nothing
  Records <- ThreeRecords
  Claims <- ThreeClaims
  Entities <- AtlasAndAlice
  ClaimsOf <- OneClaimEach
  RecordOf <- Statement
  Mentions <- SecondMentionsAlice
  References <- ThirdCitesFirst
  Sensitive = {r3}
  Topic <- Storage
  Content <- ThreeAnswers
  About <- AboutAtlas
  Owed <- AliceOwesSecond
  Workers = {w1, w2}
  OccurredAt <- LastTwoTogether
  Windows <- AnyWindow
  MaxJobs = 2
  MaxCrashes = 1
  MaxUnsealed = 1
INVARIANTS TypeOK SupersessionGoesBack NoClaimLinkIsLost PlainClaimHasItsEvent SupersededForAReason
PROPERTY SealedBodiesStay
CHECK_DEADLOCK FALSE
