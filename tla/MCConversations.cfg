SPECIFICATION Spec
CONSTANTS
  old = old
  new = new
  Talks <- OldAndNew
  Kinds <- Dialogue
  Stamps <- OnlyNewIsStamped
  Places <- JsonThenZip
  MaxSaid = 4
  MaxDrops = 2
  Texts = {}
  MaxChars = 10
INVARIANTS TypeOK TranscriptIsNewest NewsIsFetched
  NothingLost TurnsStayWhole WithinBudget NoNeedlessSplit
CHECK_DEADLOCK FALSE
