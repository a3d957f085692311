SPECIFICATION DecodingSpec
CONSTANTS
  Records <- MCRecords
  Files <- MCFiles
  Params <- MCParams
  Answers <- MCAnswers
  Preps <- MCPreps
  InternalPresentations <- MCInternal
  GlobalPresentations <- MCPresentations
  Replies <- MCReplies
  Variants = {"v1", "v2", "v3"}
  Patternless = {"v3"}
  Services <- MCServices
  Queries = {"", "r"}
  Matching <- MCMatching
  Longer <- MCLonger
  Dtcs = {d1}
  MaxDtcs = 2
  MaxPosted = 1
  MaxPresses = 2
  Nothing = Nothing
INVARIANTS
  RecordsRead
  LinksKept
  FormatsUsable
  CodesAreTheEcus
  SessionPageFits
CHECK_DEADLOCK FALSE
