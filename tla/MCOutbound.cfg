SPECIFICATION OutboundSpec
CONSTANTS
  TermFiles = {1, 2, 3, 4}
  FileMonth <- MCFileMonth
  TermTitles = {"a", "b", "c", "d"}
  Content <- MCContent
  Absent = Absent
  MaxTermFaults = 1
  MaxTermRestarts = 1
  Categories = {1, 2}
  Rows <- MCRows
  MaxRows = 3
  ToolRequests <- MCToolRequests
  DefaultPerPage = 3
  MaxPerPage = 3
  MaxInt = 31
  MaxToolFaults = 1
  MaxToolRestarts = 1
  Pages <- MCPages
  NoUrl = NoUrl
  NoBody = NoBody
  MaxNewsFaults = 2
  MaxNewsRestarts = 1
  Mails = {m1, m2}
INVARIANTS
  OnlyUpstreamDropsAMonth
  GetFindsTheFirstListed
  CategoriesNeverBlank
  WalkIsComplete
  NoPageOutOfRange
  UpdatedOnlyByTheSource
  SuccessMeansAccepted
PROPERTIES
  TermsMirror
  ToolsMirror
  NewsOnlyGrows
  TermsCatchUp
  ToolsCatchUp
  NewsCatchUp
  MailReturns
CHECK_DEADLOCK FALSE
