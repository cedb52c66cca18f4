SPECIFICATION FairDashboardSpec
CONSTANTS
  Tabs = {t1}
  NoTab = NoTab
  MaxQuestions = 2
  MaxLines = 2
  MaxDrops = 1
  MaxVisits = 2
INVARIANTS
  LogIsPrefix
  AnswersReachTheirQuestion
  MissingMeansForgotten
PROPERTIES
  WaitingIsShown
  EndIsShown
CHECK_DEADLOCK FALSE
