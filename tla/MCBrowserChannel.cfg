CONSTANTS
  x1 = x1
  x2 = x2
  Session = {x1, x2}
  NoExchange = NoExchange
  NoJob = NoJob
  MaxCommands = 2
SPECIFICATION FairSpec
INVARIANTS
  BrowserAccounted
  CancelEndsKnownBrowser
PROPERTIES
  AnswersOwnCommand
  BrowserCloses
CHECK_DEADLOCK FALSE
