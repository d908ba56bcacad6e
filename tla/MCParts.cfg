SPECIFICATION PartsSpec
CONSTANTS
  Buffer = 2
  Tries = 1
  MaxHeader = 3
  MaxContent = 3
  MaxLength = 8
  Texts = {"plain", "opens", "closes"}
  MaxLines = 3
  Height = 1
  Margins = {0, 3}
  Slack = 2
  SaveEvery = 2
  Search = 2
  Early = 1
  MaxHandlers = 5
INVARIANTS
  TakenIffWhole
  TreeIsSequence
  HistoryFitsTexts
  FrontierSound
  ViewShowsDocument
  SettledIsRight
  HandlersRunOnce
PROPERTIES
  UndoRestoresTexts
\* A request is read once, and the reader's count is bounded.
CHECK_DEADLOCK FALSE
