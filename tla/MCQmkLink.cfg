SPECIFICATION MCSpec
CONSTANTS
  AgentCount = 6
  None = None
  Board = Board
  Other = Other
  Strangers <- MCStrangers
  Candidates <- MCCandidates
  Compatible <- MCStrangers
  Statuses <- MCStatuses
  FirstStatus <- MCFirst
  Keymap <- MCKeymap
  Keycodes <- MCKeycodes
  Budgets <- MCBudgets
  Messages <- MCMessages
  Keycaps <- MCLayer
  Numbers <- MCNumbers
  Origins <- MCOrigins
  Setups <- MCSetups
  NewBytes <- MCNewBytes
  MaxDamage = 1
  KeyCount = 2
  HeldCount = 1
  SeqCount = 2
  MaxRetries = 1
  MaxPending = 2
  MaxUp = 2
INVARIANTS TypeOK AckNamesItsFrame ReplaysDroppedUntilAnEdge StuckOnlyByMissedRelease OverlayIsAFrame HandlesAccounted ReportsArriveAsMeant AnswersNameTheFrame TwinsAgree KeepAliveInTime
PROPERTY BoardEndsUpToDate
CHECK_DEADLOCK FALSE
