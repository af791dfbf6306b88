SPECIFICATION MCSpec
CONSTANT None = None
PROPERTIES DeliveriesSettle  AnswersEnd OnlyTheGoneAreDropped LimitsHold BudgetHolds  RecordingKept
CHECK_DEADLOCK FALSE
