SPECIFICATION Spec
CONSTANTS
  TextPrompts <- LongPrompts
  MediaPrompts <- Pictures
  Tails <- Turn
  GenTokens <- Replies
  Rulebook <- Block
  MinLcp = 2
  MaxSnapshot = 6
  MaxFiles = 2
  PrefixKv = TRUE
  DiskKv = TRUE
  Quantised = FALSE
  Overlap = FALSE
  RulebookLate = FALSE
  MaxRequests = 3
  MaxRestarts = 1
\* after MaxRequests requests the model may stop
CHECK_DEADLOCK FALSE
INVARIANTS ContextIsPrompt LogitsAreFresh FilesAreTrue LastIsCached
