CONSTANTS
  NPROC = 6
  NOFILE = 5
  MAXARGS = 3
  Words <- MCWords
  MaxLine = 4
  LongLines <- Long
  BusyLines <- WhileBusy
SPECIFICATION FairSpec
INVARIANTS ParsesGrammar StdioWired PromptMeansDone
PROPERTY PromptsAgain
CHECK_DEADLOCK FALSE
