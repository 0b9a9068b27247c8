SPECIFICATION FairSpec
CONSTANTS
  MaxNesting = 3
  ReadSize = 30
  MaxRequestSize = 90
  MaxCut = 1
  Script <- MCScript
  Outputs <- MCOutputs
INVARIANTS AnswersMatch PromptGoesOn
PROPERTY CallsAreAnswered
CHECK_DEADLOCK FALSE
