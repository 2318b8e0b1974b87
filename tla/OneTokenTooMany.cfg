\* One speculative decoding.
SPECIFICATION Spec
CONSTANTS
  Token = {1, 2}
  EosToken = 2
  Arch = {"flash"}
  MaxLength = {5}
  PromptLength = {1}
  BatchSize = {1}
  Lookahead = {2}
  MaxCalls = 1
INVARIANT EndsAtMaxLength
CHECK_DEADLOCK FALSE
