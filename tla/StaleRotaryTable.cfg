\* Two decodings with graphs and a training in between.
SPECIFICATION Spec
CONSTANTS
  Token = {1, 2}
  EosToken = 2
  Arch = {"rotary"}
  MaxLength = {3, 5}
  PromptLength = {1}
  BatchSize = {1}
  Lookahead = {2}
  MaxCalls = 2
INVARIANT LogitsSeeThePrefix
CHECK_DEADLOCK FALSE
