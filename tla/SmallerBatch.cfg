\* Two decodings with graphs, the second of fewer sequences.
SPECIFICATION Spec
CONSTANTS
  Token = {1, 2}
  EosToken = 2
  Arch = {"rotary"}
  MaxLength = {5}
  PromptLength = {1}
  BatchSize = {1, 2}
  Lookahead = {2}
  MaxCalls = 2
INVARIANT CallsNeverFail
CHECK_DEADLOCK FALSE
