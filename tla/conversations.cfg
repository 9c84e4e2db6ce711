SPECIFICATION CFairSpec
CONSTANTS
  Conversation = {c1, c2, c3}
  Backend = {b1, b2}
  none = none
  TTL = 2
INVARIANT GetIsExact
PROPERTY ExpiredGoes
