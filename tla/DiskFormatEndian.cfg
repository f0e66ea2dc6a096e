CONSTANTS
  BYTE = 8
  W = 2
  Host <- OneUnknown
  Word <- MCWord
  BitXor <- MCBitXor
  MIN_SIZE = 8
  Id <- MCId
  Data <- MCData
  Key <- MCKey
  Slack = {0, 3}
SPECIFICATION Spec
INVARIANT ReadsBack
CHECK_DEADLOCK FALSE
