CONSTANTS
  BYTE = 8
  W = 2
  Host <- BothKnown
  Word <- MCWord
  BitXor <- MCBitXor
  MIN_SIZE = 8
  Id <- MCId
  Data <- MCData
  Key <- MCKey
  Slack = {0, 3}
SPECIFICATION Spec
INVARIANT TypeOK
INVARIANT ReadsBack
INVARIANT OneDamagedByteIsDetected
INVARIANT ReadsStayInBlock
PROPERTY WritesStayInBlock
CHECK_DEADLOCK FALSE
