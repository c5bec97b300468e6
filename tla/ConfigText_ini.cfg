SPECIFICATION Spec
CONSTANTS
  Lines <- MCLines
  LowerCase <- MCLowerCase
  Numbers <- MCNumbers
  DefaultPath <- MCDefaultPath
  MaxLines = 4
INVARIANTS
  CommentsHold
CHECK_DEADLOCK FALSE
