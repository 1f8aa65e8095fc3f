SPECIFICATION Spec
CONSTANTS
  ClientValues = {a}
  ServerValues = {x, y}
  None = None
  Fragment = 2
  HeaderRoom = 2
  BodyRoom = 2
INVARIANTS
  KeysAgree
  AnswersOpen
  OwnStreamKey
PROPERTIES
  Answered
