CONSTANTS
  W8 = 3
  W32 = 3
  W64 = 4
  Precision = 2
  Exponents = 4
  Fraction = 2
  Texts <- MCTexts
  Encoding <- MCEncoding
  MaxLength = 2
  Items <- MCItems
  Keys <- MCKeys
  Answers <- MCAnswers
  MaxItems = 3
  MaxLoops = 1
SPECIFICATION Spec
CHECK_DEADLOCK FALSE
INVARIANTS
  OrdersAgree
  WidthIsInvisible
  DivisionsAgree
  PowersAgree
  SlicesAgree
  RangesAgree
  KeysAreDistinct
  LoopsAgree
  AdditionsAreVisited
  LoopsStayInBounds
PROPERTIES
  StoresAreExact
