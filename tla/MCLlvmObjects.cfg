CONSTANTS
  NULL = NULL
  BLOCK = BLOCK
  GARBAGE = GARBAGE
  Classes <- MCClasses
  IOStream <- IO
  Selectors = {"each", "initialize"}
  Builtins = {"each"}
  Loops = {"each"}
  Arity <- MCArity
  Members = {"B", "C"}
  Values = {0, 1}
  MaxFunctions = 2
  MaxListed = 4
  MaxMembers = 2
  MaxInstances = 1
SPECIFICATION MCSpec
CHECK_DEADLOCK FALSE
INVARIANTS BlocksArrive NamesResolve
PROPERTIES ListsAreTables
