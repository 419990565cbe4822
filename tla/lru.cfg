SPECIFICATION Spec
CONSTANTS
  Keys = {1, 2, 3, 4}
  Values = {"a", "b"}
  Nodes = {11, 12, 13, 14}
  MaxSize = 3
  NoValue = NoValue
INVARIANTS Agree Bounded
PROPERTIES RecencySpec
