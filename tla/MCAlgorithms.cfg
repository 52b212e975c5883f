\* Objects of up to eleven tokens: two members, lists of two, escapes.
CONSTANTS
  Longest = 11
  Inside = {"x", "comma", "rbrace", "fence", "space"}
  Wrappings <- MCWrappings
  MaxEvidence = 2
  MaxLocations = 2
  MinScore = 80
  DefaultFields <- MCDefaultFields
  EnvironmentFields <- MCEnvironmentFields
  FieldOrder <- MCFieldOrder
  ProjectFields <- MCProjectFields
  RetryCount = 0
SPECIFICATION Spec
CHECK_DEADLOCK FALSE
INVARIANTS
  WholeIsFound
  CutIsClosed
  NothingInvented
  ReuseIsSupported
  RepeatsMatch
  ProjectFieldsDecide
  CopiesAreLostAnswers
