\* The tags of a model as the contract encodes them.
INIT AbiInit
NEXT AbiNext
CONSTANTS
  Lengths = {0, 1, 33, 501}
  Amounts = {0, 1}
CHECK_DEADLOCK FALSE
INVARIANT TagsAreRead
