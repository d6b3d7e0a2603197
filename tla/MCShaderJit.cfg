SPECIFICATION Spec
CONSTANTS
  Inputs <- ConstInputs
  Names <- ConstNames
  Tags <- ConstTags
  MaxCompiles = 2
INVARIANTS
  FaithfulParse
  PanicNeedsPartialWord
  BindingsDistinct
CHECK_DEADLOCK FALSE
