SPECIFICATION Spec
CHECK_DEADLOCK FALSE
CONSTANTS
  Types = {"REL", "EXEC"}
  Given <- Files
  SectionKinds <- Kinds
  Sizes = {0, 5}
  SymbolNames = {"f", "g"}
  Dynamic = {FALSE, TRUE}
  MaxSymbols = 2
  MaxRelocs = 1
  MaxDynamic = 1
  MaxCalls = 4
INVARIANT SymbolsStay
