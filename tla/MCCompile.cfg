SPECIFICATION Spec
CHECK_DEADLOCK FALSE
CONSTANTS
  nx = nx
  nf = nf
  ns = ns
  np = np
  Members <- MCMembers
  Marks <- MCMarks
  Tokens <- MCTokens
  Hosts <- MCHosts
  Preambles <- MCPreambles
  MaxTokens = 5
  Scratch <- MCScratch
  Saved <- MCSaved
  ArgRegs <- MCArgRegs
  ImmMax = 100
  SlotBytes = 8
INVARIANTS Grouped ParsedIsTree ResolvedIsTree OneTypeEach ResolvedIsGenerated 
