CONSTANTS
  MaximumDepth = 3
  MaximumTokens = 8
  CellBits = 4
  Numerals <- MCNumerals
  Surprises <- MCSurprises
  Programs <- MCPrograms
SPECIFICATION Spec
INVARIANTS
  MacrosAreExpanded
  ParenthesesKeepTheTree
  EvaluationIsTheMachines
  CoveredSwitchMatches
PROPERTIES
  VerdictsHold
