SPECIFICATION Spec
CONSTANTS
  voids = voids
  includes = includes
  align = align
  format = format
  NoText = NoText
  NoPolicy = NoPolicy
  Policies = {voids, includes, align, format}
  Stages <- MCStages
  Lines = {1, 2}
  Values = {"plain", "neat", "bad"}
  Priority <- MCPriority
  Bypasses = {align, format}
  WhitespaceSafe = {align}
  SemanticRewrite = {voids}
  ClangInvalidating = {voids}
  HasCompdb = TRUE
  RetryBatch = 1
  ErrorLines <- BadLines
  ClangErrorLines <- WrongLines
INVARIANTS TreeIsCurrent SemanticIsCurrent ErrorBudget HigherPriorityWins OneOwnerPerLine ReportCoversChanges
