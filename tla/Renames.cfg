CONSTANTS
  head = head
  user = user
  reader = reader
  Texts <- TextsMC
  Includes <- IncludesMC
  Suggested <- SuggestedMC
  Compdb = {head, user}
  Allowed = {0, 1, 2}
  Roots = {TRUE, FALSE}
  MayFail = TRUE
SPECIFICATION Spec
INVARIANTS
  OnlyMeant
  RenamesFollow
CHECK_DEADLOCK FALSE
