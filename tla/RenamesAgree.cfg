CONSTANTS
  head = head
  user = user
  reader = reader
  Texts <- TextsReader
  Includes <- IncludesReader
  Suggested <- SuggestedMC
  Compdb = {head, user, reader}
  Allowed = {2}
  Roots = {TRUE}
  MayFail = FALSE
SPECIFICATION Spec
INVARIANTS
  NamesAgree
CHECK_DEADLOCK FALSE
