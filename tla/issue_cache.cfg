\* Two issues, of which this user created the second; a page of one card.
CONSTANTS
  Lists = {"board", "mine"}
  Issues = {1, 2}
  Columns <- TwoColumns
  Hidden = {}
  Created = {2}
  Initially = {"me", "other"}
  Opened = {2}
  PageSize = 1
  MaxChanges = 2
  Overlap = FALSE
  None = None
SPECIFICATION Spec
INVARIANTS ListsSettle DetailsSettle

