\* Two workspaces, one of two pages, at most three tabs.
CONSTANTS
  None = None
  wa = wa
  wb = wb
  Workspaces = {wa, wb}
  Pages <- MCPages
  TabIds = {t1, t2, t3}
SPECIFICATION Spec
SYMMETRY Symmetry
INVARIANTS GroupsAreShowable PinnedFirst TabsAreApart SomewhereToBe StoredIsShown
PROPERTY RestartResumes
