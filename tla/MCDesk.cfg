SPECIFICATION DeskSpec
CONSTANTS
  None = None
  i1 = i1
  c1 = c1
  c2 = c2
  k1 = k1
  k2 = k2
  p1 = p1
  p2 = p2
  Gone = Gone
  Calls = {c1, c2}
  Years = 2
  MaxTokens = 3
  Items = {i1}
  Rates = {0, 18}
  Drafts <- FewDrafts
  MaxDocs = 2
  MaxMoves = 1
  MaxSends = 2
  Parties = {p1, p2}
  Owner <- BothOfOne
  Loads = {1}
  Totals <- OneEach
  MaxAmount = 2
  MaxEntered = 2
  MaxPosted = 2
  Requests = {c1, c2}
  Banks = {1, 2, 3}
  MaxServed = 5
  Cards = {c1, c2}
  CardKinds = {k1, k2}
  MaxValue = 1
  MaxSaves = 2
  Edited = {c1, c2}
  MaxImage = 1
  MaxOpened = 2
  MaxOthers = 1
  Documents <- FewDocuments
  Layouts <- FewLayouts
  Heights = {15, 180}
  Tops = {230, 310}
  Spelled = {0, 19, 20, 100, 999, 1000, 100000, 9999999, 10000001, 999999999}
  DocIds = {1, 2}
  Entries <- FewEntries
  Users <- FewUsers
  Today <- ThisDay
  Take = 1
  Total = 2
SYMMETRY Symmetry
INVARIANTS
  DeskTypeOK
  SavedAsEntered
  SessionKeepsYear
  CalmSession
  PostedAsEntered
  SettingsHold
  PrintedAsSaved
  ListsOfferRightly
PROPERTIES
  SavedAsTyped
CHECK_DEADLOCK FALSE
