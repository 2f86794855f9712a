SPECIFICATION CommunitySpec
CONSTANTS
  Comments = {c1}
  Moderators = {m1, m2}
  Requests = {r1, r2}
  FirstN = 1
  MaxEdits = 2
  MaxLinks = 2
  MaxRevisions = 2
  MaxDecisions = 3
  Tickets = {m1, m2}
  Sockets = {r1, r2}
  MaxPlaces = 3
  Page = 2
  PostRequests = {r1, r2}
  Writers = {m1, m2}
  MaxWrites = 3
  MaxSeconds = 1
  Calls = {r1, r2}
  MaxResources = 2
  Files = {m1, m2}
  Editors = {r1, r2}
  MaxThemeEdits = 2
  MaxThemeCuts = 1
  Processes = {m1, m2}
  Saves = {r1, r2}
  MaxSaves = 3
SYMMETRY Symmetry
INVARIANTS RecordExplains TextIsNewest LogoutStopsSocket FollowersTold OncePerKey
  EditIsWhole DecisionsKept
CHECK_DEADLOCK FALSE
