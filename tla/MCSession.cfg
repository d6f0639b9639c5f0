SPECIFICATION SessionSpec
CONSTANTS
  Pages = {p1, p2}
  NoPage = NoPage
  Day = 4
  Timeout = 1
  MaxPosts = 2
INVARIANTS SessionTypeOK OneInControl OwnRun
PROPERTIES KeepsControl Freed
CHECK_DEADLOCK TRUE
