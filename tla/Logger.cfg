\* Two logfiles, one volume of which cannot be opened and one not read.
CONSTANTS
  Bases       <- McBases
  DefaultBase = "program"
  Unwritable  <- McUnwritable
  Unreadable  <- McUnreadable
  Limits      = {1, 2}
  DefaultLimit = 2
  MaxVolume   = 3
  MaxLines    = 3
  NoFile      = none

SPECIFICATION Spec

INVARIANTS FdIsNamedFile RotatesInTime OutFollowsEngine
PROPERTIES NothingTruncated

CHECK_DEADLOCK FALSE
