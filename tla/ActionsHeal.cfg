CONSTANTS
  Folders = {"Drafts", "Trash", "Other"}
  Drafts = "Drafts"
  Trash = "Trash"
  Old = {11, 12}
  Calls = {1, 2}
  Kinds = {"flag", "flags", "move", "thread", "trash", "expunge", "update"}
  Rows = {1,2,3,4,5,6,7,8,9}
  MaxChanges = 1
  NoRow = NoRow
  NoPlace = NoPlace
  NoMail = NoMail
  NoOne = NoOne
SPECIFICATION Spec
INVARIANTS NothingLostNorInvented DueCovers
CHECK_DEADLOCK FALSE
PROPERTIES MirrorHeals
