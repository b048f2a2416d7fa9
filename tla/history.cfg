\* One connection (they do not disturb each other), four messages in two
\* seconds with up to two links each, three rows.
SPECIFICATION Spec
CONSTANTS
  Client = {c1}
  Limit = 3
  Time = {1, 2}
  MaxMessages = 4
  MaxLinks = 2
INVARIANTS TypeOK ToldIsStored NothingNewerMissing
