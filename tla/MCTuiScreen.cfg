CONSTANTS
  c1 = c1
  c2 = c2
  chatRow = chatRow
  hitRow = hitRow
  empty = empty
  ab = ab
  abc = abc
  None = None
  Chats = {c1, c2}
  Queries = {empty, ab, abc}
  Chars <- MCChars
  Launch = empty
  Rows = {chatRow, hitRow}
  Hits = {hitRow}
  ChatOf <- MCChatOf
  CacheLimit = 0
  MaxKeys = 5
  MaxEvents = 1
SPECIFICATION Spec
INVARIANTS
  SentWhereComposed
  PaneIsCurrent
  SearchSettles
  PreviewComes
