CONSTANTS
  m1 = m1
  m2 = m2
  party = party
  tent = tent
  the = the
  plain = plain
  stopped = stopped
  queried = queried
  either = either
  literal = literal
  hollow = hollow
  daemon = daemon
  command = command
  x = x
  y = y
  chat1 = chat1
  chat2 = chat2
  ann = ann
  mom = mom
  None = None
  Blank = Blank
  Processes = {daemon, command}
  Readers = {command}
  schemaVersion = 2
  Msgs = {m1, m2}
  Time <- MCTime
  Words = {party, tent, the}
  Bodies <- MCBodies
  Short = {}
  Stop = {the}
  Queries = {plain, stopped, queried, either, literal, hollow}
  Match <- MCMatch
  WordsOf <- MCWordsOf
  Broken = {queried, hollow}
  Exact = {either, literal}
  Literal = {literal}
  Limit = 1
  MaxOpens = 2
  MaxWrites = 3
  People = {x, y}
  Chats = {chat1, chat2}
  Labels = {ann, mom}
  ContactRows <- MCContactRows
  ChatRows <- MCChatRows
  Aliases <- MCAliases
  NumberOf <- MCNumberOf
  SenderOf <- MCSenderOf
  ChatOf <- MCChatOf
  Page = 2
  ContactLimit = 1
  ChatLimit = 1
SPECIFICATION NamesSpec
INVARIANTS
  SchemaIsWhole
  SearchIsRight
  FindIsRight
  OneNamePerReply
CHECK_DEADLOCK FALSE
