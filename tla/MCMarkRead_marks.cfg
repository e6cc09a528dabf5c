SPECIFICATION Spec
CONSTANTS
  Users <- TwoUsers
  Chats <- OneChat
  Messages <- TwoMessages
  Options <- AllOptions
  MaxCrashes = 1
  ApiErrors = TRUE
INVARIANTS MarkIsAccountedFor NothingLeftUnread
PROPERTIES MarkedOnlyWhenRead
