SPECIFICATION Spec
CONSTANTS
  Chats <- TwoChats
  Removable <- OneChat
  Messages <- OneMessage
  MaxConvId = 2
  MaxCalls = 2
  MaxCrashes = 1
INVARIANTS ConvInv MessageIsAccountedFor ListInv
