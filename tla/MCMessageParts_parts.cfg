SPECIFICATION PartsFairSpec
CONSTANTS
  Users <- TwoUsers
  Groups <- OneGroup
  Chats <- OneChat
  NoChat = "none"
  Receivable <- TwoMessages
  Processed <- ProcessMessage
  Batches <- OneBatch
  MaxItems = 2
INVARIANTS ShownInv
PROPERTIES AuthorsAreIntroduced BatchesEnd
