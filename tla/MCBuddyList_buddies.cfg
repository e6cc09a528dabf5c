SPECIFICATION Spec
CONSTANTS
  Users <- OneUser
  Names <- OneName
  Mine = "mine"
  NoName = "noname"
  None = None
  IdlessChat = TRUE
  MaxUpdates = 2
  MaxCrashes = 1
INVARIANTS ListInv HandInv
PROPERTIES FriendIsNotDropped
