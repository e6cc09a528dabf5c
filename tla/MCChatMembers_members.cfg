SPECIFICATION MembersFairSpec
CONSTANTS
  Users <- TwoUsers
  Me = "me"
  Names <- OneName
  SelfAlias = "self"
  Titles <- TwoTitles
  NoTitle = "none"
  MaxRequests = 2
  MaxEvents = 1
  MaxChanges = 2
INVARIANTS ShownInv StaleForAReason
PROPERTIES MembersConverge
